--------------------------- MODULE AllocHookProofs ---------------------------
(***************************************************************************)
(* Proofs about AllocHook, for any threads, blocks and chunk structures    *)
(* and any depth of nesting.                                               *)
(***************************************************************************)
EXTENDS AllocHook, SequenceTheorems, FiniteSetTheorems, TLAPS

AnyAnswer == [kind : {"none", "table", "skip", "monitor"}, type : Types]
Call == [op : {"malloc", "posix_memalign", "hook"},
         step : {"before", "after", "inside"}, answer : AnyAnswer,
         b : Blocks \cup {Null}, heap : Types, old : Blocks \cup {Null}]
Block == [live : BOOLEAN, kind : {"none", "skip", "monitor"},
          ext : Chunks \cup {Null, Junk}]

TypeOK ==
    /\ active \in BOOLEAN
    /\ depth \in [Threads -> Int]
    /\ private \in [Threads -> Answers \cup {NoAnswer}]
    /\ calls \in [Threads -> Seq(Call)]
    /\ failed \in [Threads -> Nat]
    /\ block \in [Blocks -> Block]
    /\ chunk_of \in [Chunks -> Blocks \cup {Null, Junk}]
    /\ free \in [Threads -> SUBSET Chunks]

\* What the steps of a call know of it: a call that has no block yet, has one,
\* or is no allocation.  Only a request that cannot fail replaces a block.
CallShape(k) ==
    /\ k.step = "before" => k.b = Null
    /\ k.step = "after" => k.b \in Blocks
    /\ k.step = "inside" => k.b = Null /\ k.old = Null
    /\ k.op = "posix_memalign" => k.old = Null

\* Of the calls of a thread only the outermost one can have an answer, and
\* none has after a failure.
AnswerHidden(k) ==
    /\ k.answer.kind = "none"
    /\ k.step # "after" => k.answer = NoAnswer

ThreadInv(t) ==
    /\ depth[t] = Len(calls[t]) + failed[t]
    /\ private[t] # NoAnswer => active
    /\ depth[t] = 0 => private[t] = NoAnswer
    /\ failed[t] = 0 /\ calls[t] # <<>> => calls[t][1].answer = private[t]
    /\ \A i \in 1..Len(calls[t]) :
          /\ CallShape(calls[t][i])
          /\ calls[t][i].step = "inside" => calls[t][i].answer = NoAnswer
          /\ i > 1 \/ failed[t] > 0 => AnswerHidden(calls[t][i])
          /\ calls[t][i].step = "after" => calls[t][i].heap = calls[t][i].answer.type

\* The thread part of the invariant.
DepthInv == TypeOK /\ \A t \in Threads : ThreadInv(t)

\* No chunk structure is about block d.
NoChunkOf(d) == \A c \in Chunks : chunk_of[c] # d

\* The blocks that calls hold are live.  No chunk is about a new block, and
\* none about an old one unless the program stopped on the way.
HeldLive ==
    \A t \in Threads : \A i \in 1..Len(calls[t]) :
      /\ calls[t][i].b # Null =>
           block[calls[t][i].b].live /\ NoChunkOf(calls[t][i].b)
      /\ calls[t][i].old # Null =>
           /\ block[calls[t][i].old].live
           /\ halted = "no" => NoChunkOf(calls[t][i].old)

\* No two calls hold the same block.
HeldApart ==
    \A t, u \in Threads : \A i \in 1..Len(calls[t]), j \in 1..Len(calls[u]) :
      /\ calls[t][i].b # Null => calls[t][i].b # calls[u][j].old
      /\ <<t, i>> # <<u, j>> =>
           /\ calls[t][i].b # Null => calls[t][i].b # calls[u][j].b
           /\ calls[t][i].old # Null => calls[t][i].old # calls[u][j].old

\* A chunk structure that is about no block is on one free list.
FreeLists ==
    /\ \A c \in Chunks, t \in Threads : c \in free[t] => chunk_of[c] = Null
    /\ \A c \in Chunks, t, u \in Threads : c \in free[t] /\ c \in free[u] => t = u
    /\ \A c \in Chunks : chunk_of[c] = Null => \E t \in Threads : c \in free[t]

\* The others are about one live block each, whose head names them, or not made
\* yet; and none is made before the library is active.
ChunksHeld ==
    /\ \A c \in Chunks :
         chunk_of[c] \in Blocks =>
           block[chunk_of[c]].live /\ block[chunk_of[c]].ext = c
    /\ ~ active => \A c \in Chunks : chunk_of[c] = Junk

\* The head of a block whose request was answered with a context.
HeadsWritten ==
    \A b \in Blocks :
      Owned(b) =>
        /\ block[b].kind = "skip" => block[b].ext = Null
        /\ block[b].kind = "monitor" =>
             block[b].ext \in Chunks /\ chunk_of[block[b].ext] = b

IInv == DepthInv /\ HeldLive /\ HeldApart /\ FreeLists /\ ChunksHeld /\ HeadsWritten

-----------------------------------------------------------------------------
(* The operators of the model.                                             *)

\* A call entered.
LEMMA Entered ==
  ASSUME NEW s \in Seq(Call), NEW k \in Call
  PROVE  /\ Append(s, k) \in Seq(Call) /\ Len(Append(s, k)) = Len(s) + 1
         /\ Append(s, k)[Len(s) + 1] = k
         /\ \A i \in 1..Len(s) : Append(s, k)[i] = s[i]
         /\ Append(s, k) # <<>>
BY AppendProperties

\* The innermost call, and the calls around it.
LEMMA Innermost ==
  ASSUME NEW s \in Seq(Call), s # <<>>
  PROVE  /\ Len(s) \in Nat /\ Len(s) >= 1
         /\ Last(s) = s[Len(s)] /\ Last(s) \in Call
         /\ Front(s) \in Seq(Call) /\ Len(Front(s)) = Len(s) - 1
         /\ \A i \in 1..(Len(s) - 1) : Front(s)[i] = s[i]
<1>1. Len(s) \in Nat /\ Len(s) >= 1
  BY EmptySeq, LenProperties
<1>2. Last(s) = s[Len(s)] /\ s[Len(s)] \in Call
  BY <1>1, ElementOfSeq DEF Last
<1>3. /\ Front(s) \in Seq(Call) /\ Len(Front(s)) = Len(s) - 1
      /\ \A i \in 1..(Len(s) - 1) : Front(s)[i] = s[i]
  <2>1. \A i \in 1..(Len(s) - 1) : s[i] \in Call
    BY <1>1, ElementOfSeq
  <2>2. Len(s) - 1 \in Int /\ 1 \in Int
    BY <1>1
  <2>3. /\ SubSeq(s, 1, Len(s) - 1) \in Seq(Call)
        /\ Len(SubSeq(s, 1, Len(s) - 1)) =
             IF 1 <= Len(s) - 1 THEN (Len(s) - 1) - 1 + 1 ELSE 0
        /\ \A i \in 1..((Len(s) - 1) - 1 + 1) :
             SubSeq(s, 1, Len(s) - 1)[i] = s[1 + i - 1]
    BY <2>1, <2>2, SubSeqProperties
  <2>4. Len(Front(s)) = Len(s) - 1
    <3> DEFINE f == SubSeq(s, 1, Len(s) - 1)
    <3>1. Len(f) = IF 1 <= Len(s) - 1 THEN (Len(s) - 1) - 1 + 1 ELSE 0
      BY <2>3
    <3>2. f = Front(s)
      BY DEF Front
    <3> DEFINE n == Len(s)
               m == Len(f)
    <3>3. m = IF 1 <= n - 1 THEN (n - 1) - 1 + 1 ELSE 0
      BY <3>1
    <3>4. n \in Nat /\ n >= 1
      BY <1>1
    <3> HIDE DEF f, n, m
    <3>5. m = n - 1
      BY <3>3, <3>4
    <3> QED
      BY <3>2, <3>5 DEF n, m
  <2>5. ASSUME NEW i \in 1..(Len(s) - 1) PROVE Front(s)[i] = s[i]
    <3>1. i \in 1..((Len(s) - 1) - 1 + 1) /\ 1 + i - 1 = i
      BY <1>1
    <3> QED
      BY <2>3, <3>1 DEF Front
  <2> QED
    BY <2>3, <2>4, <2>5 DEF Front
<1> QED
  BY <1>1, <1>2, <1>3

\* The innermost call takes a step.
LEMMA Stepped ==
  ASSUME NEW s \in Seq(Call), s # <<>>, NEW k \in Call
  PROVE  /\ Front(s) \o <<k>> \in Seq(Call) /\ Len(Front(s) \o <<k>>) = Len(s)
         /\ (Front(s) \o <<k>>)[Len(s)] = k
         /\ \A i \in 1..(Len(s) - 1) : (Front(s) \o <<k>>)[i] = s[i]
<1>1. /\ Len(s) \in Nat /\ Len(s) >= 1 /\ Front(s) \in Seq(Call)
      /\ Len(Front(s)) = Len(s) - 1
      /\ \A i \in 1..(Len(s) - 1) : Front(s)[i] = s[i]
  BY Innermost
<1>2. Front(s) \o <<k>> = Append(Front(s), k)
  BY <1>1, AppendIsConcat
<1> QED
  BY <1>1, <1>2, Entered

\* The calls around one that failed.
LEMMA FailedCalls ==
  ASSUME NEW s \in Seq(Call), s # <<>>
  PROVE  LET r == [i \in 1 .. Len(s) - 1 |-> Hidden(s[i])] IN
         /\ r \in Seq(Call) /\ Len(r) = Len(s) - 1
         /\ \A i \in 1..(Len(s) - 1) : r[i] = Hidden(s[i])
         /\ \A i \in 1..(Len(s) - 1) :
              /\ CallShape(s[i]) => CallShape(r[i])
              /\ r[i].step = s[i].step /\ r[i].heap = s[i].heap
              /\ r[i].b = s[i].b /\ r[i].old = s[i].old
              /\ AnswerHidden(r[i])
              /\ r[i].step # "after" => r[i].answer = NoAnswer
              /\ s[i].step = "after" => r[i].answer.type = s[i].answer.type
<1> DEFINE r == [i \in 1 .. Len(s) - 1 |-> Hidden(s[i])]
<1>1. Len(s) \in Nat /\ Len(s) >= 1
  BY Innermost
<1>2. ASSUME NEW k \in Call
      PROVE  /\ Hidden(k) \in Call /\ Hidden(k).op = k.op
             /\ Hidden(k).step = k.step /\ Hidden(k).heap = k.heap
             /\ Hidden(k).b = k.b /\ Hidden(k).old = k.old
             /\ Hidden(k).answer.kind = "none"
             /\ k.step # "after" => Hidden(k).answer = NoAnswer
             /\ k.step = "after" => Hidden(k).answer.type = k.answer.type
  <2> DEFINE a == IF k.step = "after" THEN [k.answer EXCEPT !.kind = "none"]
                  ELSE NoAnswer
  <2>1. Hidden(k) = [k EXCEPT !.answer = a]
    BY DEF Hidden
  <2>2. /\ a \in AnyAnswer /\ a.kind = "none"
        /\ k.step # "after" => a = NoAnswer
        /\ k.step = "after" => a.type = k.answer.type
    BY DEF Call, AnyAnswer, NoAnswer, Types, OPEN
  <2> HIDE DEF a
  <2> QED
    BY <2>1, <2>2 DEF Call
<1>3. \A i \in 1..(Len(s) - 1) : s[i] \in Call
  BY <1>1, ElementOfSeq
<1>4. r \in Seq(Call) /\ Len(r) = Len(s) - 1
  <2>1. r \in [1..(Len(s) - 1) -> Call] /\ Len(s) - 1 \in Nat
    BY <1>1, <1>2, <1>3
  <2> HIDE DEF r
  <2> QED
    BY <2>1
<1>5. \A i \in 1..(Len(s) - 1) : r[i] = Hidden(s[i])
  OBVIOUS
<1> HIDE DEF r
<1>6. ASSUME NEW i \in 1..(Len(s) - 1)
      PROVE  /\ CallShape(s[i]) => CallShape(r[i])
             /\ r[i].step = s[i].step /\ r[i].heap = s[i].heap
             /\ r[i].b = s[i].b /\ r[i].old = s[i].old
             /\ AnswerHidden(r[i])
             /\ r[i].step # "after" => r[i].answer = NoAnswer
             /\ s[i].step = "after" => r[i].answer.type = s[i].answer.type
  BY <1>2, <1>3, <1>5 DEF CallShape, AnswerHidden
<1> QED
  BY <1>4, <1>5, <1>6 DEF r

-----------------------------------------------------------------------------
(* DepthInv is inductive.                                                  *)

\* No call is under way.
LEMMA InitDepth == Init => DepthInv
<1> SUFFICES ASSUME Init PROVE DepthInv
  OBVIOUS
<1>1. TypeOK
  <2>1. Unused(Null) \in Block
    BY DEF Unused, Block
  <2>2. <<>> \in Seq(Call)
    OBVIOUS
  <2>3. block \in [Blocks -> Block] /\ calls \in [Threads -> Seq(Call)]
    BY <2>1, <2>2 DEF Init
  <2>4. /\ active \in BOOLEAN /\ depth \in [Threads -> Int]
        /\ failed \in [Threads -> Nat]
        /\ private \in [Threads -> Answers \cup {NoAnswer}]
    <3>1. NoAnswer \in Answers \cup {NoAnswer}
      OBVIOUS
    <3>2. private \in [Threads -> Answers \cup {NoAnswer}]
      BY <3>1 DEF Init
    <3>3. active \in BOOLEAN
      BY DEF Init
    <3> QED
      BY <3>2, <3>3 DEF Init
  <2>5. /\ chunk_of \in [Chunks -> Blocks \cup {Null, Junk}]
        /\ free \in [Threads -> SUBSET Chunks]
    <3>1. chunk_of \in [Chunks -> Blocks \cup {Null, Junk}]
      BY DEF Init
    <3>2. {} \in SUBSET Chunks
      OBVIOUS
    <3>3. free \in [Threads -> SUBSET Chunks]
      BY <3>2 DEF Init
    <3> QED
      BY <3>1, <3>3
  <2> QED
    BY <2>3, <2>4, <2>5 DEF TypeOK
<1>2. ASSUME NEW t \in Threads PROVE ThreadInv(t)
  BY DEF Init, ThreadInv
<1> QED
  BY <1>1, <1>2 DEF DepthInv

\* A thread whose own variables do not change keeps its part.
LEMMA OtherThread ==
  ASSUME NEW u \in Threads, ThreadInv(u), depth'[u] = depth[u],
         private'[u] = private[u], calls'[u] = calls[u], failed'[u] = failed[u],
         active => active'
  PROVE  ThreadInv(u)'
BY DEF ThreadInv

\* A thread enters a call with the answer a: one of the predictor if the
\* request is managed, and none otherwise.
LEMMA EnterKeeps ==
  ASSUME DepthInv, NEW t \in Threads, NEW k \in Call,
         depth' = [depth EXCEPT ![t] = @ + 1],
         calls' = [calls EXCEPT ![t] = Append(@, k)],
         \/ k.answer = NoAnswer /\ private' = private
         \/ /\ active /\ depth[t] = 0 /\ k.answer \in Answers
            /\ private' = [private EXCEPT ![t] = k.answer],
         k.step # "after", CallShape(k),
         k.step = "inside" => k.answer = NoAnswer,
         UNCHANGED <<active, failed>>
  PROVE  /\ depth' \in [Threads -> Int] /\ calls' \in [Threads -> Seq(Call)]
         /\ private' \in [Threads -> Answers \cup {NoAnswer}]
         /\ \A u \in Threads : ThreadInv(u)'
<1> USE DEF DepthInv
<1>1. /\ calls[t] \in Seq(Call) /\ calls'[t] = Append(calls[t], k)
      /\ depth'[t] = depth[t] + 1 /\ depth[t] \in Int /\ failed[t] \in Nat
      /\ \A u \in Threads \ {t} : /\ calls'[u] = calls[u] /\ depth'[u] = depth[u]
                                   /\ private'[u] = private[u]
  BY DEF TypeOK
<1>2. /\ calls'[t] \in Seq(Call) /\ Len(calls'[t]) = Len(calls[t]) + 1
      /\ calls'[t][Len(calls[t]) + 1] = k /\ Len(calls[t]) \in Nat
      /\ \A i \in 1..Len(calls[t]) : calls'[t][i] = calls[t][i]
  BY <1>1, Entered, LenProperties
<1>3. /\ depth' \in [Threads -> Int] /\ calls' \in [Threads -> Seq(Call)]
      /\ private' \in [Threads -> Answers \cup {NoAnswer}]
  <2>1. depth' \in [Threads -> Int]
    BY <1>1 DEF TypeOK
  <2>2. calls' \in [Threads -> Seq(Call)]
    BY <1>1, <1>2 DEF TypeOK
  <2>3. private' \in [Threads -> Answers \cup {NoAnswer}]
    BY DEF TypeOK
  <2> QED
    BY <2>1, <2>2, <2>3
<1>4. \A u \in Threads \ {t} : ThreadInv(u)'
  BY <1>1, OtherThread
<1>5. ThreadInv(t)'
  <2>1. ThreadInv(t)
    OBVIOUS
  <2>2. /\ depth'[t] = Len(calls'[t]) + failed'[t]
        /\ private'[t] # NoAnswer => active'
        /\ depth'[t] # 0
    <3>1. depth[t] = Len(calls[t]) + failed[t] /\ failed'[t] = failed[t]
      BY <2>1 DEF ThreadInv
    <3>2. private'[t] # NoAnswer => active'
      BY <2>1 DEF ThreadInv, TypeOK
    <3> QED
      BY <1>1, <1>2, <3>1, <3>2
  <2>3. ASSUME failed[t] = 0 PROVE calls'[t][1].answer = private'[t]
    <3>1. CASE calls[t] = <<>>
      <4>1. calls'[t][1] = k /\ depth[t] = 0
        <5>1. Len(calls[t]) = 0
          BY <3>1
        <5> QED
          BY <1>1, <1>2, <2>1, <2>3, <5>1 DEF ThreadInv
      <4>2. private'[t] = k.answer
        BY <2>1, <4>1 DEF ThreadInv, TypeOK
      <4> QED
        BY <4>1, <4>2
    <3>2. CASE calls[t] # <<>>
      <4>1. Len(calls[t]) >= 1 /\ 1 \in 1..Len(calls[t])
        BY <1>1, <3>2, Innermost
      <4>2. depth[t] # 0
        BY <1>2, <2>1, <2>3, <4>1 DEF ThreadInv
      <4>3. private' = private
        BY <4>2
      <4>4. calls[t][1].answer = private[t]
        BY <2>1, <2>3, <3>2 DEF ThreadInv
      <4> QED
        BY <1>2, <4>1, <4>3, <4>4
    <3> QED
      BY <3>1, <3>2
  <2>4. Len(calls[t]) + 1 > 1 \/ failed[t] > 0 => k.answer = NoAnswer
    <3>1. depth[t] = Len(calls[t]) + failed[t]
      BY <2>1 DEF ThreadInv
    <3>2. Len(calls[t]) + 1 > 1 \/ failed[t] > 0 => depth[t] # 0
      BY <1>1, <1>2, <3>1
    <3> QED
      BY <3>2
  <2>5. NoAnswer.kind = "none"
    BY DEF NoAnswer
  <2>6. ASSUME NEW i \in 1..Len(calls'[t])
        PROVE  LET c == calls'[t][i] IN
               /\ CallShape(c)
               /\ c.step = "inside" => c.answer = NoAnswer
               /\ i > 1 \/ failed'[t] > 0 => AnswerHidden(c)
               /\ c.step = "after" => c.heap = c.answer.type
    <3>1. CASE i = Len(calls[t]) + 1
      BY <1>2, <2>4, <2>5, <3>1 DEF AnswerHidden
    <3>2. CASE i \in 1..Len(calls[t])
      BY <1>2, <2>1, <3>2 DEF ThreadInv
    <3> QED
      BY <1>2, <3>1, <3>2
  <2> QED
    BY <2>2, <2>3, <2>6 DEF ThreadInv
<1> QED
  BY <1>3, <1>4, <1>5

\* A step that changes no variable of a thread but perhaps activates the
\* library, and leaves the types alone.
LEMMA QuietKeeps ==
  ASSUME DepthInv, UNCHANGED threadVars, active => active', TypeOK'
  PROVE  DepthInv'
BY OtherThread DEF DepthInv, threadVars

\* The two ways into an allocation and the way into a hooked function.
LEMMA BeforeMallocKeeps ==
  ASSUME DepthInv, NEW t \in Threads, NEW op \in {"malloc", "posix_memalign"},
         NEW old \in Blocks \cup {Null}, op = "posix_memalign" => old = Null,
         BeforeMalloc(t, op, old), UNCHANGED <<active, failed>>
  PROVE  /\ depth' \in [Threads -> Int] /\ calls' \in [Threads -> Seq(Call)]
         /\ private' \in [Threads -> Answers \cup {NoAnswer}]
         /\ \A u \in Threads : ThreadInv(u)'
         /\ \E k \in Call : /\ calls' = [calls EXCEPT ![t] = Append(@, k)]
                            /\ k.b = Null /\ k.old = old
<1>1. PICK tiny \in BOOLEAN, a \in Answers \cup {NoAnswer} :
         /\ a \in IF Managed(t, tiny) THEN Answers ELSE {NoAnswer}
         /\ Enter(t, [op |-> op, step |-> "before", answer |-> a, b |-> Null,
                      heap |-> OPEN, old |-> old])
         /\ private' = IF Managed(t, tiny) THEN [private EXCEPT ![t] = a] ELSE private
  BY DEF BeforeMalloc
<1> DEFINE k == [op |-> op, step |-> "before", answer |-> a, b |-> Null,
                 heap |-> OPEN, old |-> old]
<1>2. k \in Call
  <2>1. a \in AnyAnswer
    BY DEF Answers, NoAnswer, AnyAnswer, Types, OPEN
  <2> QED
    BY <2>1 DEF Call, Types, OPEN
<1>3. /\ k.answer = a /\ k.step = "before" /\ CallShape(k) /\ k.b = Null /\ k.old = old
  BY DEF CallShape
<1>4. /\ calls' = [calls EXCEPT ![t] = Append(@, k)]
      /\ depth' = [depth EXCEPT ![t] = @ + 1]
  BY <1>1 DEF Enter
<1> HIDE DEF k
<1>5. \/ k.answer = NoAnswer /\ private' = private
      \/ /\ active /\ depth[t] = 0 /\ k.answer \in Answers
         /\ private' = [private EXCEPT ![t] = k.answer]
  BY <1>1, <1>3 DEF Managed
<1>6. k.step # "after" /\ (k.step = "inside" => k.answer = NoAnswer)
  BY <1>3
<1>7. /\ depth' \in [Threads -> Int] /\ calls' \in [Threads -> Seq(Call)]
      /\ private' \in [Threads -> Answers \cup {NoAnswer}]
      /\ \A u \in Threads : ThreadInv(u)'
  BY <1>2, <1>3, <1>4, <1>5, <1>6, EnterKeeps
<1> QED
  BY <1>2, <1>3, <1>4, <1>7

\* A call that is not an allocation.
LEMMA HookedCallKeeps ==
  ASSUME DepthInv, NEW t \in Threads, HookedCall(t)
  PROVE  /\ DepthInv'
         /\ \E k \in Call : /\ calls' = [calls EXCEPT ![t] = Append(@, k)]
                            /\ k.b = Null /\ k.old = Null
<1> DEFINE k == [op |-> "hook", step |-> "inside", answer |-> NoAnswer,
                 b |-> Null, heap |-> OPEN, old |-> Null]
<1>1. k \in Call
  <2>1. NoAnswer \in AnyAnswer
    BY DEF NoAnswer, AnyAnswer, Types, OPEN
  <2> QED
    BY <2>1 DEF Call, Types, OPEN
<1>2. /\ k.answer = NoAnswer /\ k.step = "inside" /\ CallShape(k)
      /\ k.b = Null /\ k.old = Null
  BY DEF CallShape
<1>3. /\ calls' = [calls EXCEPT ![t] = Append(@, k)]
      /\ depth' = [depth EXCEPT ![t] = @ + 1]
      /\ UNCHANGED <<active, private, failed, block, chunkVars, halted>>
  BY DEF HookedCall, Enter
<1> HIDE DEF k
<1>4. /\ depth' \in [Threads -> Int] /\ calls' \in [Threads -> Seq(Call)]
      /\ private' \in [Threads -> Answers \cup {NoAnswer}]
      /\ \A u \in Threads : ThreadInv(u)'
  BY <1>1, <1>2, <1>3, EnterKeeps
<1>5. TypeOK'
  BY <1>3, <1>4 DEF DepthInv, TypeOK, chunkVars
<1> QED
  BY <1>1, <1>2, <1>3, <1>4, <1>5 DEF DepthInv

\* A thread leaves its innermost call, which is not the outermost one or has
\* no answer left.
LEMMA LeaveKeeps ==
  ASSUME DepthInv, NEW t \in Threads, Leave(t), calls[t] # <<>>,
         depth[t] = 1 => private'[t] = NoAnswer,
         depth[t] # 1 => private'[t] = private[t],
         \A u \in Threads \ {t} : private'[u] = private[u],
         UNCHANGED <<active, failed>>
  PROVE  /\ depth' \in [Threads -> Int] /\ calls' \in [Threads -> Seq(Call)]
         /\ \A u \in Threads : ThreadInv(u)'
<1> USE DEF DepthInv
<1>1. /\ calls[t] \in Seq(Call) /\ calls'[t] = Front(calls[t])
      /\ depth'[t] = depth[t] - 1 /\ depth[t] \in Int /\ failed[t] \in Nat
      /\ \A u \in Threads \ {t} : calls'[u] = calls[u] /\ depth'[u] = depth[u]
  BY DEF TypeOK, Leave
<1>2. /\ calls'[t] \in Seq(Call) /\ Len(calls'[t]) = Len(calls[t]) - 1
      /\ Len(calls[t]) \in Nat /\ Len(calls[t]) >= 1
      /\ \A i \in 1..(Len(calls[t]) - 1) : calls'[t][i] = calls[t][i]
  BY <1>1, Innermost
<1>3. depth' \in [Threads -> Int] /\ calls' \in [Threads -> Seq(Call)]
  <2>1. depth' \in [Threads -> Int]
    BY <1>1 DEF TypeOK, Leave
  <2>2. calls' \in [Threads -> Seq(Call)]
    BY <1>1, <1>2 DEF TypeOK, Leave
  <2> QED
    BY <2>1, <2>2
<1>4. \A u \in Threads \ {t} : ThreadInv(u)'
  BY <1>1, OtherThread
<1>5. ThreadInv(t)'
  <2>1. ThreadInv(t) /\ depth[t] = Len(calls[t]) + failed[t] /\ failed'[t] = failed[t]
    BY DEF ThreadInv
  <2>2. depth'[t] = Len(calls'[t]) + failed'[t]
    BY <1>1, <1>2, <2>1
  <2>3. depth'[t] = 0 => private'[t] = NoAnswer
    BY <1>1
  <2>4. private'[t] # NoAnswer => active'
    BY <2>1 DEF ThreadInv
  <2>5. ASSUME failed'[t] = 0, calls'[t] # <<>>
        PROVE  calls'[t][1].answer = private'[t]
    <3>1. Len(calls'[t]) >= 1
      BY <1>2, <2>5, Innermost
    <3>2. 1 \in 1..(Len(calls[t]) - 1) /\ depth[t] # 1
      BY <1>1, <1>2, <2>1, <3>1
    <3>3. calls[t][1].answer = private[t]
      BY <2>1, <2>5 DEF ThreadInv
    <3> QED
      BY <1>2, <3>2, <3>3
  <2>6. \A i \in 1..Len(calls'[t]) : i \in 1..Len(calls[t]) /\ calls'[t][i] = calls[t][i]
    BY <1>2
  <2> QED
    BY <2>1, <2>2, <2>3, <2>4, <2>5, <2>6 DEF ThreadInv
<1> QED
  BY <1>3, <1>4, <1>5

\* At depth one a thread is inside one call, and has not failed.
LEMMA OutermostAlone ==
  ASSUME NEW n \in Nat, NEW f \in Nat, n >= 1
  PROVE  n + f = 1 <=> n = 1 /\ f = 0
OBVIOUS

\* A hooked function returns: if it was the outermost call there is no answer.
LEMMA HookedReturnKeeps ==
  ASSUME DepthInv, NEW t \in Threads, HookedReturn(t)
  PROVE  DepthInv'
<1> USE DEF DepthInv
<1>1. /\ calls[t] # <<>> /\ Top(t).step = "inside" /\ Leave(t)
      /\ UNCHANGED <<active, private, failed, block, chunkVars, halted>>
  BY DEF HookedReturn
<1>2. /\ Len(calls[t]) \in Nat /\ Len(calls[t]) >= 1
      /\ Top(t) = calls[t][Len(calls[t])]
  BY <1>1, Innermost DEF TypeOK, Top
<1>3. depth[t] = 1 => private[t] = NoAnswer
  <2> SUFFICES ASSUME depth[t] = 1 PROVE private[t] = NoAnswer
    OBVIOUS
  <2>1. depth[t] = Len(calls[t]) + failed[t] /\ failed[t] \in Nat
    BY DEF ThreadInv, TypeOK
  <2>2. Len(calls[t]) = 1 /\ failed[t] = 0
    BY <1>2, <2>1, OutermostAlone
  <2>3. calls[t][1].step = "inside" /\ calls[t][1].answer = private[t]
    BY <1>1, <1>2, <2>2 DEF ThreadInv
  <2>4. calls[t][1].answer = NoAnswer
    BY <1>2, <2>2, <2>3 DEF ThreadInv
  <2> QED
    BY <2>3, <2>4
<1>4. /\ depth' \in [Threads -> Int] /\ calls' \in [Threads -> Seq(Call)]
      /\ \A u \in Threads : ThreadInv(u)'
  BY <1>1, <1>3, LeaveKeeps
<1>5. TypeOK'
  BY <1>1, <1>4 DEF TypeOK, chunkVars
<1> QED
  BY <1>4, <1>5

\* The innermost call takes a step: it keeps its answer, and if it has a block
\* from now on, the block is from the heap that the answer names.
LEMMA StepKeeps ==
  ASSUME DepthInv, NEW t \in Threads, calls[t] # <<>>, NEW k \in Call,
         calls' = [calls EXCEPT ![t] = Front(@) \o <<k>>],
         k.answer = Top(t).answer, CallShape(k), k.step = "after",
         k.heap = k.answer.type,
         UNCHANGED <<active, depth, private, failed>>
  PROVE  /\ calls' \in [Threads -> Seq(Call)]
         /\ \A u \in Threads : ThreadInv(u)'
<1> USE DEF DepthInv
<1>1. /\ calls[t] \in Seq(Call) /\ calls'[t] = Front(calls[t]) \o <<k>>
      /\ \A u \in Threads \ {t} : calls'[u] = calls[u]
  BY DEF TypeOK
<1>2. /\ Len(calls[t]) \in Nat /\ Len(calls[t]) >= 1
      /\ Top(t) = calls[t][Len(calls[t])]
  BY <1>1, Innermost DEF Top
<1>3. /\ calls'[t] \in Seq(Call) /\ Len(calls'[t]) = Len(calls[t])
      /\ calls'[t][Len(calls[t])] = k
      /\ \A i \in 1..(Len(calls[t]) - 1) : calls'[t][i] = calls[t][i]
  BY <1>1, Stepped
<1>4. calls' \in [Threads -> Seq(Call)]
  BY <1>1, <1>3 DEF TypeOK
<1>5. \A u \in Threads \ {t} : ThreadInv(u)'
  BY <1>1, OtherThread
<1>6. ThreadInv(t)'
  <2>1. ThreadInv(t)
    OBVIOUS
  <2>2. \A i \in 1..Len(calls[t]) : calls'[t][i].answer = calls[t][i].answer
    BY <1>2, <1>3
  <2>3. failed'[t] = 0 /\ calls'[t] # <<>> => calls'[t][1].answer = private'[t]
    BY <1>2, <2>1, <2>2 DEF ThreadInv
  <2>4. ASSUME NEW i \in 1..Len(calls'[t])
        PROVE  LET c == calls'[t][i] IN
               /\ CallShape(c)
               /\ c.step = "inside" => c.answer = NoAnswer
               /\ i > 1 \/ failed'[t] > 0 => AnswerHidden(c)
               /\ c.step = "after" => c.heap = c.answer.type
    <3>1. CASE i = Len(calls[t])
      <4>1. calls'[t][i] = k /\ i \in 1..Len(calls[t])
        BY <1>2, <1>3, <3>1
      <4>2. i > 1 \/ failed[t] > 0 => k.answer.kind = "none"
        BY <1>2, <2>1, <3>1, <4>1 DEF ThreadInv, AnswerHidden
      <4> QED
        BY <4>1, <4>2 DEF AnswerHidden
    <3>2. CASE i # Len(calls[t])
      <4>1. i \in 1..(Len(calls[t]) - 1) /\ i \in 1..Len(calls[t])
        BY <1>2, <1>3, <3>2
      <4> QED
        BY <1>3, <2>1, <4>1 DEF ThreadInv
    <3> QED
      BY <3>1, <3>2
  <2> QED
    BY <1>3, <2>1, <2>3, <2>4 DEF ThreadInv
<1> QED
  BY <1>4, <1>5, <1>6

\* The hint that do_malloc() follows is the type in the answer to the call that
\* is allocating: at depth one the private pointer is its answer, and deeper
\* down there is neither a hint nor an answer.
LEMMA HintIsAnswer ==
  ASSUME DepthInv, NEW t \in Threads, calls[t] # <<>>, Top(t).step = "before"
  PROVE  HeapTypeHint(t) = Top(t).answer.type
<1> USE DEF DepthInv
<1>1. ThreadInv(t)
  OBVIOUS
<1>2. /\ Len(calls[t]) \in Nat /\ Len(calls[t]) >= 1
      /\ Top(t) = calls[t][Len(calls[t])] /\ failed[t] \in Nat
  BY Innermost DEF Top, TypeOK
<1>3. depth[t] = Len(calls[t]) + failed[t]
  BY <1>1 DEF ThreadInv
<1>4. NoAnswer.type = OPEN
  BY DEF NoAnswer
<1>5. CASE depth[t] = 1
  <2>1. Len(calls[t]) = 1 /\ failed[t] = 0
    BY <1>2, <1>3, <1>5, OutermostAlone
  <2>2. Top(t).answer = private[t]
    BY <1>1, <1>2, <2>1 DEF ThreadInv
  <2>3. ~ active => private[t] = NoAnswer
    BY <1>1 DEF ThreadInv
  <2> QED
    BY <1>4, <1>5, <2>2, <2>3 DEF HeapTypeHint
<1>6. CASE depth[t] # 1
  <2>1. Len(calls[t]) > 1 \/ failed[t] > 0
    BY <1>2, <1>3, <1>6, OutermostAlone
  <2>2. Len(calls[t]) \in 1..Len(calls[t])
    BY <1>2
  <2>3. Top(t).answer = NoAnswer
    BY <1>1, <1>2, <2>1, <2>2 DEF ThreadInv, AnswerHidden
  <2> QED
    BY <1>4, <1>6, <2>3 DEF HeapTypeHint
<1> QED
  BY <1>5, <1>6

\* do_malloc() hands a free block to the innermost call.
LEMMA DoMallocKeeps ==
  ASSUME DepthInv, NEW t \in Threads, do_malloc(t)
  PROVE  /\ DepthInv'
         /\ calls[t] # <<>> /\ Top(t).step = "before"
         /\ UNCHANGED <<active, depth, private, failed, chunkVars, halted>>
         /\ \E b \in Blocks, k \in Call :
              /\ ~ block[b].live /\ block'[b].live /\ block'[b].kind = "none"
              /\ \A d \in Blocks \ {b} : block'[d] = block[d]
              /\ calls' = [calls EXCEPT ![t] = Front(@) \o <<k>>]
              /\ k.b = b /\ k.old = Top(t).old
<1> USE DEF DepthInv
<1>1. PICK b \in Blocks, mixed \in BOOLEAN :
      /\ calls[t] # <<>> /\ Top(t).step = "before" /\ ~ block[b].live
      /\ block' = [block EXCEPT ![b] =
           [live |-> TRUE, kind |-> "none", ext |-> IF mixed THEN Junk ELSE @.ext]]
      /\ calls' = [calls EXCEPT ![t] =
           Front(@) \o <<[Top(t) EXCEPT !.op = "malloc", !.step = "after",
                                        !.b = b, !.heap = HeapTypeHint(t)]>>]
      /\ UNCHANGED <<active, depth, private, failed, chunkVars, halted>>
  BY DEF do_malloc
<1> DEFINE k == [Top(t) EXCEPT !.op = "malloc", !.step = "after",
                               !.b = b, !.heap = HeapTypeHint(t)]
           x == [live |-> TRUE, kind |-> "none",
                 ext |-> IF mixed THEN Junk ELSE block[b].ext]
<1>2. Top(t) \in Call
  BY <1>1, Innermost DEF Top, TypeOK
<1>3. HeapTypeHint(t) = Top(t).answer.type /\ HeapTypeHint(t) \in Types
  <2>1. HeapTypeHint(t) = Top(t).answer.type
    BY <1>1, HintIsAnswer
  <2> QED
    BY <1>2, <2>1 DEF Call, AnyAnswer
<1>4. /\ k \in Call /\ k.answer = Top(t).answer /\ k.step = "after" /\ k.b = b
      /\ k.heap = HeapTypeHint(t) /\ k.old = Top(t).old /\ k.op = "malloc"
  BY <1>2, <1>3 DEF Call
<1>5. CallShape(k)
  BY <1>4 DEF CallShape
<1>6. x \in Block /\ x.live /\ x.kind = "none"
  BY DEF TypeOK, Block
<1>7. block' = [block EXCEPT ![b] = x] /\ calls' = [calls EXCEPT ![t] = Front(@) \o <<k>>]
  BY <1>1
<1> HIDE DEF k, x
<1>8. block' \in [Blocks -> Block] /\ block'[b] = x
      /\ \A d \in Blocks \ {b} : block'[d] = block[d]
  BY <1>6, <1>7 DEF TypeOK
<1>9. /\ calls' \in [Threads -> Seq(Call)]
      /\ \A u \in Threads : ThreadInv(u)'
  BY <1>1, <1>3, <1>4, <1>5, <1>7, StepKeeps
<1>10. TypeOK'
  BY <1>1, <1>8, <1>9 DEF TypeOK, chunkVars
<1> QED
  BY <1>1, <1>4, <1>6, <1>7, <1>8, <1>9, <1>10

\* A realloc() frees the old block.
LEMMA FreeOldKeeps ==
  ASSUME DepthInv, NEW t \in Threads, FreeOld(t)
  PROVE  /\ DepthInv'
         /\ calls[t] # <<>> /\ Top(t).old \in Blocks
         /\ UNCHANGED <<active, depth, private, failed, chunkVars, halted>>
         /\ ~ block'[Top(t).old].live
         /\ \A d \in Blocks \ {Top(t).old} : block'[d] = block[d]
         /\ \E k \in Call : /\ calls' = [calls EXCEPT ![t] = Front(@) \o <<k>>]
                            /\ k.b = Top(t).b /\ k.old = Null
<1> USE DEF DepthInv
<1> DEFINE k == [Top(t) EXCEPT !.old = Null]
           d == Top(t).old
<1>1. /\ calls[t] # <<>> /\ Top(t).step = "after" /\ Top(t).old # Null
      /\ block' = [block EXCEPT ![d] = Unused(block[d].ext)]
      /\ calls' = [calls EXCEPT ![t] = Front(@) \o <<k>>]
      /\ UNCHANGED <<active, depth, private, failed, chunkVars, halted>>
  BY DEF FreeOld
<1>2. /\ Len(calls[t]) \in Nat /\ Len(calls[t]) >= 1 /\ Top(t) \in Call
      /\ Top(t) = calls[t][Len(calls[t])]
  BY <1>1, Innermost DEF Top, TypeOK
<1>3. Len(calls[t]) \in 1..Len(calls[t])
  BY <1>2
<1>4. CallShape(Top(t)) /\ Top(t).heap = Top(t).answer.type
  BY <1>1, <1>2, <1>3 DEF ThreadInv
<1>5. /\ k \in Call /\ k.answer = Top(t).answer /\ k.step = "after" /\ k.b = Top(t).b
      /\ k.heap = Top(t).heap /\ k.old = Null /\ k.op = Top(t).op
  BY <1>1, <1>2 DEF Call
<1>6. CallShape(k)
  BY <1>4, <1>5 DEF CallShape
<1>7. d \in Blocks
  BY <1>1, <1>2 DEF Call
<1> HIDE DEF k, d
<1>8. Unused(block[d].ext) \in Block /\ ~ Unused(block[d].ext).live
  BY <1>7 DEF TypeOK, Block, Unused
<1>9. /\ block' \in [Blocks -> Block] /\ block'[d] = Unused(block[d].ext)
      /\ \A e \in Blocks \ {d} : block'[e] = block[e]
  BY <1>1, <1>7, <1>8 DEF TypeOK
<1>10. /\ calls' \in [Threads -> Seq(Call)]
       /\ \A u \in Threads : ThreadInv(u)'
  BY <1>1, <1>4, <1>5, <1>6, StepKeeps
<1>11. TypeOK'
  BY <1>1, <1>9, <1>10 DEF TypeOK, chunkVars
<1> QED
  BY <1>1, <1>5, <1>7, <1>8, <1>9, <1>10, <1>11 DEF d

\* tc_posix_memalign() fails: the depth stays, and the calls around it lose
\* their answers.
LEMMA NoMemoryKeeps ==
  ASSUME DepthInv, NEW t \in Threads, NoMemory(t)
  PROVE  DepthInv'
<1> USE DEF DepthInv
<1> DEFINE r == [i \in 1 .. Len(calls[t]) - 1 |-> Hidden(calls[t][i])]
<1>1. /\ calls[t] # <<>>
      /\ failed' = [failed EXCEPT ![t] = @ + 1]
      /\ calls' = [calls EXCEPT ![t] = r]
      /\ UNCHANGED <<active, depth, private, block, chunkVars, halted>>
  BY DEF NoMemory
<1>2. /\ calls[t] \in Seq(Call) /\ Len(calls[t]) \in Nat /\ Len(calls[t]) >= 1
      /\ failed[t] \in Nat
  BY <1>1, Innermost DEF TypeOK
<1>3. /\ r \in Seq(Call) /\ Len(r) = Len(calls[t]) - 1
      /\ \A i \in 1..(Len(calls[t]) - 1) :
           /\ CallShape(calls[t][i]) => CallShape(r[i])
           /\ r[i].step = calls[t][i].step /\ r[i].heap = calls[t][i].heap
           /\ AnswerHidden(r[i])
           /\ r[i].step # "after" => r[i].answer = NoAnswer
           /\ calls[t][i].step = "after" => r[i].answer.type = calls[t][i].answer.type
  BY <1>1, <1>2, FailedCalls
<1> HIDE DEF r
<1>4. TypeOK'
  <2>1. calls' \in [Threads -> Seq(Call)]
    BY <1>1, <1>3 DEF TypeOK
  <2>2. failed' \in [Threads -> Nat]
    BY <1>1 DEF TypeOK
  <2> QED
    BY <1>1, <2>1, <2>2 DEF TypeOK, chunkVars
<1>5. /\ calls'[t] = r /\ failed'[t] = failed[t] + 1
      /\ \A u \in Threads \ {t} : calls'[u] = calls[u] /\ failed'[u] = failed[u]
  BY <1>1 DEF TypeOK
<1>6. \A u \in Threads \ {t} : ThreadInv(u)'
  BY <1>1, <1>5, OtherThread
<1>7. ThreadInv(t)'
  <2>1. ThreadInv(t)
    OBVIOUS
  <2>2. depth'[t] = Len(calls'[t]) + failed'[t]
    <3>1. depth[t] = Len(calls[t]) + failed[t]
      BY <2>1 DEF ThreadInv
    <3>2. (Len(calls[t]) - 1) + (failed[t] + 1) = Len(calls[t]) + failed[t]
      BY <1>2
    <3> QED
      BY <1>1, <1>3, <1>5, <3>1, <3>2
  <2>3. failed'[t] # 0
    BY <1>2, <1>5
  <2>4. ASSUME NEW i \in 1..Len(calls'[t])
        PROVE  LET c == calls'[t][i] IN
               /\ CallShape(c)
               /\ c.step = "inside" => c.answer = NoAnswer
               /\ i > 1 \/ failed'[t] > 0 => AnswerHidden(c)
               /\ c.step = "after" => c.heap = c.answer.type
    <3>1. i \in 1..(Len(calls[t]) - 1) /\ i \in 1..Len(calls[t])
      BY <1>2, <1>3, <1>5
    <3> QED
      BY <1>3, <1>5, <2>1, <3>1 DEF ThreadInv
  <2> QED
    BY <1>1, <2>1, <2>2, <2>3, <2>4 DEF ThreadInv
<1> QED
  BY <1>4, <1>6, <1>7

\* notify_heap_type_manager_after_malloc() leaves the call and, if it is the
\* outermost one, forgets the answer.
LEMMA AfterMallocKeeps ==
  ASSUME DepthInv, NEW t \in Threads, AfterMalloc(t)
  PROVE  DepthInv'
<1> USE DEF DepthInv
<1> DEFINE b == Top(t).b
<1>1. PICK ext \in Chunks \cup {Null, Junk} :
      /\ calls[t] # <<>> /\ Top(t).step = "after"
      /\ IF active /\ depth[t] = 1 /\ private[t] # NoAnswer
         THEN /\ Sampling(t, private[t], ext)
              /\ private' = [private EXCEPT ![t] = NoAnswer]
         ELSE /\ ext = block[b].ext
              /\ UNCHANGED <<private, chunkVars>>
      /\ block' = [block EXCEPT ![b].ext = ext, ![b].kind = Recorded(Top(t).answer)]
      /\ Leave(t)
      /\ UNCHANGED <<active, failed, halted>>
  BY DEF AfterMalloc
<1>2. /\ Len(calls[t]) \in Nat /\ Len(calls[t]) >= 1 /\ Top(t) \in Call
      /\ Top(t) = calls[t][Len(calls[t])] /\ Len(calls[t]) \in 1..Len(calls[t])
  <2>1. /\ Len(calls[t]) \in Nat /\ Len(calls[t]) >= 1 /\ Top(t) \in Call
        /\ Top(t) = calls[t][Len(calls[t])]
    BY <1>1, Innermost DEF Top, TypeOK
  <2> QED
    BY <2>1
<1>3. b \in Blocks
  BY <1>1, <1>2 DEF ThreadInv, CallShape
<1>4. Recorded(Top(t).answer) \in {"none", "skip", "monitor"}
  BY <1>2 DEF Recorded, Call, AnyAnswer
<1> HIDE DEF b
<1>5. block' \in [Blocks -> Block]
  <2> DEFINE x == [block[b] EXCEPT !.ext = ext, !.kind = Recorded(Top(t).answer)]
  <2>1. block[b] \in Block
    BY <1>3 DEF TypeOK
  <2>2. x \in Block
    BY <1>4, <2>1 DEF Block
  <2>3. block' = [block EXCEPT ![b] = x]
    BY <1>1, <1>3 DEF TypeOK, Block
  <2> HIDE DEF x
  <2> QED
    BY <2>2, <2>3 DEF TypeOK
<1>6. private' \in [Threads -> Answers \cup {NoAnswer}]
  BY <1>1 DEF TypeOK
<1>7. /\ chunk_of' \in [Chunks -> Blocks \cup {Null, Junk}]
      /\ free' \in [Threads -> SUBSET Chunks]
  <2>1. CASE UNCHANGED chunkVars
    BY <2>1 DEF chunkVars, TypeOK
  <2>2. CASE /\ ext \in Chunks /\ chunk_alloc(t, ext)
             /\ chunk_of' = [chunk_of EXCEPT ![ext] = Top(t).b]
    <3>1. chunk_of' \in [Chunks -> Blocks \cup {Null, Junk}]
      BY <1>3, <2>2 DEF TypeOK, b
    <3>2. free' \in [Threads -> SUBSET Chunks]
      BY <2>2 DEF TypeOK, chunk_alloc
    <3> QED
      BY <3>1, <3>2
  <2> QED
    BY <1>1, <2>1, <2>2 DEF Sampling
<1>8. depth[t] = 1 => private'[t] = NoAnswer
  <2>1. ~ active => private[t] = NoAnswer
    BY DEF ThreadInv
  <2> QED
    BY <1>1, <2>1 DEF TypeOK
<1>9. /\ depth[t] # 1 => private'[t] = private[t]
      /\ \A u \in Threads \ {t} : private'[u] = private[u]
  BY <1>1 DEF TypeOK
<1>10. /\ depth' \in [Threads -> Int] /\ calls' \in [Threads -> Seq(Call)]
       /\ \A u \in Threads : ThreadInv(u)'
  BY <1>1, <1>8, <1>9, LeaveKeeps
<1>11. TypeOK'
  BY <1>1, <1>5, <1>6, <1>7, <1>10 DEF TypeOK
<1> QED
  BY <1>10, <1>11

\* NightWatch_collect_sample() keeps the types of the chunk structures.
LEMMA CollectTypes ==
  ASSUME TypeOK, NEW t \in Threads, NEW b \in Blocks, CollectSample(t, b)
  PROVE  /\ chunk_of' \in [Chunks -> Blocks \cup {Null, Junk}]
         /\ free' \in [Threads -> SUBSET Chunks]
<1>1. CASE UNCHANGED chunkVars
  BY <1>1 DEF chunkVars, TypeOK
<1>2. CASE /\ block[b].ext \in Chunks /\ chunk_free(t, block[b].ext)
  <2>1. chunk_of' \in [Chunks -> Blocks \cup {Null, Junk}]
    BY <1>2 DEF TypeOK, chunk_free
  <2>2. free' \in [Threads -> SUBSET Chunks]
    BY <1>2 DEF TypeOK, chunk_free
  <2> QED
    BY <2>1, <2>2
<1> QED
  BY <1>1, <1>2 DEF CollectSample

\* tc_free() changes no variable of the thread.
LEMMA FreeKeeps ==
  ASSUME DepthInv, NEW t \in Threads, tc_free(t)
  PROVE  DepthInv'
<1>1. PICK b \in Blocks :
      /\ IF active THEN CollectSample(t, b) ELSE UNCHANGED <<chunkVars, halted>>
      /\ block' = IF halted' = "no"
                    THEN [block EXCEPT ![b] = Unused(@.ext)]
                    ELSE block
      /\ UNCHANGED <<active, threadVars>>
  BY DEF tc_free
<1>2. /\ chunk_of' \in [Chunks -> Blocks \cup {Null, Junk}]
      /\ free' \in [Threads -> SUBSET Chunks]
  BY <1>1, CollectTypes DEF DepthInv, TypeOK, chunkVars
<1>3. block' \in [Blocks -> Block]
  <2>1. Unused(block[b].ext) \in Block
    BY DEF DepthInv, TypeOK, Unused, Block
  <2> QED
    BY <1>1, <2>1 DEF DepthInv, TypeOK
<1>4. TypeOK'
  BY <1>1, <1>2, <1>3 DEF DepthInv, TypeOK, threadVars
<1> QED
  BY <1>1, <1>4, QuietKeeps

\* The calls that start an allocation.
LEMMA MallocKeeps ==
  ASSUME DepthInv, NEW t \in Threads, tc_malloc(t)
  PROVE  /\ DepthInv'
         /\ \E k \in Call : /\ calls' = [calls EXCEPT ![t] = Append(@, k)]
                            /\ k.b = Null /\ k.old = Null
<1>1. PICK op \in {"malloc", "posix_memalign"} : BeforeMalloc(t, op, Null)
  BY DEF tc_malloc
<1>2. UNCHANGED <<active, failed, block, chunkVars, halted>>
  BY DEF tc_malloc
<1>3. /\ depth' \in [Threads -> Int] /\ calls' \in [Threads -> Seq(Call)]
      /\ private' \in [Threads -> Answers \cup {NoAnswer}]
      /\ \A u \in Threads : ThreadInv(u)'
      /\ \E k \in Call : /\ calls' = [calls EXCEPT ![t] = Append(@, k)]
                         /\ k.b = Null /\ k.old = Null
  BY <1>1, <1>2, BeforeMallocKeeps
<1>4. TypeOK'
  BY <1>2, <1>3 DEF DepthInv, TypeOK, chunkVars
<1> QED
  BY <1>3, <1>4 DEF DepthInv

\* tc_realloc() enters an allocation that holds the old block.
LEMMA ReallocKeeps ==
  ASSUME DepthInv, NEW t \in Threads, tc_realloc(t)
  PROVE  /\ DepthInv'
         /\ \E b \in Blocks, k \in Call :
              /\ Owned(b) /\ CollectSample(t, b) /\ UNCHANGED <<active, block>>
              /\ calls' = [calls EXCEPT ![t] = Append(@, k)]
              /\ k.b = Null /\ k.old = b
<1>1. PICK b \in Blocks :
      /\ Owned(b) /\ CollectSample(t, b) /\ BeforeMalloc(t, "malloc", b)
      /\ UNCHANGED <<active, failed, block>>
  BY DEF tc_realloc
<1>2. /\ depth' \in [Threads -> Int] /\ calls' \in [Threads -> Seq(Call)]
      /\ private' \in [Threads -> Answers \cup {NoAnswer}]
      /\ \A u \in Threads : ThreadInv(u)'
      /\ \E k \in Call : /\ calls' = [calls EXCEPT ![t] = Append(@, k)]
                         /\ k.b = Null /\ k.old = b
  BY <1>1, BeforeMallocKeeps
<1>3. /\ chunk_of' \in [Chunks -> Blocks \cup {Null, Junk}]
      /\ free' \in [Threads -> SUBSET Chunks]
  BY <1>1, CollectTypes DEF DepthInv
<1>4. TypeOK'
  BY <1>1, <1>2, <1>3 DEF DepthInv, TypeOK
<1> QED
  BY <1>1, <1>2, <1>4 DEF DepthInv

\* Every step keeps the thread part of the invariant.
LEMMA NextDepth == DepthInv /\ [Next]_vars => DepthInv'
<1> SUFFICES ASSUME DepthInv, [Next]_vars PROVE DepthInv'
  OBVIOUS
<1>1. CASE Activate
  <2>1. TypeOK'
    BY <1>1 DEF Activate, DepthInv, TypeOK, threadVars, chunkVars
  <2> QED
    BY <1>1, <2>1, QuietKeeps DEF Activate
<1>2. ASSUME NEW t \in Threads, Step(t) PROVE DepthInv'
  BY <1>2, MallocKeeps, DoMallocKeeps, NoMemoryKeeps, AfterMallocKeeps, FreeKeeps,
     ReallocKeeps, FreeOldKeeps, HookedCallKeeps, HookedReturnKeeps DEF Step
<1>3. CASE UNCHANGED vars
  <2>1. TypeOK'
    BY <1>3 DEF vars, DepthInv, TypeOK, threadVars, chunkVars
  <2> QED
    BY <1>3, <2>1, QuietKeeps DEF vars
<1> QED
  BY <1>1, <1>2, <1>3 DEF Next

\* The thread part holds in every reachable state.
THEOREM ThreadsInvariant == Spec => []DepthInv
BY InitDepth, NextDepth, PTL DEF Spec

\* in_cache_manage counts the calls that a thread is inside of and the requests
\* of it that got no memory, however calls nest, and an answer of the predictor
\* never outlives the request it was given to.
THEOREM DepthAlwaysBalanced == Spec => []DepthBalanced
<1>1. DepthInv => DepthBalanced
  BY DEF DepthInv, ThreadInv, DepthBalanced
<1> QED
  BY <1>1, ThreadsInvariant, PTL

-----------------------------------------------------------------------------
(* The blocks that calls hold.                                             *)

\* Call i of thread u is under way before and after the step, with the same
\* blocks.
SameCall(u, i) ==
    /\ i \in 1..Len(calls[u]) /\ i \in 1..Len(calls'[u])
    /\ calls'[u][i].b = calls[u][i].b
    /\ calls'[u][i].old = calls[u][i].old

\* Entering a call adds one.
LEMMA CallsEntered ==
  ASSUME TypeOK, NEW t \in Threads, NEW k \in Call,
         calls' = [calls EXCEPT ![t] = Append(@, k)]
  PROVE  /\ \A u \in Threads : \A i \in 1..Len(calls[u]) : SameCall(u, i)
         /\ \A u \in Threads : \A i \in 1..Len(calls'[u]) :
              SameCall(u, i) \/ (u = t /\ i = Len(calls[t]) + 1 /\ calls'[u][i] = k)
         /\ Len(calls[t]) + 1 \in 1..Len(calls'[t]) /\ calls'[t][Len(calls[t]) + 1] = k
<1>1. /\ calls[t] \in Seq(Call) /\ calls'[t] = Append(calls[t], k)
      /\ \A u \in Threads \ {t} : calls'[u] = calls[u]
  BY DEF TypeOK
<1>2. /\ Len(calls'[t]) = Len(calls[t]) + 1 /\ Len(calls[t]) \in Nat
      /\ calls'[t][Len(calls[t]) + 1] = k
      /\ \A i \in 1..Len(calls[t]) : calls'[t][i] = calls[t][i]
  BY <1>1, Entered, LenProperties
<1>3. \A i \in 1..Len(calls[t]) : i \in 1..Len(calls'[t])
  BY <1>2
<1>4. \A i \in 1..Len(calls'[t]) : i \in 1..Len(calls[t]) \/ i = Len(calls[t]) + 1
  BY <1>2
<1>5. Len(calls[t]) + 1 \in 1..Len(calls'[t])
  BY <1>2
<1> QED
  BY <1>1, <1>2, <1>3, <1>4, <1>5 DEF SameCall

\* A step of the innermost call changes that one.
LEMMA CallsStepped ==
  ASSUME TypeOK, NEW t \in Threads, NEW k \in Call, calls[t] # <<>>,
         calls' = [calls EXCEPT ![t] = Front(@) \o <<k>>]
  PROVE  /\ Len(calls[t]) \in 1..Len(calls[t]) /\ Len(calls'[t]) = Len(calls[t])
         /\ Top(t) = calls[t][Len(calls[t])] /\ calls'[t][Len(calls[t])] = k
         /\ \A u \in Threads : \A i \in 1..Len(calls[u]) :
              /\ i \in 1..Len(calls'[u])
              /\ SameCall(u, i) \/ (u = t /\ i = Len(calls[t]))
         /\ \A u \in Threads : \A i \in 1..Len(calls'[u]) :
              SameCall(u, i) \/ (u = t /\ i = Len(calls[t]))
<1>1. /\ calls[t] \in Seq(Call) /\ calls'[t] = Front(calls[t]) \o <<k>>
      /\ \A u \in Threads \ {t} : calls'[u] = calls[u]
  BY DEF TypeOK
<1>2. /\ Len(calls'[t]) = Len(calls[t]) /\ calls'[t][Len(calls[t])] = k
      /\ \A i \in 1..(Len(calls[t]) - 1) : calls'[t][i] = calls[t][i]
      /\ Len(calls[t]) \in Nat /\ Len(calls[t]) >= 1
      /\ Top(t) = calls[t][Len(calls[t])]
  BY <1>1, Stepped, Innermost, SMTT(30) DEF Top
<1>3. \A i \in 1..Len(calls[t]) : i \in 1..(Len(calls[t]) - 1) \/ i = Len(calls[t])
  BY <1>2
<1>4. Len(calls[t]) \in 1..Len(calls[t])
  BY <1>2
<1> QED
  BY <1>1, <1>2, <1>3, <1>4 DEF SameCall

\* Leaving a call, or failing in it, takes the innermost one away.
LEMMA CallsLeft ==
  ASSUME TypeOK, NEW t \in Threads, calls[t] # <<>>,
         \/ calls' = [calls EXCEPT ![t] = Front(@)]
         \/ calls' = [calls EXCEPT ![t] = [i \in 1 .. Len(@) - 1 |-> Hidden(@[i])]]
  PROVE  /\ Len(calls[t]) \in 1..Len(calls[t]) /\ Top(t) = calls[t][Len(calls[t])]
         /\ \A u \in Threads : \A i \in 1..Len(calls[u]) :
              SameCall(u, i) \/ (u = t /\ i = Len(calls[t]))
         /\ \A u \in Threads : \A i \in 1..Len(calls'[u]) :
              SameCall(u, i) /\ <<u, i>> # <<t, Len(calls[t])>>
<1>1. /\ calls[t] \in Seq(Call)
      /\ \A u \in Threads \ {t} : calls'[u] = calls[u]
  BY DEF TypeOK
<1>2. /\ Len(calls[t]) \in Nat /\ Len(calls[t]) >= 1
      /\ Top(t) = calls[t][Len(calls[t])]
  BY <1>1, Innermost DEF Top
<1>3. /\ Len(calls'[t]) = Len(calls[t]) - 1
      /\ \A i \in 1..(Len(calls[t]) - 1) :
           calls'[t][i].b = calls[t][i].b /\ calls'[t][i].old = calls[t][i].old
  <2>1. CASE calls' = [calls EXCEPT ![t] = Front(@)]
    <3>1. calls'[t] = Front(calls[t])
      BY <2>1 DEF TypeOK
    <3> QED
      BY <1>1, <3>1, Innermost
  <2>2. CASE calls' = [calls EXCEPT ![t] = [i \in 1 .. Len(@) - 1 |-> Hidden(@[i])]]
    <3>1. calls'[t] = [i \in 1 .. Len(calls[t]) - 1 |-> Hidden(calls[t][i])]
      BY <2>2 DEF TypeOK
    <3> QED
      BY <1>1, <3>1, FailedCalls
  <2> QED
    BY <2>1, <2>2
<1>4. \A i \in 1..Len(calls[t]) : i \in 1..Len(calls'[t]) \/ i = Len(calls[t])
  BY <1>2, <1>3
<1>5. \A i \in 1..Len(calls'[t]) :
         /\ i \in 1..Len(calls[t]) /\ i \in 1..(Len(calls[t]) - 1) /\ i # Len(calls[t])
  BY <1>2, <1>3
<1>6. Len(calls[t]) \in 1..Len(calls[t])
  BY <1>2
<1> QED
  BY <1>1, <1>2, <1>3, <1>4, <1>5, <1>6 DEF SameCall

\* The blocks a call may hold.
LEMMA CallTypes ==
  ASSUME TypeOK
  PROVE  \A u \in Threads : \A i \in 1..Len(calls[u]) :
           /\ calls[u][i] \in Call
           /\ calls[u][i].b \in Blocks \cup {Null} /\ calls[u][i].old \in Blocks \cup {Null}
<1> SUFFICES ASSUME NEW u \in Threads, NEW i \in 1..Len(calls[u])
             PROVE  /\ calls[u][i] \in Call
                    /\ calls[u][i].b \in Blocks \cup {Null}
                    /\ calls[u][i].old \in Blocks \cup {Null}
  OBVIOUS
<1>1. calls[u] \in Seq(Call)
  BY DEF TypeOK
<1>2. calls[u][i] \in Call
  BY <1>1, ElementOfSeq
<1> QED
  BY <1>2 DEF Call

\* What the program owns, by the numbers of the calls.
LEMMA OwnedCalls ==
  ASSUME TypeOK, NEW d \in Blocks
  PROVE  Owned(d) <=>
           /\ block[d].live
           /\ \A t \in Threads : \A i \in 1..Len(calls[t]) :
                d # calls[t][i].old /\ d # calls[t][i].b
<1>1. \A t \in Threads : DOMAIN calls[t] = 1..Len(calls[t])
  BY LenProperties DEF TypeOK
<1> QED
  BY <1>1 DEF Owned

\* The same in the next state.
LEMMA OwnedCallsNext ==
  ASSUME TypeOK', NEW d \in Blocks
  PROVE  Owned(d)' <=>
           /\ block'[d].live
           /\ \A t \in Threads : \A i \in 1..Len(calls'[t]) :
                d # calls'[t][i].old /\ d # calls'[t][i].b
<1>1. \A t \in Threads : DOMAIN calls'[t] = 1..Len(calls'[t])
  BY LenProperties DEF TypeOK
<1> QED
  BY <1>1 DEF Owned

-----------------------------------------------------------------------------
(* IInv is inductive.                                                      *)

\* A call that holds no block is entered.
LEMMA EnterHolds ==
  ASSUME IInv, DepthInv', NEW t \in Threads, NEW k \in Call,
         calls' = [calls EXCEPT ![t] = Append(@, k)], k.b = Null, k.old = Null,
         UNCHANGED <<active, block, chunk_of, free, halted>>
  PROVE  IInv'
<1> USE DEF IInv, DepthInv
<1>1. /\ \A u \in Threads : \A i \in 1..Len(calls[u]) : SameCall(u, i)
      /\ \A u \in Threads : \A i \in 1..Len(calls'[u]) :
           SameCall(u, i) \/ (calls'[u][i].b = Null /\ calls'[u][i].old = Null)
  <2>1. /\ \A u \in Threads : \A i \in 1..Len(calls[u]) : SameCall(u, i)
        /\ \A u \in Threads : \A i \in 1..Len(calls'[u]) :
             SameCall(u, i) \/ (u = t /\ i = Len(calls[t]) + 1 /\ calls'[u][i] = k)
    BY CallsEntered
  <2> QED
    BY <2>1
<1>2. HeldLive'
  BY <1>1 DEF HeldLive, SameCall, NoChunkOf
<1>3. HeldApart'
  BY <1>1 DEF HeldApart, SameCall
<1>4. ChunksHeld' /\ FreeLists'
  BY DEF ChunksHeld, FreeLists
<1>5. HeadsWritten'
  <2> SUFFICES ASSUME NEW d \in Blocks, Owned(d)' PROVE Owned(d)
    BY DEF HeadsWritten
  <2> QED
    BY <1>1, OwnedCalls, OwnedCallsNext DEF SameCall
<1> QED
  BY <1>2, <1>3, <1>4, <1>5

\* A call that holds no block is left.
LEMMA LeaveHolds ==
  ASSUME IInv, DepthInv', NEW t \in Threads, calls[t] # <<>>,
         \/ calls' = [calls EXCEPT ![t] = Front(@)]
         \/ calls' = [calls EXCEPT ![t] = [i \in 1 .. Len(@) - 1 |-> Hidden(@[i])]],
         Top(t).b = Null, Top(t).old = Null,
         UNCHANGED <<active, block, chunk_of, free, halted>>
  PROVE  IInv'
<1> USE DEF IInv, DepthInv
<1>1. /\ \A u \in Threads : \A i \in 1..Len(calls[u]) :
           SameCall(u, i) \/ (calls[u][i].b = Null /\ calls[u][i].old = Null)
      /\ \A u \in Threads : \A i \in 1..Len(calls'[u]) : SameCall(u, i)
  BY CallsLeft
<1>2. HeldLive'
  <2> SUFFICES ASSUME NEW u \in Threads, NEW i \in 1..Len(calls'[u])
               PROVE  /\ calls'[u][i].b # Null =>
                           block[calls'[u][i].b].live /\ NoChunkOf(calls'[u][i].b)
                      /\ calls'[u][i].old # Null =>
                           /\ block[calls'[u][i].old].live
                           /\ halted = "no" => NoChunkOf(calls'[u][i].old)
    BY DEF HeldLive, NoChunkOf
  <2>1. SameCall(u, i)
    BY <1>1
  <2> QED
    BY <2>1 DEF HeldLive, SameCall
<1>3. HeldApart'
  BY <1>1, SMTT(30) DEF HeldApart, SameCall
<1>4. ChunksHeld' /\ FreeLists'
  BY DEF ChunksHeld, FreeLists
<1>5. HeadsWritten'
  <2> SUFFICES ASSUME NEW d \in Blocks, Owned(d)' PROVE Owned(d)
    BY DEF HeadsWritten
  <2>1. Null \notin Blocks
    BY NotOrdinary
  <2> QED
    BY <1>1, <2>1, OwnedCalls, OwnedCallsNext DEF SameCall
<1> QED
  BY <1>2, <1>3, <1>4, <1>5

\* do_malloc(): the block was free, so no call and no chunk knew it.
LEMMA DoMallocHolds ==
  ASSUME IInv, NEW t \in Threads, do_malloc(t)
  PROVE  IInv'
<1> USE DEF IInv, DepthInv
<1>1. DepthInv'
  BY DoMallocKeeps
<1>2. calls[t] # <<>> /\ Top(t).step = "before"
      /\ UNCHANGED <<active, depth, private, failed, chunkVars, halted>>
  BY DoMallocKeeps
<1>3. PICK b \in Blocks, k \in Call :
         /\ ~ block[b].live /\ block'[b].live /\ block'[b].kind = "none"
         /\ \A d \in Blocks \ {b} : block'[d] = block[d]
         /\ calls' = [calls EXCEPT ![t] = Front(@) \o <<k>>]
         /\ k.b = b /\ k.old = Top(t).old
  BY DoMallocKeeps
<1> DEFINE n == Len(calls[t])
<1>4. /\ n \in 1..Len(calls[t]) /\ n \in 1..Len(calls'[t])
      /\ Top(t) = calls[t][n] /\ calls'[t][n] = k
      /\ \A u \in Threads : \A i \in 1..Len(calls[u]) :
           /\ i \in 1..Len(calls'[u])
           /\ SameCall(u, i) \/ (u = t /\ i = n)
      /\ \A u \in Threads : \A i \in 1..Len(calls'[u]) :
           SameCall(u, i) \/ (u = t /\ i = n)
  BY <1>2, <1>3, CallsStepped
<1> HIDE DEF n
<1>5. UNCHANGED <<active, chunk_of, free, halted>>
  BY <1>2 DEF chunkVars
<1>6. NoChunkOf(b)
  BY <1>3 DEF NoChunkOf, ChunksHeld
<1>7. \A u \in Threads : \A i \in 1..Len(calls[u]) :
         calls[u][i].b # b /\ calls[u][i].old # b
  <2>1. b # Null
    BY NotOrdinary
  <2> QED
    BY <1>3, <2>1 DEF HeldLive
<1>8. \A u \in Threads : \A i \in 1..Len(calls'[u]) :
         /\ i \in 1..Len(calls[u]) /\ calls'[u][i].old = calls[u][i].old
         /\ \/ <<u, i>> # <<t, n>> /\ calls'[u][i].b = calls[u][i].b
            \/ <<u, i>> = <<t, n>> /\ calls'[u][i].b = b
  BY <1>3, <1>4 DEF SameCall
<1>9. HeldLive'
  <2>1. \A d \in Blocks : block[d].live => block'[d].live
    BY <1>3
  <2>2. \A d : NoChunkOf(d) => NoChunkOf(d)'
    BY <1>5 DEF NoChunkOf
  <2>3. \A u \in Threads : \A i \in 1..Len(calls[u]) :
           calls[u][i].b \in Blocks \cup {Null} /\ calls[u][i].old \in Blocks \cup {Null}
    BY CallTypes
  <2> QED
    BY <1>3, <1>5, <1>6, <1>8, <2>1, <2>2, <2>3, SMTT(30) DEF HeldLive
<1>10. HeldApart'
  <2> SUFFICES ASSUME NEW u \in Threads, NEW v \in Threads,
                      NEW i \in 1..Len(calls'[u]), NEW j \in 1..Len(calls'[v])
               PROVE  /\ calls'[u][i].b # Null => calls'[u][i].b # calls'[v][j].old
                      /\ <<u, i>> # <<v, j>> =>
                           /\ calls'[u][i].b # Null => calls'[u][i].b # calls'[v][j].b
                           /\ calls'[u][i].old # Null => calls'[u][i].old # calls'[v][j].old
    BY DEF HeldApart
  <2>1. i \in 1..Len(calls[u]) /\ j \in 1..Len(calls[v])
    BY <1>8
  <2>2. /\ calls[u][i].b # Null => calls[u][i].b # calls[v][j].old
        /\ <<u, i>> # <<v, j>> =>
             /\ calls[u][i].b # Null => calls[u][i].b # calls[v][j].b
             /\ calls[u][i].old # Null => calls[u][i].old # calls[v][j].old
    BY <2>1 DEF HeldApart
  <2>3. /\ calls[u][i].b # b /\ calls[u][i].old # b
        /\ calls[v][j].b # b /\ calls[v][j].old # b
    BY <1>7, <2>1
  <2> QED
    BY <1>8, <2>2, <2>3
<1>11. ChunksHeld' /\ FreeLists'
  BY <1>3, <1>5, <1>6 DEF ChunksHeld, FreeLists, NoChunkOf
<1>12. HeadsWritten'
  <2> SUFFICES ASSUME NEW d \in Blocks, Owned(d)'
               PROVE  /\ block'[d].kind = "skip" => block'[d].ext = Null
                      /\ block'[d].kind = "monitor" =>
                           block'[d].ext \in Chunks /\ chunk_of'[block'[d].ext] = d
    BY DEF HeadsWritten
  <2>1. d # b
    BY <1>1, <1>3, <1>4, OwnedCallsNext
  <2>2. Owned(d)
    <3>1. block[d].live
      BY <1>1, <1>3, <2>1, OwnedCallsNext
    <3>2. \A u \in Threads : \A i \in 1..Len(calls[u]) :
             d # calls[u][i].old /\ d # calls[u][i].b
      <4>1. Null \notin Blocks
        BY NotOrdinary
      <4>2. calls[t][n].b = Null
        BY <1>2, <1>4 DEF ThreadInv, CallShape
      <4> QED
        BY <1>1, <1>4, <1>8, <4>1, <4>2, OwnedCallsNext
    <3> QED
      BY <3>1, <3>2, OwnedCalls
  <2> QED
    BY <1>3, <1>5, <2>1, <2>2 DEF HeadsWritten
<1> QED
  BY <1>1, <1>9, <1>10, <1>11, <1>12

\* A realloc() frees its old block, which no other call holds and no chunk is
\* about.
LEMMA FreeOldHolds ==
  ASSUME IInv, halted = "no", NEW t \in Threads, FreeOld(t)
  PROVE  IInv'
<1> USE DEF IInv, DepthInv
<1>1. DepthInv'
  BY FreeOldKeeps
<1> DEFINE n == Len(calls[t])
           b == Top(t).old
<1>2. /\ calls[t] # <<>> /\ b \in Blocks /\ ~ block'[b].live
      /\ \A d \in Blocks \ {b} : block'[d] = block[d]
      /\ UNCHANGED <<active, depth, private, failed, chunkVars, halted>>
  BY FreeOldKeeps
<1>3. PICK k \in Call : /\ calls' = [calls EXCEPT ![t] = Front(@) \o <<k>>]
                        /\ k.b = Top(t).b /\ k.old = Null
  BY FreeOldKeeps
<1>4. /\ n \in 1..Len(calls[t]) /\ n \in 1..Len(calls'[t])
      /\ Top(t) = calls[t][n] /\ calls'[t][n] = k
      /\ \A u \in Threads : \A i \in 1..Len(calls[u]) :
           /\ i \in 1..Len(calls'[u])
           /\ SameCall(u, i) \/ (u = t /\ i = n)
      /\ \A u \in Threads : \A i \in 1..Len(calls'[u]) :
           SameCall(u, i) \/ (u = t /\ i = n)
  BY <1>2, <1>3, CallsStepped
<1>5. b = calls[t][n].old /\ b # Null
  BY <1>2, <1>4, NotOrdinary
<1> HIDE DEF n, b
<1>6. UNCHANGED <<active, chunk_of, free, halted>>
  BY <1>2 DEF chunkVars
<1>7. \A u \in Threads : \A i \in 1..Len(calls'[u]) :
         /\ i \in 1..Len(calls[u]) /\ calls'[u][i].b = calls[u][i].b
         /\ \/ <<u, i>> # <<t, n>> /\ calls'[u][i].old = calls[u][i].old
            \/ <<u, i>> = <<t, n>> /\ calls'[u][i].old = Null
  BY <1>3, <1>4 DEF SameCall
<1>8. \A u \in Threads : \A i \in 1..Len(calls'[u]) :
         calls'[u][i].b # b /\ calls'[u][i].old # b
  BY <1>4, <1>5, <1>7, SMTT(30) DEF HeldApart
<1>9. NoChunkOf(b)
  BY <1>4, <1>5 DEF HeldLive
<1>10. HeldLive'
  <2>1. \A d \in Blocks : d # b /\ block[d].live => block'[d].live
    BY <1>2
  <2>2. \A d : NoChunkOf(d) => NoChunkOf(d)'
    BY <1>6 DEF NoChunkOf
  <2>3. \A u \in Threads : \A i \in 1..Len(calls[u]) :
           calls[u][i].b \in Blocks \cup {Null} /\ calls[u][i].old \in Blocks \cup {Null}
    BY CallTypes
  <2> QED
    BY <1>6, <1>7, <1>8, <2>1, <2>2, <2>3 DEF HeldLive
<1>11. HeldApart'
  <2> SUFFICES ASSUME NEW u \in Threads, NEW v \in Threads,
                      NEW i \in 1..Len(calls'[u]), NEW j \in 1..Len(calls'[v])
               PROVE  /\ calls'[u][i].b # Null => calls'[u][i].b # calls'[v][j].old
                      /\ <<u, i>> # <<v, j>> =>
                           /\ calls'[u][i].b # Null => calls'[u][i].b # calls'[v][j].b
                           /\ calls'[u][i].old # Null => calls'[u][i].old # calls'[v][j].old
    BY DEF HeldApart
  <2>1. i \in 1..Len(calls[u]) /\ j \in 1..Len(calls[v])
    BY <1>7
  <2>2. /\ calls[u][i].b # Null => calls[u][i].b # calls[v][j].old
        /\ <<u, i>> # <<v, j>> =>
             /\ calls[u][i].b # Null => calls[u][i].b # calls[v][j].b
             /\ calls[u][i].old # Null => calls[u][i].old # calls[v][j].old
    BY <2>1 DEF HeldApart
  <2> QED
    BY <1>7, <2>2
<1>12. ChunksHeld' /\ FreeLists'
  BY <1>2, <1>6, <1>9 DEF ChunksHeld, FreeLists, NoChunkOf
<1>13. HeadsWritten'
  <2> SUFFICES ASSUME NEW d \in Blocks, Owned(d)'
               PROVE  d # b /\ Owned(d)
    BY <1>2, <1>6 DEF HeadsWritten
  <2>1. d # b
    BY <1>1, <1>2, OwnedCallsNext
  <2>2. \A u \in Threads : \A i \in 1..Len(calls[u]) :
           d # calls[u][i].old /\ d # calls[u][i].b
    <3> SUFFICES ASSUME NEW u \in Threads, NEW i \in 1..Len(calls[u])
                 PROVE  d # calls[u][i].old /\ d # calls[u][i].b
      OBVIOUS
    <3>1. i \in 1..Len(calls'[u])
      BY <1>4
    <3>2. d # calls'[u][i].old /\ d # calls'[u][i].b
      BY <1>1, <3>1, OwnedCallsNext
    <3> QED
      BY <1>5, <1>7, <2>1, <3>1, <3>2
  <2> QED
    BY <1>1, <1>2, <2>1, <2>2, OwnedCalls, OwnedCallsNext
<1> QED
  BY <1>1, <1>10, <1>11, <1>12, <1>13

\* NightWatch_collect_sample() frees the chunk that is about the block, if there
\* is one, and touches no other.
LEMMA CollectHolds ==
  ASSUME IInv, halted = "no", NEW t \in Threads, NEW b \in Blocks, CollectSample(t, b)
  PROVE  /\ FreeLists'
         /\ \A c \in Chunks : \/ chunk_of'[c] = chunk_of[c]
                              \/ chunk_of[c] = b /\ chunk_of'[c] = Null
         /\ halted' = "no" => NoChunkOf(b)'
<1> USE DEF IInv, DepthInv
<1> DEFINE e == block[b].ext
<1>0. b # Null
  BY NotOrdinary
<1>1. CASE e = Null /\ UNCHANGED <<chunkVars, halted>>
  <2>1. NoChunkOf(b)
    <3>1. Null \notin Chunks
      BY NotOrdinary
    <3> QED
      BY <1>1, <3>1 DEF NoChunkOf, ChunksHeld
  <2>2. chunk_of' = chunk_of /\ free' = free
    BY <1>1 DEF chunkVars
  <2>3. FreeLists'
    BY <2>2 DEF FreeLists
  <2>4. NoChunkOf(b)'
    BY <2>1, <2>2 DEF NoChunkOf
  <2> QED
    BY <2>2, <2>3, <2>4
<1>2. CASE e \in Chunks /\ chunk_of[e] = b /\ chunk_free(t, e)
  <2>1. /\ chunk_of'[e] = Null /\ \A x \in Chunks \ {e} : chunk_of'[x] = chunk_of[x]
        /\ free'[t] = free[t] \cup {e} /\ \A u \in Threads \ {t} : free'[u] = free[u]
    BY <1>2 DEF chunk_free, TypeOK
  <2>2. \A x \in Chunks \ {e} : chunk_of[x] # b
    BY <1>2 DEF ChunksHeld
  <2>3. \A u \in Threads : e \notin free[u]
    BY <1>0, <1>2 DEF FreeLists
  <2> HIDE DEF e
  <2>4. FreeLists'
    <3>1. \A x \in Chunks, u \in Threads : x \in free'[u] => chunk_of'[x] = Null
      BY <2>1 DEF FreeLists
    <3>2. \A x \in Chunks, u, v \in Threads : x \in free'[u] /\ x \in free'[v] => u = v
      BY <2>1, <2>3 DEF FreeLists
    <3>3. \A x \in Chunks : chunk_of'[x] = Null => \E u \in Threads : x \in free'[u]
      BY <2>1 DEF FreeLists
    <3> QED
      BY <3>1, <3>2, <3>3 DEF FreeLists
  <2>5. NoChunkOf(b)'
    BY <1>0, <2>1, <2>2 DEF NoChunkOf
  <2>6. \A c \in Chunks : \/ chunk_of'[c] = chunk_of[c]
                          \/ chunk_of[c] = b /\ chunk_of'[c] = Null
    BY <1>2, <2>1
  <2> QED
    BY <2>4, <2>5, <2>6
<1>3. CASE halted' # "no" /\ UNCHANGED chunkVars
  <2>1. chunk_of' = chunk_of /\ free' = free
    BY <1>3 DEF chunkVars
  <2>2. FreeLists'
    BY <2>1 DEF FreeLists
  <2> QED
    BY <1>3, <2>1, <2>2
<1>4. \/ e = Null /\ UNCHANGED <<chunkVars, halted>>
      \/ e \in Chunks /\ chunk_of[e] = b /\ chunk_free(t, e)
      \/ halted' # "no" /\ UNCHANGED chunkVars
  BY DEF CollectSample
<1> QED
  BY <1>1, <1>2, <1>3, <1>4

\* tc_free() of a block that the program owns.
LEMMA FreeHolds ==
  ASSUME IInv, halted = "no", NEW t \in Threads, tc_free(t)
  PROVE  IInv'
<1> USE DEF IInv, DepthInv
<1>1. PICK b \in Blocks :
      /\ Owned(b)
      /\ IF active THEN CollectSample(t, b) ELSE UNCHANGED <<chunkVars, halted>>
      /\ block' = IF halted' = "no"
                    THEN [block EXCEPT ![b] = Unused(@.ext)]
                    ELSE block
      /\ UNCHANGED <<active, threadVars>>
  BY DEF tc_free
<1>2. DepthInv'
  BY FreeKeeps
<1>3. b # Null /\ b # Junk
  BY NotOrdinary
<1>4. /\ FreeLists'
      /\ \A c \in Chunks : \/ chunk_of'[c] = chunk_of[c]
                           \/ chunk_of[c] = b /\ chunk_of'[c] = Null
      /\ halted' = "no" => NoChunkOf(b)'
  <2>1. CASE active
    BY <1>1, <2>1, CollectHolds
  <2>2. CASE ~ active
    <3>1. chunk_of' = chunk_of /\ free' = free
      BY <1>1, <2>2 DEF chunkVars
    <3>2. FreeLists'
      BY <3>1 DEF FreeLists
    <3>3. NoChunkOf(b)'
      BY <1>3, <2>2, <3>1 DEF ChunksHeld, NoChunkOf
    <3> QED
      BY <3>1, <3>2, <3>3
  <2> QED
    BY <2>1, <2>2
<1>5. /\ \A d \in Blocks \ {b} : block'[d] = block[d]
      /\ halted' # "no" => block'[b] = block[b]
      /\ halted' = "no" => ~ block'[b].live
  BY <1>1 DEF TypeOK, Unused
<1>6. UNCHANGED calls
  BY <1>1 DEF threadVars
<1>7. \A u \in Threads : \A i \in 1..Len(calls[u]) :
         b # calls[u][i].old /\ b # calls[u][i].b
  BY <1>1, OwnedCalls
<1>8. \A d \in Blocks : NoChunkOf(d) => NoChunkOf(d)'
  <2>1. Null \notin Blocks
    BY NotOrdinary
  <2> QED
    BY <1>4, <2>1 DEF NoChunkOf
<1>9. HeldLive'
  BY <1>5, <1>6, <1>7, <1>8, CallTypes DEF HeldLive
<1>10. HeldApart'
  BY <1>6 DEF HeldApart
<1>11. ChunksHeld'
  <2>1. \A c \in Chunks :
           chunk_of'[c] \in Blocks =>
             block'[chunk_of'[c]].live /\ block'[chunk_of'[c]].ext = c
    <3> SUFFICES ASSUME NEW c \in Chunks, chunk_of'[c] \in Blocks
                 PROVE  block'[chunk_of'[c]].live /\ block'[chunk_of'[c]].ext = c
      OBVIOUS
    <3>1. chunk_of'[c] = chunk_of[c]
      BY <1>4, NotOrdinary
    <3>2. halted' = "no" => chunk_of'[c] # b
      BY <1>4 DEF NoChunkOf
    <3>3. block'[chunk_of[c]] = block[chunk_of[c]]
      BY <1>5, <3>1, <3>2
    <3> QED
      BY <3>1, <3>3 DEF ChunksHeld
  <2>2. ~ active' => \A c \in Chunks : chunk_of'[c] = Junk
    BY <1>1, <1>3, <1>4 DEF ChunksHeld
  <2> QED
    BY <2>1, <2>2 DEF ChunksHeld
<1>12. HeadsWritten'
  <2> SUFFICES ASSUME NEW d \in Blocks, Owned(d)'
               PROVE  /\ block'[d].kind = "skip" => block'[d].ext = Null
                      /\ block'[d].kind = "monitor" =>
                           block'[d].ext \in Chunks /\ chunk_of'[block'[d].ext] = d
    BY DEF HeadsWritten
  <2>1. block'[d] = block[d] /\ (d = b => halted' # "no")
    BY <1>2, <1>5, OwnedCallsNext
  <2>2. Owned(d)
    BY <1>2, <1>6, <2>1, OwnedCalls, OwnedCallsNext
  <2>3. /\ block[d].kind = "skip" => block[d].ext = Null
        /\ block[d].kind = "monitor" =>
             block[d].ext \in Chunks /\ chunk_of[block[d].ext] = d
    BY <2>2 DEF HeadsWritten
  <2>4. CASE d # b
    BY <1>4, <2>1, <2>3, <2>4
  <2>5. CASE d = b
    <3>1. UNCHANGED chunk_of
      BY <1>1, <2>1, <2>5 DEF CollectSample, chunkVars
    <3> QED
      BY <2>1, <2>3, <3>1
  <2> QED
    BY <2>4, <2>5
<1> QED
  BY <1>2, <1>4, <1>9, <1>10, <1>11, <1>12

\* tc_realloc() of a block that the program owns.
LEMMA ReallocHolds ==
  ASSUME IInv, halted = "no", NEW t \in Threads, tc_realloc(t)
  PROVE  IInv'
<1> USE DEF IInv, DepthInv
<1>1. DepthInv'
  BY ReallocKeeps
<1>2. PICK b \in Blocks, k \in Call :
         /\ Owned(b) /\ CollectSample(t, b) /\ UNCHANGED <<active, block>>
         /\ calls' = [calls EXCEPT ![t] = Append(@, k)]
         /\ k.b = Null /\ k.old = b
  BY ReallocKeeps
<1> DEFINE n == Len(calls[t]) + 1
<1>3. /\ \A u \in Threads : \A i \in 1..Len(calls[u]) : SameCall(u, i)
      /\ \A u \in Threads : \A i \in 1..Len(calls'[u]) :
           SameCall(u, i) \/ (u = t /\ i = n /\ calls'[u][i] = k)
      /\ n \in 1..Len(calls'[t]) /\ calls'[t][n] = k
  BY <1>2, CallsEntered
<1> HIDE DEF n
<1>4. /\ FreeLists'
      /\ \A c \in Chunks : \/ chunk_of'[c] = chunk_of[c]
                           \/ chunk_of[c] = b /\ chunk_of'[c] = Null
      /\ halted' = "no" => NoChunkOf(b)'
  BY <1>2, CollectHolds
<1>5. /\ block[b].live
      /\ \A u \in Threads : \A i \in 1..Len(calls[u]) :
           b # calls[u][i].old /\ b # calls[u][i].b
  BY <1>2, OwnedCalls
<1>6. b # Null /\ b # Junk /\ Null \notin Blocks
  BY NotOrdinary
<1>7. \A d \in Blocks : NoChunkOf(d) => NoChunkOf(d)'
  BY <1>4, <1>6 DEF NoChunkOf
<1>8. HeldLive'
  <2> DEFINE G(d) == \A c \in Chunks : chunk_of'[c] # d
  <2> SUFFICES ASSUME NEW u \in Threads, NEW i \in 1..Len(calls'[u])
               PROVE  /\ calls'[u][i].b # Null =>
                           block'[calls'[u][i].b].live /\ G(calls'[u][i].b)
                      /\ calls'[u][i].old # Null =>
                           /\ block'[calls'[u][i].old].live
                           /\ halted' = "no" => G(calls'[u][i].old)
    BY DEF HeldLive, NoChunkOf
  <2>1. \A d \in Blocks : NoChunkOf(d) => G(d)
    BY <1>7 DEF NoChunkOf
  <2>2. halted' = "no" => G(b)
    BY <1>4 DEF NoChunkOf
  <2> HIDE DEF G
  <2>3. CASE SameCall(u, i)
    <3>1. /\ calls'[u][i].b = calls[u][i].b /\ calls'[u][i].old = calls[u][i].old
          /\ i \in 1..Len(calls[u])
      BY <2>3 DEF SameCall
    <3>2. calls[u][i].b \in Blocks \cup {Null} /\ calls[u][i].old \in Blocks \cup {Null}
      BY <3>1, CallTypes
    <3>3. /\ calls[u][i].b # Null =>
               block[calls[u][i].b].live /\ NoChunkOf(calls[u][i].b)
          /\ calls[u][i].old # Null =>
               block[calls[u][i].old].live /\ NoChunkOf(calls[u][i].old)
      BY <3>1 DEF HeldLive
    <3> QED
      BY <1>2, <2>1, <3>1, <3>2, <3>3
  <2>4. CASE calls'[u][i] = k
    BY <1>2, <1>5, <2>2, <2>4
  <2> QED
    BY <1>3, <2>3, <2>4
<1>9. HeldApart'
  <2> SUFFICES ASSUME NEW u \in Threads, NEW v \in Threads,
                      NEW i \in 1..Len(calls'[u]), NEW j \in 1..Len(calls'[v])
               PROVE  /\ calls'[u][i].b # Null => calls'[u][i].b # calls'[v][j].old
                      /\ <<u, i>> # <<v, j>> =>
                           /\ calls'[u][i].b # Null => calls'[u][i].b # calls'[v][j].b
                           /\ calls'[u][i].old # Null => calls'[u][i].old # calls'[v][j].old
    BY DEF HeldApart
  <2>1. CASE SameCall(u, i) /\ SameCall(v, j)
    BY <2>1 DEF SameCall, HeldApart
  <2>2. CASE ~ SameCall(u, i) \/ ~ SameCall(v, j)
    <3>1. \A w \in Threads : \A l \in 1..Len(calls'[w]) :
             SameCall(w, l) => calls'[w][l].b # b /\ calls'[w][l].old # b
      BY <1>5 DEF SameCall
    <3>2. /\ ~ SameCall(u, i) => u = t /\ i = n /\ calls'[u][i] = k
          /\ ~ SameCall(v, j) => v = t /\ j = n /\ calls'[v][j] = k
      BY <1>3
    <3> QED
      BY <1>2, <2>2, <3>1, <3>2
  <2> QED
    BY <2>1, <2>2
<1>10. ChunksHeld'
  <2>1. \A c \in Chunks :
           chunk_of'[c] \in Blocks =>
             block'[chunk_of'[c]].live /\ block'[chunk_of'[c]].ext = c
    BY <1>2, <1>4, <1>6 DEF ChunksHeld
  <2>2. ~ active' => \A c \in Chunks : chunk_of'[c] = Junk
    BY <1>2, <1>4, <1>6 DEF ChunksHeld
  <2> QED
    BY <2>1, <2>2 DEF ChunksHeld
<1>11. HeadsWritten'
  <2> SUFFICES ASSUME NEW d \in Blocks, Owned(d)'
               PROVE  /\ block'[d].kind = "skip" => block'[d].ext = Null
                      /\ block'[d].kind = "monitor" =>
                           block'[d].ext \in Chunks /\ chunk_of'[block'[d].ext] = d
    BY DEF HeadsWritten
  <2>1. d # b
    BY <1>1, <1>2, <1>3, OwnedCallsNext
  <2>2. Owned(d)
    <3>1. \A u \in Threads : \A i \in 1..Len(calls[u]) :
             d # calls[u][i].old /\ d # calls[u][i].b
      BY <1>1, <1>3, OwnedCallsNext DEF SameCall
    <3> QED
      BY <1>1, <1>2, <3>1, OwnedCalls, OwnedCallsNext
  <2> QED
    BY <1>2, <1>4, <2>1, <2>2 DEF HeadsWritten
<1> QED
  BY <1>1, <1>4, <1>8, <1>9, <1>10, <1>11

\* notify_heap_type_manager_after_malloc() hands a block over to the program:
\* no chunk was about it, and if the answer asks for one the head names it.
LEMMA AfterMallocHolds ==
  ASSUME IInv, NEW t \in Threads, AfterMalloc(t)
  PROVE  IInv'
<1> USE DEF IInv, DepthInv
<1>1. DepthInv'
  BY AfterMallocKeeps
<1> DEFINE n == Len(calls[t])
           b == Top(t).b
<1>2. PICK ext \in Chunks \cup {Null, Junk} :
      /\ calls[t] # <<>> /\ Top(t).step = "after" /\ Top(t).old = Null
      /\ IF active /\ depth[t] = 1 /\ private[t] # NoAnswer
         THEN /\ Sampling(t, private[t], ext)
              /\ private' = [private EXCEPT ![t] = NoAnswer]
         ELSE /\ ext = block[b].ext
              /\ UNCHANGED <<private, chunkVars>>
      /\ block' = [block EXCEPT ![b].ext = ext, ![b].kind = Recorded(Top(t).answer)]
      /\ Leave(t)
      /\ UNCHANGED <<active, failed, halted>>
  BY DEF AfterMalloc
<1>3. /\ n \in 1..Len(calls[t]) /\ Top(t) = calls[t][n]
      /\ \A u \in Threads : \A i \in 1..Len(calls[u]) :
           SameCall(u, i) \/ (u = t /\ i = n)
      /\ \A u \in Threads : \A i \in 1..Len(calls'[u]) :
           SameCall(u, i) /\ <<u, i>> # <<t, n>>
  BY <1>2, CallsLeft DEF Leave
<1>4. b \in Blocks /\ b = calls[t][n].b /\ calls[t][n].old = Null /\ n \in Nat
  BY <1>2, <1>3 DEF ThreadInv, CallShape
<1>5. b # Null /\ b # Junk /\ Null \notin Blocks /\ Junk \notin Blocks
      /\ Null # Junk /\ Null \notin Chunks
  BY <1>4, NotOrdinary
<1>6. block[b].live /\ NoChunkOf(b)
  BY <1>3, <1>4, <1>5 DEF HeldLive
<1>7. /\ block'[b].live /\ block'[b].ext = ext
      /\ block'[b].kind = Recorded(calls[t][n].answer)
      /\ \A d \in Blocks \ {b} : block'[d] = block[d]
  <2>1. block[b] \in Block
    BY <1>4 DEF TypeOK
  <2> DEFINE x == [block[b] EXCEPT !.ext = ext, !.kind = Recorded(Top(t).answer)]
  <2>2. x.live = block[b].live /\ x.ext = ext /\ x.kind = Recorded(Top(t).answer)
    BY <2>1 DEF Block
  <2>3. block' = [block EXCEPT ![b] = x]
    BY <1>2, <1>4, <2>1 DEF TypeOK, Block
  <2> HIDE DEF x, b
  <2> QED
    BY <1>3, <1>4, <1>6, <2>2, <2>3 DEF TypeOK
<1>8. \/ UNCHANGED <<chunk_of, free>>
      \/ /\ active /\ ext \in Chunks /\ chunk_of[ext] \in {Null, Junk}
         /\ chunk_of'[ext] = b /\ \A x \in Chunks \ {ext} : chunk_of'[x] = chunk_of[x]
         /\ free'[t] = free[t] \ {ext} /\ \A u \in Threads \ {t} : free'[u] = free[u]
         /\ \A u \in Threads \ {t} : ext \notin free[u]
  <2>1. CASE UNCHANGED chunkVars
    BY <2>1 DEF chunkVars
  <2>2. CASE /\ active /\ ext \in Chunks /\ chunk_alloc(t, ext)
             /\ chunk_of' = [chunk_of EXCEPT ![ext] = Top(t).b]
    <3>1. chunk_of[ext] \in {Null, Junk}
      BY <2>2 DEF chunk_alloc, FreeLists
    <3>2. \A u \in Threads \ {t} : ext \notin free[u]
      BY <1>5, <2>2 DEF chunk_alloc, FreeLists
    <3>3. chunk_of'[ext] = b /\ \A x \in Chunks \ {ext} : chunk_of'[x] = chunk_of[x]
      BY <2>2 DEF TypeOK
    <3>4. free'[t] = free[t] \ {ext} /\ \A u \in Threads \ {t} : free'[u] = free[u]
      BY <2>2 DEF TypeOK, chunk_alloc
    <3> QED
      BY <2>2, <3>1, <3>2, <3>3, <3>4
  <2>3. \/ UNCHANGED chunkVars
        \/ /\ active /\ ext \in Chunks /\ chunk_alloc(t, ext)
           /\ chunk_of' = [chunk_of EXCEPT ![ext] = Top(t).b]
    BY <1>2 DEF Sampling
  <2> QED
    BY <2>1, <2>2, <2>3
<1>9. /\ failed[t] = 0 /\ n = 1 => depth[t] = 1 /\ calls[t][n].answer = private[t]
      /\ n > 1 \/ failed[t] > 0 => calls[t][n].answer.kind = "none"
      /\ failed[t] \in Nat /\ n >= 1
      /\ private[t] # NoAnswer => active
  BY <1>2, <1>3, <1>4 DEF ThreadInv, AnswerHidden, TypeOK
<1> HIDE DEF n, b
<1>10. \A c \in Chunks : chunk_of'[c] = chunk_of[c] \/ chunk_of'[c] = b
  BY <1>8
<1>11. HeldLive'
  <2> DEFINE G(d) == \A c \in Chunks : chunk_of'[c] # d
  <2> SUFFICES ASSUME NEW u \in Threads, NEW i \in 1..Len(calls'[u])
               PROVE  /\ calls'[u][i].b # Null =>
                           block'[calls'[u][i].b].live /\ G(calls'[u][i].b)
                      /\ calls'[u][i].old # Null =>
                           /\ block'[calls'[u][i].old].live
                           /\ halted' = "no" => G(calls'[u][i].old)
    BY DEF HeldLive, NoChunkOf
  <2>1. \A d \in Blocks \ {b} : NoChunkOf(d) => G(d)
    BY <1>10 DEF NoChunkOf
  <2> HIDE DEF G
  <2>2. /\ calls'[u][i].b = calls[u][i].b /\ calls'[u][i].old = calls[u][i].old
        /\ i \in 1..Len(calls[u]) /\ <<u, i>> # <<t, n>>
    BY <1>3 DEF SameCall
  <2>3. calls[u][i].b \in Blocks \cup {Null} /\ calls[u][i].old \in Blocks \cup {Null}
    BY <2>2, CallTypes
  <2>4. calls[u][i].b # b /\ calls[u][i].old # b
    BY <1>3, <1>4, <1>5, <2>2 DEF HeldApart
  <2>5. /\ calls[u][i].b # Null =>
             block[calls[u][i].b].live /\ NoChunkOf(calls[u][i].b)
        /\ calls[u][i].old # Null =>
             /\ block[calls[u][i].old].live
             /\ halted = "no" => NoChunkOf(calls[u][i].old)
    BY <2>2 DEF HeldLive
  <2> QED
    BY <1>2, <1>7, <2>1, <2>2, <2>3, <2>4, <2>5, ZenonT(40)
<1>12. HeldApart'
  <2>1. \A u \in Threads : \A i \in 1..Len(calls'[u]) : SameCall(u, i)
    BY <1>3
  <2> SUFFICES ASSUME NEW u \in Threads, NEW v \in Threads,
                      NEW i \in 1..Len(calls'[u]), NEW j \in 1..Len(calls'[v])
               PROVE  /\ calls'[u][i].b # Null => calls'[u][i].b # calls'[v][j].old
                      /\ <<u, i>> # <<v, j>> =>
                           /\ calls'[u][i].b # Null => calls'[u][i].b # calls'[v][j].b
                           /\ calls'[u][i].old # Null => calls'[u][i].old # calls'[v][j].old
    BY DEF HeldApart
  <2>2. SameCall(u, i) /\ SameCall(v, j)
    BY <2>1
  <2> QED
    BY <2>2 DEF HeldApart, SameCall
<1>13. FreeLists'
  <2>1. CASE UNCHANGED <<chunk_of, free>>
    BY <2>1 DEF FreeLists
  <2>2. CASE ~ UNCHANGED <<chunk_of, free>>
    <3>1. \A x \in Chunks, u \in Threads : x \in free'[u] => chunk_of'[x] = Null
      BY <1>8, <2>2 DEF FreeLists
    <3>2. \A x \in Chunks, u, v \in Threads : x \in free'[u] /\ x \in free'[v] => u = v
      BY <1>8, <2>2 DEF FreeLists
    <3>3. \A x \in Chunks : chunk_of'[x] = Null => \E u \in Threads : x \in free'[u]
      <4> SUFFICES ASSUME NEW x \in Chunks, chunk_of'[x] = Null
                   PROVE  \E u \in Threads : x \in free'[u]
        OBVIOUS
      <4>1. x # ext /\ chunk_of[x] = Null
        BY <1>5, <1>8, <2>2
      <4>2. PICK u \in Threads : x \in free[u]
        BY <4>1 DEF FreeLists
      <4>3. x \in free'[u]
        BY <1>8, <2>2, <4>1, <4>2
      <4> QED
        BY <4>3
    <3> QED
      BY <3>1, <3>2, <3>3 DEF FreeLists
  <2> QED
    BY <2>1, <2>2
<1>14. ChunksHeld'
  <2>1. ASSUME NEW c \in Chunks, chunk_of'[c] \in Blocks
        PROVE  block'[chunk_of'[c]].live /\ block'[chunk_of'[c]].ext = c
    <3>1. CASE chunk_of'[c] = chunk_of[c]
      BY <1>6, <1>7, <2>1, <3>1 DEF ChunksHeld, NoChunkOf
    <3>2. CASE chunk_of'[c] # chunk_of[c]
      <4>1. c = ext /\ chunk_of'[c] = b
        BY <1>8, <3>2
      <4> QED
        BY <1>7, <4>1
    <3> QED
      BY <3>1, <3>2
  <2>2. ~ active' => \A c \in Chunks : chunk_of'[c] = Junk
    BY <1>2, <1>8 DEF ChunksHeld
  <2> QED
    BY <2>1, <2>2 DEF ChunksHeld
<1>15. HeadsWritten'
  <2> SUFFICES ASSUME NEW d \in Blocks, Owned(d)'
               PROVE  /\ block'[d].kind = "skip" => block'[d].ext = Null
                      /\ block'[d].kind = "monitor" =>
                           block'[d].ext \in Chunks /\ chunk_of'[block'[d].ext] = d
    BY DEF HeadsWritten
  <2>1. CASE d # b
    <3>1. block'[d] = block[d] /\ block[d].live
      BY <1>1, <1>7, <2>1, OwnedCallsNext
    <3>2. \A u \in Threads : \A i \in 1..Len(calls[u]) :
             d # calls[u][i].old /\ d # calls[u][i].b
      <4> SUFFICES ASSUME NEW u \in Threads, NEW i \in 1..Len(calls[u])
                   PROVE  d # calls[u][i].old /\ d # calls[u][i].b
        OBVIOUS
      <4>1. CASE SameCall(u, i)
        BY <1>1, <4>1, OwnedCallsNext DEF SameCall
      <4>2. CASE u = t /\ i = n
        BY <1>4, <1>5, <2>1, <4>2
      <4> QED
        BY <1>3, <4>1, <4>2
    <3>3. Owned(d)
      BY <3>1, <3>2, OwnedCalls
    <3>4. /\ block[d].kind = "skip" => block[d].ext = Null
          /\ block[d].kind = "monitor" =>
               block[d].ext \in Chunks /\ chunk_of[block[d].ext] = d
      BY <3>3 DEF HeadsWritten
    <3> QED
      BY <1>5, <1>8, <3>1, <3>4
  <2>2. CASE d = b
    <3> SUFFICES ASSUME Recorded(calls[t][n].answer) \in {"skip", "monitor"}
                 PROVE  /\ Recorded(calls[t][n].answer) = "skip" => ext = Null
                        /\ Recorded(calls[t][n].answer) = "monitor" =>
                             ext \in Chunks /\ chunk_of'[ext] = b
      BY <1>7, <2>2
    <3>1. /\ calls[t][n].answer.kind = Recorded(calls[t][n].answer)
          /\ calls[t][n].answer.kind # "none"
      BY DEF Recorded
    <3>2. depth[t] = 1 /\ calls[t][n].answer = private[t]
      <4>1. ~ (n > 1 \/ failed[t] > 0)
        BY <1>9, <3>1
      <4>2. n = 1 /\ failed[t] = 0
        BY <1>4, <1>9, <4>1
      <4> QED
        BY <1>9, <4>2
    <3>3. private[t] # NoAnswer
      BY <3>1, <3>2 DEF NoAnswer
    <3>4. Sampling(t, private[t], ext)
      BY <1>2, <1>9, <3>2, <3>3
    <3>5. private[t].kind = "skip" => ext = Null
      BY <3>4 DEF Sampling
    <3>6. private[t].kind = "monitor" =>
            ext \in Chunks /\ chunk_of' = [chunk_of EXCEPT ![ext] = Top(t).b]
      BY <3>4 DEF Sampling
    <3> QED
      BY <3>1, <3>2, <3>5, <3>6 DEF TypeOK, b
  <2> QED
    BY <2>1, <2>2
<1> QED
  BY <1>1, <1>11, <1>12, <1>13, <1>14, <1>15

\* The call that a thread is in at the moment.
LEMMA CallsTop ==
  ASSUME NEW t \in Threads, calls[t] \in Seq(Call), calls[t] # <<>>
  PROVE  \E n \in 1..Len(calls[t]) : Top(t) = calls[t][n]
<1>1. /\ Len(calls[t]) \in Nat /\ Len(calls[t]) >= 1
      /\ Top(t) = calls[t][Len(calls[t])]
  BY Innermost DEF Top
<1>2. Len(calls[t]) \in 1..Len(calls[t])
  BY <1>1
<1> QED
  BY <1>1, <1>2

\* Before the first call there is nothing to hold.
LEMMA InitHolds == Init => IInv
<1> SUFFICES ASSUME Init PROVE IInv
  OBVIOUS
<1>1. DepthInv
  BY InitDepth
<1>2. \A t \in Threads : calls[t] = <<>> /\ Len(calls[t]) = 0
  BY DEF Init
<1>3. HeldLive /\ HeldApart
  BY <1>2 DEF HeldLive, HeldApart
<1>4. Null # Junk /\ Junk \notin Blocks
  BY NotOrdinary
<1>5. FreeLists
  BY <1>4 DEF Init, FreeLists
<1>6. ChunksHeld
  BY <1>4 DEF Init, ChunksHeld
<1>7. HeadsWritten
  BY DEF Init, HeadsWritten, Unused
<1> QED
  BY <1>1, <1>3, <1>5, <1>6, <1>7 DEF IInv

\* A step that changes none of it.
LEMMA QuietHolds ==
  ASSUME IInv, DepthInv', active => active',
         UNCHANGED <<calls, block, chunk_of, free, halted>>
  PROVE  IInv'
<1> USE DEF IInv
<1>1. HeldLive' /\ HeldApart'
  BY DEF HeldLive, HeldApart, NoChunkOf
<1>2. FreeLists' /\ ChunksHeld'
  BY DEF FreeLists, ChunksHeld
<1>3. HeadsWritten'
  BY DEF HeadsWritten, Owned
<1> QED
  BY <1>1, <1>2, <1>3

\* Every step of every thread keeps the invariant.
LEMMA NextHolds == IInv /\ [Next]_vars => IInv'
<1> SUFFICES ASSUME IInv, [Next]_vars PROVE IInv'
  OBVIOUS
<1>1. DepthInv'
  BY NextDepth DEF IInv
<1>2. CASE Activate
  BY <1>1, <1>2, QuietHolds DEF Activate, threadVars, chunkVars
<1>3. CASE UNCHANGED vars
  BY <1>1, <1>3, QuietHolds DEF vars, threadVars, chunkVars
<1>4. ASSUME NEW t \in Threads, halted = "no", Step(t) PROVE IInv'
  <2>1. CASE tc_malloc(t)
    BY <1>1, <2>1, MallocKeeps, EnterHolds DEF IInv, tc_malloc, chunkVars
  <2>2. CASE NoMemory(t)
    <3>1. calls[t] # <<>> /\ calls[t] \in Seq(Call)
      BY <2>2 DEF NoMemory, IInv, DepthInv, TypeOK
    <3>2. CallShape(Top(t))
      BY <3>1, CallsTop DEF IInv, DepthInv, ThreadInv
    <3> QED
      BY <1>1, <2>2, <3>1, <3>2, LeaveHolds DEF NoMemory, CallShape, chunkVars
  <2>3. CASE HookedCall(t)
    BY <1>1, <2>3, HookedCallKeeps, EnterHolds DEF IInv, HookedCall, chunkVars
  <2>4. CASE HookedReturn(t)
    <3>1. calls[t] # <<>> /\ calls[t] \in Seq(Call)
      BY <2>4 DEF HookedReturn, IInv, DepthInv, TypeOK
    <3>2. CallShape(Top(t))
      BY <3>1, CallsTop DEF IInv, DepthInv, ThreadInv
    <3> QED
      BY <1>1, <2>4, <3>1, <3>2, LeaveHolds DEF HookedReturn, Leave, CallShape, chunkVars
  <2> QED
    BY <1>4, <2>1, <2>2, <2>3, <2>4, DoMallocHolds, AfterMallocHolds, FreeHolds,
       ReallocHolds, FreeOldHolds DEF Step
<1> QED
  BY <1>2, <1>3, <1>4 DEF Next

\* The invariant of the hooks.
THEOREM HooksInvariant == Spec => []IInv
BY InitHolds, NextHolds, PTL DEF Spec

\* Whatever the calls that a thread is inside of, each block comes from the heap
\* that the answer to its own request names, and a block that should be monitored
\* has a head that names a chunk about it: for any nesting, any number of threads
\* and any requests that fail.
THEOREM AnswerAlwaysReachesBlock == Spec => []AnswerReachesBlock
<1>1. IInv => AnswerReachesBlock
  <2> SUFFICES ASSUME IInv PROVE AnswerReachesBlock
    OBVIOUS
  <2>1. \A t \in Threads : DOMAIN calls[t] = 1..Len(calls[t])
    BY LenProperties DEF IInv, DepthInv, TypeOK
  <2>2. \A t \in Threads : \A i \in DOMAIN calls[t] :
           calls[t][i].step = "after" => calls[t][i].heap = calls[t][i].answer.type
    BY <2>1 DEF IInv, DepthInv, ThreadInv
  <2> QED
    BY <2>2 DEF AnswerReachesBlock, IInv, HeadsWritten
<1> QED
  BY <1>1, HooksInvariant, PTL

\* Whichever threads allocate and free, each chunk structure is on exactly one
\* free list or about one live block whose head names it.
THEOREM ChunksAlwaysAccounted == Spec => []ChunksAccounted
<1>1. IInv => ChunksAccounted
  <2> SUFFICES ASSUME IInv PROVE ChunksAccounted
    OBVIOUS
  <2>1. ASSUME NEW c \in Chunks
        PROVE  Cardinality({t \in Threads : c \in free[t]})
                 = IF chunk_of[c] = Null THEN 1 ELSE 0
    <3> DEFINE S == {t \in Threads : c \in free[t]}
    <3>1. CASE chunk_of[c] = Null
      <4>1. PICK t \in Threads : c \in free[t]
        BY <3>1 DEF IInv, FreeLists
      <4>2. S = {t}
        BY <4>1 DEF IInv, FreeLists
      <4>3. Cardinality(S) = 1
        BY <4>2, FS_Singleton
      <4> QED
        BY <3>1, <4>3
    <3>2. CASE chunk_of[c] # Null
      <4>1. S = {}
        BY <3>2 DEF IInv, FreeLists
      <4>2. Cardinality(S) = 0
        BY <4>1, FS_EmptySet
      <4> QED
        BY <3>2, <4>2
    <3> QED
      BY <3>1, <3>2
  <2>2. \A c \in Chunks : chunk_of[c] \in Blocks =>
           block[chunk_of[c]].live /\ block[chunk_of[c]].ext = c
    BY DEF IInv, ChunksHeld
  <2>3. \A b \in Blocks :
           Owned(b) /\ block[b].kind \in {"skip", "monitor"}
             => block[b].ext \in {Null} \cup {c \in Chunks : chunk_of[c] = b}
    BY DEF IInv, HeadsWritten
  <2> QED
    BY <2>1, <2>2, <2>3 DEF ChunksAccounted
<1> QED
  BY <1>1, HooksInvariant, PTL
=============================================================================
