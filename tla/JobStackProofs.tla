--------------------------- MODULE JobStackProofs ---------------------------
(***************************************************************************)
(* What each operation of JobStack does to the fields of the stack, in the *)
(* form the proofs about the server use: one lemma per operation, each     *)
(* with the type of the result.  The lemmas are proved once here and hold  *)
(* for both stacks of the server.                                          *)
(***************************************************************************)
EXTENDS JobStack, TLAPS, SequenceTheorems

-----------------------------------------------------------------------------
(* The three ways the content changes *)

\* Dropping the last element, as job_stack_pop does.
LEMMA FrontContent ==
  ASSUME NEW S, NEW s \in Seq(S), s # <<>>
  PROVE  /\ Front(s) \in Seq(S)
         /\ Len(s) \in Nat \ {0}
         /\ Len(Front(s)) = Len(s) - 1
         /\ \A i \in 1 .. Len(s) - 1 : Front(s)[i] = s[i]
<1>1. Len(s) \in Nat \ {0} /\ \A i \in 1..Len(s) : s[i] \in S
  BY EmptySeq, ElementOfSeq
<1>. DEFINE n == Len(s) - 1
<1>2. n \in Nat /\ 1 \in Int /\ \A i \in 1..n : s[i] \in S
  BY <1>1
<1>. HIDE DEF n
<1>3. /\ SubSeq(s, 1, n) \in Seq(S)
      /\ Len(SubSeq(s, 1, n)) = IF 1 <= n THEN n - 1 + 1 ELSE 0
      /\ \A i \in 1 .. n - 1 + 1 : SubSeq(s, 1, n)[i] = s[1 + i - 1]
  BY <1>2, SubSeqProperties
<1>4. n - 1 + 1 = n /\ \A i \in 1..n : 1 + i - 1 = i
  BY <1>2
<1>5. Len(SubSeq(s, 1, n)) = n
  BY <1>2, <1>3
<1>6. \A i \in 1..n : SubSeq(s, 1, n)[i] = s[i]
  BY <1>3, <1>4
<1>. QED  BY <1>1, <1>3, <1>5, <1>6 DEF Front, n

\* Adding an element at the bottom, as job_stack_push_back does.
LEMMA ConsContent ==
  ASSUME NEW S, NEW s \in Seq(S), NEW x \in S
  PROVE  /\ Cons(x, s) \in Seq(S)
         /\ Len(Cons(x, s)) = Len(s) + 1
         /\ \A i \in 1 .. Len(s) + 1 : Cons(x, s)[i] = IF i = 1 THEN x ELSE s[i-1]
<1>1. <<x>> \in Seq(S) /\ Len(<<x>>) = 1 /\ <<x>>[1] = x
  OBVIOUS
<1>. QED  BY <1>1, ConcatProperties DEF Cons

\* pthread_cond_signal wakes exactly one waiter if there is one.
LEMMA SignalWakesOne ==
  ASSUME NEW W, NEW rest \in AfterSignal(W)
  PROVE  /\ rest \subseteq W
         /\ W # {} => \E t \in W : rest = W \ {t}
         /\ W = {} => rest = {}
BY DEF AfterSignal

-----------------------------------------------------------------------------
(* The operations *)

\* A push that finds room puts the job on top and wakes one waiter at most.
LEMMA PushItemEffect ==
  ASSUME stack \in StackType, NEW t, NEW j \in Jobs, PushItem(t, j)
  PROVE  /\ stack' \in StackType
         /\ ~stack.finished /\ Len(stack.content) < MaxJobs
         /\ stack'.content = Append(stack.content, j)
         /\ stack'.notEmpty \subseteq stack.notEmpty
         /\ stack.notEmpty # {} =>
              \E u \in stack.notEmpty : stack'.notEmpty = stack.notEmpty \ {u}
         /\ stack'.finished = stack.finished
         /\ stack'.mutex = stack.mutex
         /\ stack'.notFull = stack.notFull
<1>1. PICK rest \in AfterSignal(stack.notEmpty) :
       stack' = [stack EXCEPT !.content = Append(@, j), !.notEmpty = rest]
  BY DEF PushItem
<1>2. /\ rest \subseteq stack.notEmpty
      /\ stack.notEmpty # {} => \E u \in stack.notEmpty : rest = stack.notEmpty \ {u}
  BY SignalWakesOne
<1>3. Append(stack.content, j) \in Seq(Jobs)
  BY DEF StackType
<1>. QED  BY <1>1, <1>2, <1>3 DEF StackType, PushItem

\* A push that finds none adds a waiter on not_full.
LEMMA PushFullEffect ==
  ASSUME stack \in StackType, NEW t \in Threads, PushFull(t)
  PROVE  /\ stack' \in StackType
         /\ ~stack.finished /\ Len(stack.content) >= MaxJobs
         /\ stack'.content = stack.content
         /\ stack'.finished = stack.finished
         /\ stack'.mutex = stack.mutex
         /\ stack'.notEmpty = stack.notEmpty
         /\ stack'.notFull = stack.notFull \cup {t}
BY DEF StackType, PushFull

\* A push on a finished stack changes the owner of the mutex only.
LEMMA PushFinishedEffect ==
  ASSUME stack \in StackType, NEW t \in Threads, PushFinished(t)
  PROVE  /\ stack' \in StackType
         /\ stack.finished
         /\ stack'.content = stack.content
         /\ stack'.finished = stack.finished
         /\ stack'.mutex = t
         /\ stack'.notEmpty = stack.notEmpty
         /\ stack'.notFull = stack.notFull
BY DEF StackType, PushFinished

\* push_back puts the job at the bottom and wakes one waiter at most.
LEMMA PushBackEffect ==
  ASSUME stack \in StackType, NEW j \in Jobs, PushBack(j)
  PROVE  /\ stack' \in StackType
         /\ Len(stack'.content) = Len(stack.content) + 1
         /\ stack'.content[1] = j
         /\ \A i \in 1 .. Len(stack.content) : stack'.content[i+1] = stack.content[i]
         /\ stack'.notEmpty \subseteq stack.notEmpty
         /\ stack.notEmpty # {} =>
              \E u \in stack.notEmpty : stack'.notEmpty = stack.notEmpty \ {u}
         /\ stack'.finished = stack.finished
         /\ stack'.mutex = stack.mutex
         /\ stack'.notFull = stack.notFull
<1>1. PICK rest \in AfterSignal(stack.notEmpty) :
       stack' = [stack EXCEPT !.content = Cons(j, @), !.notEmpty = rest]
  BY DEF PushBack
<1>2. /\ rest \subseteq stack.notEmpty
      /\ stack.notEmpty # {} => \E u \in stack.notEmpty : rest = stack.notEmpty \ {u}
  BY SignalWakesOne
<1>. DEFINE c == Cons(j, stack.content)
<1>3. /\ c \in Seq(Jobs)
      /\ Len(c) = Len(stack.content) + 1
      /\ \A i \in 1 .. Len(stack.content) + 1 :
           c[i] = IF i = 1 THEN j ELSE stack.content[i-1]
  BY ConsContent DEF StackType
<1>4. Len(stack.content) \in Nat
  BY DEF StackType
<1>5. /\ stack' \in StackType
      /\ stack'.content = c /\ stack'.notEmpty = rest
      /\ stack'.finished = stack.finished
      /\ stack'.mutex = stack.mutex
      /\ stack'.notFull = stack.notFull
  BY <1>1, <1>2, <1>3 DEF StackType
<1>. HIDE DEF c
<1>6. c[1] = j /\ \A i \in 1 .. Len(stack.content) : c[i+1] = stack.content[i]
  BY <1>3, <1>4
<1>. QED  BY <1>2, <1>3, <1>5, <1>6

\* A pop takes the top job and wakes one waiter at most.
LEMMA PopItemEffect ==
  ASSUME stack \in StackType, NEW j, PopItem(j)
  PROVE  /\ stack' \in StackType
         /\ Len(stack.content) \in Nat \ {0}
         /\ j = stack.content[Len(stack.content)]
         /\ Len(stack'.content) = Len(stack.content) - 1
         /\ \A i \in 1 .. Len(stack.content) - 1 : stack'.content[i] = stack.content[i]
         /\ stack'.notFull \subseteq stack.notFull
         /\ stack.notFull # {} =>
              \E u \in stack.notFull : stack'.notFull = stack.notFull \ {u}
         /\ stack'.finished = stack.finished
         /\ stack'.mutex = stack.mutex
         /\ stack'.notEmpty = stack.notEmpty
<1>1. PICK rest \in AfterSignal(stack.notFull) :
       stack' = [stack EXCEPT !.content = Front(@), !.notFull = rest]
  BY DEF PopItem
<1>2. /\ rest \subseteq stack.notFull
      /\ stack.notFull # {} => \E u \in stack.notFull : rest = stack.notFull \ {u}
  BY SignalWakesOne
<1>. DEFINE c == Front(stack.content)
<1>3. stack.content # <<>> /\ j = stack.content[Len(stack.content)]
  BY DEF PopItem, Last
<1>4. /\ c \in Seq(Jobs)
      /\ Len(stack.content) \in Nat \ {0}
      /\ Len(c) = Len(stack.content) - 1
      /\ \A i \in 1 .. Len(stack.content) - 1 : c[i] = stack.content[i]
  BY <1>3, FrontContent DEF StackType
<1>5. /\ stack' \in StackType
      /\ stack'.content = c /\ stack'.notFull = rest
      /\ stack'.finished = stack.finished
      /\ stack'.mutex = stack.mutex
      /\ stack'.notEmpty = stack.notEmpty
  BY <1>1, <1>2, <1>4 DEF StackType
<1>. HIDE DEF c
<1>. QED  BY <1>2, <1>3, <1>4, <1>5

\* A pop that finds nothing adds a waiter on not_empty.
LEMMA PopWaitEffect ==
  ASSUME stack \in StackType, NEW t \in Threads, PopWait(t)
  PROVE  /\ stack' \in StackType
         /\ stack.content = <<>> /\ ~stack.finished
         /\ stack'.content = stack.content
         /\ stack'.finished = stack.finished
         /\ stack'.mutex = stack.mutex
         /\ stack'.notEmpty = stack.notEmpty \cup {t}
         /\ stack'.notFull = stack.notFull
BY DEF StackType, PopWait

\* signal_finish wakes all consumers and leaves the jobs where they are.
LEMMA SignalFinishEffect ==
  ASSUME stack \in StackType, SignalFinish
  PROVE  /\ stack' \in StackType
         /\ stack'.content = stack.content
         /\ stack'.finished = TRUE
         /\ stack'.mutex = stack.mutex
         /\ stack'.notEmpty = {}
         /\ stack'.notFull = stack.notFull
BY DEF StackType, SignalFinish

\* A wakeup without a signal changes the waiters only.
LEMMA SpuriousWakeupEffect ==
  ASSUME stack \in StackType, SpuriousWakeup
  PROVE  /\ stack' \in StackType
         /\ stack'.content = stack.content
         /\ stack'.finished = stack.finished
         /\ stack'.mutex = stack.mutex
         /\ stack'.notEmpty \subseteq stack.notEmpty
         /\ stack'.notFull \subseteq stack.notFull
BY DEF StackType, SpuriousWakeup

=============================================================================
