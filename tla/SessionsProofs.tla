--------------------------- MODULE SessionsProofs --------------------------
(***************************************************************************)
(* Theorems about Sessions for any threads, TAs, sessions and contexts,    *)
(* whatever the TAs open, under the hypothesis Orderly: references, locks, *)
(* busy flags, the single-instance lock and the counts of contexts are     *)
(* those of the calls in progress, no freed context is used and no dead TA *)
(* is entered.                                                             *)
(*                                                                         *)
(* None of these is inductive.  IInv adds what the code relies on across   *)
(* the places where it drops tee_ta_mutex: what each call has at its place *)
(* (ShapeOf), how calls nest (Nested, Deep), that a session being opened   *)
(* has one user (OpenAlone), and what each call may still believe of its   *)
(* context (CtxOf).  A step changes the call at the top of one stack: the  *)
(* lemmas ...Quiet, ...Move and ...Step say what that call, its session    *)
(* and its context owe the other calls, one part of IInv at a time, and    *)
(* each action then has a lemma of its own.                                *)
(*                                                                         *)
(* The second half, from Layered on, is that the core never panics when    *)
(* TAs do not open each other in a circle.  CoreInv adds who waits for a   *)
(* TA, and that the sessions and calls of a TA are with TAs it opens: the  *)
(* ranks of the TAs fall up each stack, so that no call waits for one      *)
(* below it.                                                               *)
(***************************************************************************)
EXTENDS Sessions, FiniteSetTheorems, TLAPS

\* Where the code keeps its counts: an id does not come back while a call of
\* normal world that names it is pending, and no single-instance TA that panics
\* is multi-session or keep-alive.  Without the first, Put can find another
\* session in the place of its own; without the second, a panic frees a context
\* that another session of it is in, or leaves a dead one on the list.
Orderly ==
  FreshIds /\ Panicky \cap SingleInstance \cap (MultiSession \cup KeepAlive) = {}

\* An entry of the array of sessions.
Session ==
  [live : BOOLEAN, own : CtxIds \cup {Nsec}, ctx : CtxIds \cup {NoCtx}, refs : Nat,
   lock : Threads \cup {NoThread}, unlink : BOOLEAN, handed : BOOLEAN]
\* An entry of the array of contexts.
Context ==
  [live : BOOLEAN, ta : Tas, refs : Nat, busy : BOOLEAN, panicked : BOOLEAN,
   init : BOOLEAN]

\* The places of each operation, as the actions of Sessions lead there.
Places ==
  [open   |-> {"lookup", "load", "loading", "fail", "opened", "busy", "run", "leave",
               "left", "put"},
   invoke |-> {"get", "getwait", "got", "busy", "run", "leave", "left", "destroy",
               "destroycv", "free", "put"},
   cancel |-> {"get", "put"},
   close  |-> {"get", "getwait", "got", "busy", "run", "unlink", "unlinkwait",
               "leave", "dec", "destroycv", "free"}]
\* All places, and the values of a call in progress.
Locs == UNION {Places[op] : op \in DOMAIN Places}
\* A call in progress.
Call ==
  [op : DOMAIN Places, pc : Locs, s : SessIds, c : CtxIds \cup {NoCtx}, ta : Tas,
   own : CtxIds \cup {Nsec}, res : {"ok", "err", "dead"}]

\* The values of the sessions, the contexts, tee_ctxes and the single lock.
Tables ==
  /\ sess \in [SessIds -> Session]
  /\ ctxs \in [CtxIds -> Context]
  /\ tee_ctxes \in Seq(CtxIds)
  /\ single \in [thread : Threads \cup {NoThread}, count : Nat]

\* What a call has at each of its places.
ShapeOf(fr) ==
  /\ fr.pc \in Places[fr.op]
  /\ fr.pc \in {"lookup", "load", "fail", "get", "getwait", "got"} \/ fr.op = "cancel" =>
       fr.c = NoCtx
  /\ fr.pc \in {"loading", "busy", "run", "leave", "left", "dec", "destroy", "destroycv",
                "free"} \/ (fr.op = "open" /\ fr.pc = "put") => fr.c # NoCtx
  /\ fr.pc \in {"unlink", "unlinkwait"} /\ fr.c = NoCtx => fr.res = "dead"
  /\ fr.op = "cancel" => fr.own = Nsec

\* A call is on the list of normal world when it is the first of its thread,
\* and of the TA beneath it otherwise.
NestedAt(t, i) == stack[t][i].own = IF i = 1 THEN Nsec ELSE stack[t][i - 1].c
\* Every call of every thread is on the list it belongs on.
Nested == \A t \in Threads : \A i \in DOMAIN stack[t] : NestedAt(t, i)
\* Only a TA that runs, or whose context is being freed, has a call above it.
Deep ==
  \A t \in Threads : \A i \in DOMAIN stack[t] :
    i # Len(stack[t]) => stack[t][i].pc \in {"run", "free"}
\* The stacks of the threads.
StackOK == stack \in [Threads -> Seq(Call)] /\ Nested /\ Deep
\* The values of the variables and what each call has at its place.
Types == Tables /\ StackOK /\ \A f \in Frames : ShapeOf(Frame(f))

\* References and locks of sessions.
Holders(s) == {f \in Frames : Frame(f).s = s /\ HoldsRef(Frame(f))}
\* Every reference is that of one call, to a session that is listed.
RefInv ==
  /\ \A s \in SessIds : sess[s].live => sess[s].refs = Cardinality(Holders(s))
  /\ \A f \in Frames : HoldsRef(Frame(f)) => Listed(Frame(f).s, Frame(f).own)

\* A session that is being opened is known to the call that opens it only.
OpenAlone ==
  \A f \in Frames : Frame(f).op = "open" =>
    /\ ~sess[Frame(f).s].handed
    /\ \A g \in Frames : Frame(g).s = Frame(f).s => g = f

\* The lock of a session is that of the one call that holds it.
LockInv ==
  /\ \A f \in Frames : HoldsLock(Frame(f)) => sess[Frame(f).s].lock = f[1]
  /\ \A f, g \in Frames :
       HoldsLock(Frame(f)) /\ HoldsLock(Frame(g)) /\ Frame(f).s = Frame(g).s => f = g
  /\ \A s \in SessIds : sess[s].lock # NoThread =>
       \E f \in Frames : Frame(f).s = s /\ HoldsLock(Frame(f))

\* Contexts.
BusyInv ==
  /\ \A f \in Frames : InTa(Frame(f)) => ctxs[Frame(f).c].busy
  /\ \A f, g \in Frames :
       InTa(Frame(f)) /\ InTa(Frame(g)) /\ Frame(f).c = Frame(g).c => f = g
  /\ \A c \in CtxIds : ctxs[c].live /\ ctxs[c].busy =>
       \E f \in Frames : Frame(f).c = c /\ InTa(Frame(f))

\* The sessions in a context.
Members(c) == {s \in SessIds : sess[s].live /\ sess[s].ctx = c}
\* The closes that have unlinked their session and not yet lowered the count.
Leavers(c) ==
  {f \in Frames : /\ Frame(f).op = "close" /\ Frame(f).c = c
                  /\ Frame(f).pc \in {"leave", "dec"}}
\* The count of a listed context, and when it may be 0, above 1 or dead.
ListOf(c) ==
  /\ ctxs[c].live
  /\ ctxs[c].refs = Cardinality(Members(c)) + Cardinality(Leavers(c))
  /\ ctxs[c].ta \notin MultiSession \cap SingleInstance => ctxs[c].refs <= 1
  /\ ctxs[c].refs = 0 => Kept(c)
  /\ ctxs[c].panicked => ctxs[c].ta \in Panicky
\* tee_ctxes has each context once, with its count.
ListInv ==
  /\ IsInjective(tee_ctxes)
  /\ \A c \in Range(tee_ctxes) : ListOf(c)

\* Where a call and its session are in the same context, or both in none.
InSession(fr) ==
  \/ fr.pc \in {"lookup", "load", "fail", "loading", "busy", "run", "left", "destroy",
                "unlink", "unlinkwait"}
  \/ fr.op # "close" /\ fr.pc = "leave"
  \/ fr.op \in {"open", "invoke"} /\ fr.pc = "put"
\* Where a call has taken its context off tee_ctxes and frees it.
Frees(fr) == fr.pc \in {"destroycv", "free"}

\* What a call relies on of its context and its session: each line is what the
\* code has read under tee_ta_mutex and uses after it has been dropped.
CtxOf(f) ==
  LET fr == Frame(f)
      c == fr.c
      s == fr.s
  IN /\ InSession(fr) => sess[s].ctx = c
     /\ c # NoCtx /\ ~Frees(fr) => c \in Range(tee_ctxes)
     /\ fr.pc = "loading" => ctxs[c].init /\ ctxs[c].refs = 1 /\ ~ctxs[c].panicked
     /\ fr.pc = "opened" =>
          /\ sess[s].ctx # NoCtx /\ ~ctxs[sess[s].ctx].panicked
          /\ c \in {NoCtx, sess[s].ctx}
     /\ fr.pc = "destroy" => ctxs[c].panicked
     /\ fr.pc = "busy" => ~ctxs[c].panicked
     /\ Frees(fr) =>
          /\ ctxs[c].live /\ c \notin Range(tee_ctxes)
          /\ \A g \in Frames : Frame(g).c = c => g = f
          /\ \A o \in Members(c) : fr.op = "invoke" /\ o = s
          /\ fr.op = "invoke" => sess[s].ctx = c
\* The context of a session is listed, unless the call that found the TA dead
\* is freeing it.
SessCtx ==
  \A s \in SessIds : sess[s].live /\ sess[s].ctx # NoCtx =>
    \/ sess[s].ctx \in Range(tee_ctxes)
    \/ \E f \in Frames : Frame(f).s = s /\ Frame(f).op = "invoke" /\ Frees(Frame(f))
                         /\ Frame(f).c = sess[s].ctx
\* Contexts are as the sessions and the calls take them to be.
CtxInv == SessCtx /\ \A f \in Frames : CtxOf(f)

\* The single-instance lock is free with a count of 0, and otherwise counts the
\* TAs its thread is in.
SingleInv ==
  /\ single.thread = NoThread => single.count = 0
  /\ SingleLockCounted

\* The part about sessions.
SessInv == RefInv /\ OpenAlone /\ LockInv
\* The part about the flags and locks of TAs.
TaInv == BusyInv /\ SingleInv
\* The part about contexts and what calls know of them.
ContextInv == ListInv /\ CtxInv
\* The inductive invariant.
IInv == Types /\ SessInv /\ TaInv /\ ContextInv

-----------------------------------------------------------------------------
(* Least elements, and counting.                                           *)

\* A set of numbers has a least one.
LEMMA HasLeast ==
  ASSUME NEW W, W \subseteq Nat, W # {}
  PROVE  \E k \in W : \A j \in W : k <= j
<1> DEFINE upto(i) == W \cap (0..i)
           segments == {upto(i) : i \in W}
<1>1. segments \subseteq FiniteSubsetsOf(Nat)
  <2>1. ASSUME NEW i \in W PROVE IsFiniteSet(upto(i)) /\ upto(i) \subseteq Nat
    <3>1. IsFiniteSet(0..i)
      BY FS_Interval
    <3>2. upto(i) \subseteq 0..i
      OBVIOUS
    <3> QED BY <3>1, <3>2, FS_Subset
  <2> QED BY <2>1 DEF FiniteSubsetsOf
<1>2. segments # {}
  OBVIOUS
<1>3. PICK s \in segments :
        \A r \in segments : << r, s >> \notin StrictSubsetOrdering(Nat)
  <2> HIDE DEF segments
  <2> QED BY <1>1, <1>2, FS_StrictSubsetOrderingWellFounded, WFMin
<1>4. PICK i \in W : s = upto(i)
  OBVIOUS
<1>5. ASSUME NEW j \in W, j < i PROVE FALSE
  <2>1. upto(j) \in segments /\ upto(j) \subseteq upto(i) /\ upto(j) # upto(i)
    BY <1>5
  <2>2. << upto(j), s >> \in StrictSubsetOrdering(Nat)
    BY <1>4, <2>1 DEF StrictSubsetOrdering
  <2> QED BY <1>3, <2>1, <2>2
<1> QED BY <1>4, <1>5

\* Least() of a set of numbers that is not empty is one of them.
LEMMA LeastIn ==
  ASSUME NEW W, W \subseteq Nat, W # {}
  PROVE  Least(W) \in W
BY HasLeast DEF Least

\* A finite set that changes in one place.
LEMMA CountOne ==
  ASSUME NEW x, NEW S, NEW T, IsFiniteSet(S), IsFiniteSet(T),
         \A k : k # x => (k \in S <=> k \in T)
  PROVE  /\ Cardinality(S) \in Nat /\ Cardinality(T) \in Nat
         /\ Cardinality(T) + (IF x \in S THEN 1 ELSE 0)
              = Cardinality(S) + (IF x \in T THEN 1 ELSE 0)
<1>2. Cardinality(S) \in Nat /\ Cardinality(T) \in Nat
  BY FS_CardinalityType
<1>3. CASE x \in S <=> x \in T
  <2>1. S = T
    BY <1>3
  <2> QED BY <1>2, <2>1
<1>4. CASE x \in S /\ x \notin T
  <2>1. S = T \cup {x}
    BY <1>4
  <2> QED BY <1>2, <1>4, <2>1, FS_AddElement
<1>5. CASE x \notin S /\ x \in T
  <2>1. T = S \cup {x}
    BY <1>5
  <2> QED BY <1>2, <1>5, <2>1, FS_AddElement
<1> QED BY <1>3, <1>4, <1>5

\* The members of a finite set with one.
LEMMA One ==
  ASSUME NEW S, IsFiniteSet(S), NEW x \in S, NEW y \in S, x # y
  PROVE  Cardinality(S) >= 2
<1>1. {x} \subseteq S /\ Cardinality({x}) = 1 /\ {x} # S
  BY FS_Singleton
<1>2. Cardinality(S) \in Nat /\ Cardinality(S) # 0
  BY FS_CardinalityType, FS_EmptySet
<1>3. Cardinality(S) # 1
  BY <1>1, FS_Subset
<1> QED BY <1>2, <1>3

\* RemoveFirst() of a list that has each element once.
LEMMA RemoveAtIs ==
  ASSUME NEW S, NEW q \in Seq(S), NEW n \in 1..Len(q)
  PROVE  /\ RemoveAt(q, n) \in Seq(S) /\ Len(RemoveAt(q, n)) = Len(q) - 1
         /\ \A i \in 1..(Len(q) - 1) :
              RemoveAt(q, n)[i] = IF i < n THEN q[i] ELSE q[i + 1]
<1> DEFINE u == SubSeq(q, 1, n - 1)
           v == SubSeq(q, n + 1, Len(q))
<1>1. /\ u \in Seq(S) /\ Len(u) = n - 1 /\ \A i \in 1..(n - 1) : u[i] = q[i]
  OBVIOUS
<1>2. /\ v \in Seq(S) /\ Len(v) = Len(q) - n /\ \A i \in 1..(Len(q) - n) : v[i] = q[n + i]
  OBVIOUS
<1> HIDE DEF u, v
<1>3. u \o v \in Seq(S) /\ Len(u \o v) = Len(q) - 1
  BY <1>1, <1>2
<1>4. ASSUME NEW i \in 1..(Len(q) - 1)
      PROVE  (u \o v)[i] = IF i < n THEN q[i] ELSE q[i + 1]
  <2>1. CASE i < n
    BY <1>1, <1>2, <2>1
  <2>2. CASE ~(i < n)
    <3>1. (u \o v)[i] = v[i - (n - 1)] /\ i - (n - 1) \in 1..(Len(q) - n)
      BY <1>1, <1>2, <2>2
    <3> QED BY <1>2, <2>2, <3>1
  <2> QED BY <2>1, <2>2
<1> QED BY <1>3, <1>4 DEF RemoveAt, u, v

\* RemoveFirst(), which is TAILQ_REMOVE(), takes one element off a list that
\* has each once.
LEMMA RemoveFirstIs ==
  ASSUME NEW S, NEW q \in Seq(S), IsInjective(q), NEW e
  PROVE  /\ RemoveFirst(q, e) \in Seq(S) /\ IsInjective(RemoveFirst(q, e))
         /\ Range(RemoveFirst(q, e)) = Range(q) \ {e}
<1>0. DOMAIN q = 1..Len(q) /\ Len(q) \in Nat
  OBVIOUS
<1>1. CASE \A i \in 1..Len(q) : q[i] # e
  <2>1. RemoveFirst(q, e) = q
    BY <1>1 DEF RemoveFirst
  <2>2. e \notin Range(q)
    BY <1>0, <1>1 DEF Range
  <2> QED BY <2>1, <2>2
<1>2. CASE \E i \in 1..Len(q) : q[i] = e
  <2> DEFINE I == {i \in 1..Len(q) : q[i] = e}
  <2>1. Min(I) \in I
    <3>1. I \subseteq Nat /\ I # {}
      BY <1>2
    <3> HIDE DEF I
    <3> QED BY <3>1, HasLeast DEF Min
  <2>2. PICK n \in 1..Len(q) : q[n] = e /\ RemoveFirst(q, e) = RemoveAt(q, n)
    BY <1>2, <2>1 DEF RemoveFirst, SelectInSeq
  <2> DEFINE r == RemoveAt(q, n)
  <2>3. /\ r \in Seq(S) /\ Len(r) = Len(q) - 1 /\ DOMAIN r = 1..(Len(q) - 1)
        /\ \A i \in 1..(Len(q) - 1) : r[i] = IF i < n THEN q[i] ELSE q[i + 1]
    BY RemoveAtIs
  <2> HIDE DEF r
  <2>4. \A i, j \in 1..Len(q) : q[i] = q[j] => i = j
    BY <1>0 DEF IsInjective
  <2>5. IsInjective(r)
    <3> SUFFICES ASSUME NEW i \in 1..(Len(q) - 1), NEW j \in 1..(Len(q) - 1), r[i] = r[j]
                 PROVE  i = j
      BY <2>3 DEF IsInjective
    <3> DEFINE at(k) == IF k < n THEN k ELSE k + 1
    <3>1. at(i) \in 1..Len(q) /\ at(j) \in 1..Len(q) /\ q[at(i)] = q[at(j)]
      BY <1>0, <2>3
    <3>2. at(i) = at(j)
      BY <2>4, <3>1
    <3> QED BY <1>0, <3>2
  <2>6. Range(r) = Range(q) \ {e}
    <3>1. ASSUME NEW i \in DOMAIN r PROVE r[i] \in Range(q) \ {e}
      <4> DEFINE k == IF i < n THEN i ELSE i + 1
      <4>1. k \in 1..Len(q) /\ k # n /\ r[i] = q[k]
        BY <1>0, <2>3
      <4> QED BY <1>0, <2>2, <2>4, <4>1 DEF Range
    <3>2. ASSUME NEW j \in DOMAIN q, q[j] # e PROVE \E i \in DOMAIN r : r[i] = q[j]
      <4>1. CASE j < n
        BY <1>0, <2>3, <4>1
      <4>2. CASE j > n
        <5>1. j - 1 \in DOMAIN r /\ ~(j - 1 < n) /\ j - 1 + 1 = j
          BY <1>0, <2>3, <4>2
        <5> QED BY <2>3, <5>1
      <4> QED BY <1>0, <2>2, <3>2, <4>1, <4>2
    <3> QED BY <3>1, <3>2 DEF Range
  <2> QED BY <2>2, <2>3, <2>5, <2>6 DEF r
<1> QED BY <1>1, <1>2

-----------------------------------------------------------------------------
(* The calls of the threads.                                               *)

\* The place of the call that t executes.
Pos(t)   == << t, Len(stack[t]) >>
\* The place of the call that t starts.
Above(t) == << t, Len(stack[t]) + 1 >>

\* Calls in progress have the values and the shape of calls.
LEMMA FramesAre ==
  ASSUME Types
  PROVE  \A f \in Frames : Frame(f) \in Call /\ f[1] \in Threads /\ ShapeOf(Frame(f))
<1>1. \A t \in Threads : stack[t] \in Seq(Call) /\ DOMAIN stack[t] = 1..Len(stack[t])
  BY DEF Types, StackOK
<1>2. \A f : f \in Frames <=> \E t \in Threads : \E i \in 1..Len(stack[t]) : f = << t, i >>
  BY <1>1 DEF Frames
<1> QED BY <1>1, <1>2 DEF Frame, Types

\* There are finitely many calls in progress: each stack is finite.
LEMMA FramesFinite ==
  ASSUME Types
  PROVE  IsFiniteSet(Frames)
<1> DEFINE of == [t \in Threads |-> {t} \X DOMAIN stack[t]]
           sets == {{t} \X DOMAIN stack[t] : t \in Threads}
<1>1. of \in Surjection(Threads, sets)
  BY DEF Surjection
<1>2. IsFiniteSet(sets)
  BY <1>1, SessionsAssumption, FS_Surjection
<1>3. ASSUME NEW t \in Threads PROVE IsFiniteSet({t} \X DOMAIN stack[t])
  <2>1. stack[t] \in Seq(Call) /\ Len(stack[t]) \in Nat /\ DOMAIN stack[t] = 1..Len(stack[t])
    BY DEF Types, StackOK
  <2>2. IsFiniteSet(1..Len(stack[t]))
    BY <2>1, FS_Interval
  <2>3. IsFiniteSet({t})
    BY FS_Singleton
  <2> QED BY <2>1, <2>2, <2>3, FS_Product
<1> QED BY <1>2, <1>3, FS_UNION DEF Frames

\* The three things a step does with a stack, on the sequence of its calls.
LEMMA Sequences3 ==
  ASSUME NEW S, NEW q \in Seq(S), NEW e \in S
  PROVE  /\ LET r == Append(q, e)
            IN  r \in Seq(S) /\ Len(r) = Len(q) + 1 /\ r[Len(q) + 1] = e
                /\ \A i \in 1..Len(q) : r[i] = q[i]
         /\ q # << >> =>
              LET r == Front(q)
              IN  r \in Seq(S) /\ Len(r) = Len(q) - 1 /\ \A i \in 1..(Len(q) - 1) : r[i] = q[i]
         /\ q # << >> =>
              LET r == Append(Front(q), e)
              IN  r \in Seq(S) /\ Len(r) = Len(q) /\ r[Len(q)] = e
                  /\ \A i \in 1..(Len(q) - 1) : r[i] = q[i]
<1>1. ASSUME q # << >>
      PROVE  /\ Len(q) - 1 \in Nat /\ Front(q) \in Seq(S) /\ Len(Front(q)) = Len(q) - 1
             /\ \A i \in 1..(Len(q) - 1) : Front(q)[i] = q[i]
  <2>1. Len(q) - 1 \in Nat /\ Len(q) - 1 <= Len(q)
    BY <1>1
  <2> DEFINE n == Len(q) - 1
  <2>2. n \in Nat /\ n <= Len(q)
    BY <2>1
  <2> HIDE DEF n
  <2>3. SubSeq(q, 1, n) \in Seq(S) /\ Len(SubSeq(q, 1, n)) = n
        /\ \A i \in 1..n : SubSeq(q, 1, n)[i] = q[i]
    BY <2>2
  <2> QED BY <2>1, <2>3 DEF Front, n
<1> QED BY <1>1

\* All calls but the one at x are as they were.
Moves(x) ==
  \A f : f # x =>
    /\ f \in Frames' <=> f \in Frames
    /\ f \in Frames => Frame(f)' = Frame(f)

\* The frames by thread and place.
StackType == stack \in [Threads -> Seq(Call)]
\* A call in progress is one place of one stack.
FramesByPlace ==
  /\ \A t \in Threads : DOMAIN stack[t] = 1..Len(stack[t]) /\ Len(stack[t]) \in Nat
  /\ \A f : f \in Frames <=> \E t \in Threads : \E i \in 1..Len(stack[t]) : f = << t, i >>

\* The places of the stacks, before a step and after it.
LEMMA FramesOf == StackType => FramesByPlace
BY DEF StackType, FramesByPlace, Frames

\* The same for the next state.
LEMMA FramesOfNext == StackType' => FramesByPlace'
BY FramesOf, PTL

\* A step that moves a call on changes the call at the top of one stack.
LEMMA BecomeStep ==
  ASSUME StackOK, NEW t \in Threads, NEW x, x = Pos(t), stack[t] # << >>, NEW fr \in Call,
         fr.own = Top(t).own, Become(t, fr)
  PROVE  /\ x \in Frames /\ Frame(x) = Top(t) /\ Top(t) \in Call
         /\ x \in Frames' /\ Frame(x)' = fr
         /\ Moves(x) /\ StackOK'
<1> DEFINE q == stack[t]
           r == stack'[t]
<1>1. q \in Seq(Call) /\ Len(q) \in Nat /\ Len(q) > 0
  BY DEF StackOK
<1>2. /\ r \in Seq(Call) /\ Len(r) = Len(q) /\ r[Len(q)] = fr
      /\ \A i \in 1..(Len(q) - 1) : r[i] = q[i]
  BY <1>1, Sequences3 DEF Become, StackOK
<1>3. \A u \in Threads : u # t => stack'[u] = stack[u]
  BY DEF Become, StackOK
<1>4. stack' \in [Threads -> Seq(Call)]
  BY <1>2 DEF Become, StackOK
<1>9. FramesByPlace /\ FramesByPlace' /\ \A u \in Threads : Len(stack'[u]) = Len(stack[u])
  BY <1>2, <1>3, <1>4, FramesOf, FramesOfNext DEF StackOK, StackType
<1>5. /\ x \in Frames /\ Frame(x) = Top(t) /\ Top(t) \in Call
      /\ x \in Frames' /\ Frame(x)' = fr
  <2>1. Len(q) \in 1..Len(q) /\ q[Len(q)] \in Call
    BY <1>1
  <2> QED BY <1>1, <1>2, <1>9, <2>1 DEF FramesByPlace, Pos, Frame, Top, Last
<1>6. Moves(x)
  <2> SUFFICES ASSUME NEW f, f # x
               PROVE  (f \in Frames' <=> f \in Frames) /\ (f \in Frames => Frame(f)' = Frame(f))
    BY DEF Moves
  <2>1. f \in Frames' <=> f \in Frames
    BY <1>9 DEF FramesByPlace
  <2>2. ASSUME f \in Frames PROVE Frame(f)' = Frame(f)
    <3>1. PICK u \in Threads, i \in Nat : i \in 1..Len(stack[u]) /\ f = << u, i >>
      BY <2>2, <1>9 DEF FramesByPlace
    <3>2. stack'[u][i] = stack[u][i]
      BY <1>1, <1>2, <1>3, <3>1 DEF Pos
    <3> QED BY <3>1, <3>2 DEF Frame
  <2> QED BY <2>1, <2>2
<1>7. Nested'
  <2> SUFFICES ASSUME NEW u \in Threads, NEW i \in Nat, i \in 1..Len(stack'[u])
               PROVE  NestedAt(u, i)'
    BY <1>9 DEF Nested, FramesByPlace
  <2>1. CASE u # t
    <3>1. i \in DOMAIN stack[u] /\ stack'[u] = stack[u]
      BY <1>3, <2>1 DEF StackOK
    <3> QED BY <3>1 DEF StackOK, Nested, NestedAt
  <2>2. CASE u = t
    <3>1. q[i].own = IF i = 1 THEN Nsec ELSE q[i - 1].c
      BY <1>1, <1>2, <2>2 DEF StackOK, Nested, NestedAt
    <3>2. r[i].own = q[i].own
      BY <1>1, <1>2, <2>2 DEF Top, Last
    <3>3. i # 1 => r[i - 1] = q[i - 1]
      BY <1>1, <1>2, <2>2
    <3> QED BY <2>2, <3>1, <3>2, <3>3 DEF NestedAt
  <2> QED BY <2>1, <2>2
<1>8. Deep'
  <2> SUFFICES ASSUME NEW u \in Threads, NEW i \in Nat, i \in 1..Len(stack'[u]), i # Len(stack'[u])
               PROVE  stack'[u][i].pc \in {"run", "free"}
    BY <1>9 DEF Deep, FramesByPlace
  <2>1. CASE u # t
    <3>1. i \in DOMAIN stack[u] /\ stack'[u] = stack[u]
      BY <1>3, <2>1 DEF StackOK
    <3> QED BY <3>1 DEF StackOK, Deep
  <2>2. CASE u = t
    <3>1. q[i].pc \in {"run", "free"}
      BY <1>1, <1>2, <2>2 DEF StackOK, Deep
    <3>2. r[i] = q[i]
      BY <1>1, <1>2, <2>2
    <3> QED BY <2>2, <3>1, <3>2
  <2> QED BY <2>1, <2>2
<1> QED BY <1>4, <1>5, <1>6, <1>7, <1>8 DEF StackOK

\* A step that ends a call takes it off the top of one stack.
LEMMA ReturnStep ==
  ASSUME StackOK, NEW t \in Threads, NEW x, x = Pos(t), stack[t] # << >>, Return(t)
  PROVE  /\ x \in Frames /\ Frame(x) = Top(t) /\ Top(t) \in Call
         /\ x \notin Frames' /\ Moves(x) /\ StackOK'
<1> DEFINE q == stack[t]
           r == stack'[t]
<1>1. q \in Seq(Call) /\ Len(q) \in Nat /\ Len(q) > 0
  BY DEF StackOK
<1>2. r \in Seq(Call) /\ Len(r) = Len(q) - 1 /\ \A i \in 1..(Len(q) - 1) : r[i] = q[i]
  <2>1. r = Front(q) /\ q[1] \in Call
    BY <1>1 DEF Return, StackOK
  <2> QED BY <1>1, <2>1, Sequences3
<1>3. \A u \in Threads : u # t => stack'[u] = stack[u]
  BY DEF Return, StackOK
<1>4. stack' \in [Threads -> Seq(Call)]
  BY <1>2 DEF Return, StackOK
<1> HIDE DEF Return
<1>9. FramesByPlace /\ FramesByPlace'
  BY <1>4, FramesOf, FramesOfNext DEF StackOK, StackType
<1>5. /\ x \in Frames /\ Frame(x) = Top(t) /\ Top(t) \in Call
      /\ x \notin Frames'
  <2>1. Len(q) \in 1..Len(q) /\ q[Len(q)] \in Call /\ Len(q) \notin 1..Len(r)
    BY <1>1, <1>2
  <2> QED BY <1>1, <1>2, <1>9, <2>1 DEF FramesByPlace, Pos, Frame, Top, Last
<1>6. Moves(x)
  <2> SUFFICES ASSUME NEW f, f # x
               PROVE  (f \in Frames' <=> f \in Frames) /\ (f \in Frames => Frame(f)' = Frame(f))
    BY DEF Moves
  <2>1. ASSUME NEW u \in Threads, NEW i, f = << u, i >>
        PROVE  i \in 1..Len(stack'[u]) <=> i \in 1..Len(stack[u])
    <3>1. CASE u = t
      <4>1. i # Len(q)
        BY <2>1, <3>1 DEF Pos
      <4> QED BY <1>1, <1>2, <3>1, <4>1
    <3>2. CASE u # t
      BY <1>3, <3>2
    <3> QED BY <3>1, <3>2
  <2>2. f \in Frames' <=> f \in Frames
    BY <1>9, <2>1 DEF FramesByPlace
  <2>3. ASSUME f \in Frames PROVE Frame(f)' = Frame(f)
    <3>1. PICK u \in Threads, i \in Nat : i \in 1..Len(stack[u]) /\ f = << u, i >>
      BY <2>3, <1>9 DEF FramesByPlace
    <3>2. stack'[u][i] = stack[u][i]
      BY <1>1, <1>2, <1>3, <3>1 DEF Pos
    <3> QED BY <3>1, <3>2 DEF Frame
  <2> QED BY <2>2, <2>3
<1>7. Nested'
  <2> SUFFICES ASSUME NEW u \in Threads, NEW i \in Nat, i \in 1..Len(stack'[u])
               PROVE  NestedAt(u, i)'
    BY <1>9 DEF Nested, FramesByPlace
  <2>1. CASE u # t
    <3>1. i \in DOMAIN stack[u] /\ stack'[u] = stack[u]
      BY <1>3, <2>1 DEF StackOK
    <3> QED BY <3>1 DEF StackOK, Nested, NestedAt
  <2>2. CASE u = t
    <3>1. q[i].own = IF i = 1 THEN Nsec ELSE q[i - 1].c
      BY <1>1, <1>2, <2>2 DEF StackOK, Nested, NestedAt
    <3>2. r[i] = q[i] /\ (i # 1 => r[i - 1] = q[i - 1])
      BY <1>1, <1>2, <2>2
    <3> QED BY <2>2, <3>1, <3>2 DEF NestedAt
  <2> QED BY <2>1, <2>2
<1>8. Deep'
  <2> SUFFICES ASSUME NEW u \in Threads, NEW i \in Nat, i \in 1..Len(stack'[u]),
                      i # Len(stack'[u])
               PROVE  stack'[u][i].pc \in {"run", "free"}
    BY <1>9 DEF Deep, FramesByPlace
  <2>1. CASE u # t
    <3>1. i \in DOMAIN stack[u] /\ stack'[u] = stack[u]
      BY <1>3, <2>1 DEF StackOK
    <3> QED BY <3>1 DEF StackOK, Deep
  <2>2. CASE u = t
    <3>1. q[i].pc \in {"run", "free"} /\ r[i] = q[i]
      BY <1>1, <1>2, <2>2 DEF StackOK, Deep
    <3> QED BY <2>2, <3>1
  <2> QED BY <2>1, <2>2
<1> QED BY <1>4, <1>5, <1>6, <1>7, <1>8 DEF StackOK

\* A step that starts a call puts it on top of one stack.
LEMMA PushStep ==
  ASSUME StackOK, NEW t \in Threads, NEW x, x = Above(t),
         stack[t] # << >> => Top(t).pc \in {"run", "free"},
         NEW fr \in Call, fr.own = Caller(t), Push(t, fr)
  PROVE  /\ x \notin Frames /\ x \in Frames' /\ Frame(x)' = fr
         /\ Moves(x) /\ StackOK'
<1> DEFINE q == stack[t]
           r == stack'[t]
<1>1. q \in Seq(Call) /\ Len(q) \in Nat /\ (q = << >> <=> Len(q) = 0)
  BY DEF StackOK
<1>2. r \in Seq(Call) /\ Len(r) = Len(q) + 1 /\ r[Len(q) + 1] = fr
      /\ \A i \in 1..Len(q) : r[i] = q[i]
  BY <1>1, Sequences3 DEF Push, StackOK
<1>3. \A u \in Threads : u # t => stack'[u] = stack[u]
  BY DEF Push, StackOK
<1>4. stack' \in [Threads -> Seq(Call)]
  BY <1>2 DEF Push, StackOK
<1> HIDE DEF Push
<1>9. FramesByPlace /\ FramesByPlace'
  BY <1>4, FramesOf, FramesOfNext DEF StackOK, StackType
<1>5. x \notin Frames /\ x \in Frames' /\ Frame(x)' = fr
  <2>1. Len(q) + 1 \in 1..Len(r) /\ Len(q) + 1 \notin 1..Len(q)
    BY <1>1, <1>2
  <2>2. Frame(x)' = r[Len(q) + 1]
    BY DEF Frame, Above
  <2> QED BY <1>1, <1>2, <1>9, <2>1, <2>2 DEF FramesByPlace, Above
<1>6. Moves(x)
  <2> SUFFICES ASSUME NEW f, f # x
               PROVE  (f \in Frames' <=> f \in Frames) /\ (f \in Frames => Frame(f)' = Frame(f))
    BY DEF Moves
  <2>1. ASSUME NEW u \in Threads, NEW i, f = << u, i >>
        PROVE  i \in 1..Len(stack'[u]) <=> i \in 1..Len(stack[u])
    <3>1. CASE u = t
      <4>1. i # Len(q) + 1
        BY <2>1, <3>1 DEF Above
      <4> QED BY <1>1, <1>2, <3>1, <4>1
    <3>2. CASE u # t
      BY <1>3, <3>2
    <3> QED BY <3>1, <3>2
  <2>2. f \in Frames' <=> f \in Frames
    BY <1>9, <2>1 DEF FramesByPlace
  <2>3. ASSUME f \in Frames PROVE Frame(f)' = Frame(f)
    <3>1. PICK u \in Threads, i \in Nat : i \in 1..Len(stack[u]) /\ f = << u, i >>
      BY <2>3, <1>9 DEF FramesByPlace
    <3>2. stack'[u][i] = stack[u][i]
      BY <1>1, <1>2, <1>3, <3>1
    <3> QED BY <3>1, <3>2 DEF Frame
  <2> QED BY <2>2, <2>3
<1>7. Nested'
  <2> SUFFICES ASSUME NEW u \in Threads, NEW i \in Nat, i \in 1..Len(stack'[u])
               PROVE  NestedAt(u, i)'
    BY <1>9 DEF Nested, FramesByPlace
  <2>1. CASE u # t
    <3>1. i \in DOMAIN stack[u] /\ stack'[u] = stack[u]
      BY <1>3, <2>1 DEF StackOK
    <3> QED BY <3>1 DEF StackOK, Nested, NestedAt
  <2>2. CASE u = t /\ i # Len(q) + 1
    <3>1. q[i].own = IF i = 1 THEN Nsec ELSE q[i - 1].c
      BY <1>1, <1>2, <2>2 DEF StackOK, Nested, NestedAt
    <3>2. i \in 1..Len(q) /\ (i # 1 => i - 1 \in 1..Len(q))
      BY <1>1, <1>2, <2>2
    <3>3. r[i] = q[i] /\ (i # 1 => r[i - 1] = q[i - 1])
      BY <1>2, <3>2
    <3> QED BY <2>2, <3>1, <3>3 DEF NestedAt
  <2>3. CASE u = t /\ i = Len(q) + 1
    <3>1. CASE Len(q) = 0
      BY <1>1, <1>2, <2>3, <3>1 DEF NestedAt, Caller
    <3>2. CASE Len(q) # 0
      <4>1. r[Len(q)] = q[Len(q)] /\ i # 1 /\ i - 1 = Len(q)
        BY <1>1, <1>2, <2>3, <3>2
      <4>2. Caller(t) = q[Len(q)].c
        BY <1>1, <3>2 DEF Caller, Top, Last
      <4> QED BY <1>2, <2>3, <4>1, <4>2 DEF NestedAt
    <3> QED BY <3>1, <3>2
  <2> QED BY <2>1, <2>2, <2>3
<1>8. Deep'
  <2> SUFFICES ASSUME NEW u \in Threads, NEW i \in Nat, i \in 1..Len(stack'[u]),
                      i # Len(stack'[u])
               PROVE  stack'[u][i].pc \in {"run", "free"}
    BY <1>9 DEF Deep, FramesByPlace
  <2>1. CASE u # t
    <3>1. i \in DOMAIN stack[u] /\ stack'[u] = stack[u]
      BY <1>3, <2>1 DEF StackOK
    <3> QED BY <3>1 DEF StackOK, Deep
  <2>2. CASE u = t
    <3>1. q # << >> /\ i \in 1..Len(q) /\ r[i] = q[i]
      BY <1>1, <1>2, <2>2
    <3>2. q[i].pc \in {"run", "free"}
      <4>1. CASE i = Len(q)
        BY <3>1, <4>1 DEF Top, Last
      <4>2. CASE i # Len(q)
        BY <1>1, <3>1, <4>2 DEF StackOK, Deep
      <4> QED BY <4>1, <4>2
    <3> QED BY <2>2, <3>1, <3>2
  <2> QED BY <2>1, <2>2
<1> QED BY <1>4, <1>5, <1>6, <1>7, <1>8 DEF StackOK

\* A call is on its own list of sessions, that of the TA beneath it.
LEMMA Beneath ==
  ASSUME StackOK, NEW f \in Frames, Frame(f).own # Nsec
  PROVE  \E g \in Frames : /\ Frame(g).c = Frame(f).own /\ Frame(g).pc \in {"run", "free"}
                           /\ \A t \in Threads : g # Pos(t)
<1>1. FramesByPlace
  BY FramesOf DEF StackOK, StackType
<1>2. PICK u \in Threads, i \in Nat : i \in 1..Len(stack[u]) /\ f = << u, i >>
  BY <1>1 DEF FramesByPlace
<1>3. i # 1 /\ stack[u][i].own = stack[u][i - 1].c
  BY <1>1, <1>2 DEF FramesByPlace, StackOK, Nested, NestedAt, Frame
<1>4. i - 1 \in 1..Len(stack[u]) /\ i - 1 # Len(stack[u])
  BY <1>1, <1>2, <1>3 DEF FramesByPlace
<1>5. stack[u][i - 1].pc \in {"run", "free"}
  BY <1>1, <1>4 DEF FramesByPlace, StackOK, Deep
<1> DEFINE g == << u, i - 1 >>
<1>6. g \in Frames /\ Frame(g) = stack[u][i - 1]
  BY <1>1, <1>4 DEF FramesByPlace, Frame
<1>7. \A t \in Threads : g # Pos(t)
  BY <1>4 DEF Pos
<1> QED BY <1>2, <1>3, <1>5, <1>6, <1>7 DEF Frame

\* A thread that cancels does nothing else.
LEMMA CancelAlone ==
  ASSUME StackOK, \A f \in Frames : ShapeOf(Frame(f)),
         NEW f \in Frames, Frame(f).own = Nsec, Frame(f).pc \notin {"run", "free"},
         NEW g \in Frames, g[1] = f[1]
  PROVE  g = f
<1>1. FramesByPlace
  BY FramesOf DEF StackOK, StackType
<1>2. PICK u \in Threads, i \in Nat : i \in 1..Len(stack[u]) /\ f = << u, i >>
  BY <1>1 DEF FramesByPlace
<1>3. PICK j \in Nat : j \in 1..Len(stack[u]) /\ g = << u, j >>
  BY <1>1, <1>2 DEF FramesByPlace
<1>4. i = Len(stack[u])
  BY <1>1, <1>2 DEF FramesByPlace, StackOK, Deep, Frame
<1>5. i = 1
  <2> SUFFICES ASSUME i # 1 PROVE FALSE
    OBVIOUS
  <2>1. i - 1 \in 1..Len(stack[u]) /\ i - 1 # Len(stack[u])
    BY <1>1, <1>2 DEF FramesByPlace
  <2>2. stack[u][i - 1].pc \in {"run", "free"}
    BY <1>1, <2>1 DEF FramesByPlace, StackOK, Deep
  <2>3. << u, i - 1 >> \in Frames /\ Frame(<< u, i - 1 >>) = stack[u][i - 1]
    BY <1>1, <2>1 DEF FramesByPlace, Frame
  <2>4. stack[u][i - 1].c # NoCtx
    BY <2>2, <2>3 DEF ShapeOf
  <2> QED BY <1>1, <1>2, <2>4 DEF FramesByPlace, StackOK, Nested, NestedAt, Frame, Nsec, NoCtx
<1> QED BY <1>1, <1>2, <1>3, <1>4, <1>5

\* The calls in progress, as the lemmas about steps use them.
FramesTyped ==
  /\ IsFiniteSet(Frames)
  /\ \A f \in Frames : Frame(f) \in Call /\ f[1] \in Threads /\ ShapeOf(Frame(f))

\* They are so where Types holds.
LEMMA FramesTypedNow == Types => FramesTyped
BY FramesAre, FramesFinite DEF FramesTyped

\* The same for the next state.
LEMMA FramesTypedNext == Types' => FramesTyped'
BY FramesTypedNow, PTL

\* Types holds after a step that changes one call, if it holds of that one.
LEMMA TypesStep ==
  ASSUME Types, NEW x, Moves(x), StackOK', Tables', x \in Frames' => ShapeOf(Frame(x)')
  PROVE  Types'
<1> SUFFICES ASSUME NEW f \in Frames' PROVE ShapeOf(Frame(f)')
  BY DEF Types
<1>1. CASE f = x
  BY <1>1
<1>2. CASE f # x
  <2>1. f \in Frames /\ Frame(f)' = Frame(f)
    BY <1>2 DEF Moves
  <2> QED BY <2>1 DEF Types
<1> QED BY <1>1, <1>2

-----------------------------------------------------------------------------
(* Sessions: references, locks, and who may name one.                      *)

\* A set of calls that changes at x.
LEMMA CountFrames ==
  ASSUME Types, Types', NEW x, NEW S, NEW T, S \subseteq Frames, T \subseteq Frames',
         \A f : f # x => (f \in S <=> f \in T)
  PROVE  /\ Cardinality(S) \in Nat /\ Cardinality(T) \in Nat
         /\ Cardinality(T) + (IF x \in S THEN 1 ELSE 0)
              = Cardinality(S) + (IF x \in T THEN 1 ELSE 0)
<1>1. IsFiniteSet(Frames) /\ IsFiniteSet(Frames')
  BY FramesTypedNow, FramesTypedNext DEF FramesTyped
<1>2. IsFiniteSet(S) /\ IsFiniteSet(T)
  BY <1>1, FS_Subset
<1> QED BY <1>2, CountOne

\* A step that changes no session but s, and a call only at x.
LEMMA RefStep ==
  ASSUME Types, Types', RefInv, NEW x, Moves(x), NEW s \in SessIds,
         \A o \in SessIds \ {s} : /\ sess'[o].live = sess[o].live /\ sess'[o].own = sess[o].own
                                  /\ sess'[o].refs = sess[o].refs,
         x \in Frames => Frame(x).s = s \/ ~HoldsRef(Frame(x)),
         x \in Frames' => Frame(x)'.s = s \/ ~HoldsRef(Frame(x)'),
         sess'[s].live =>
           sess'[s].refs + (IF x \in Frames /\ HoldsRef(Frame(x)) THEN 1 ELSE 0)
             = Cardinality(Holders(s)) + (IF x \in Frames' /\ HoldsRef(Frame(x)') THEN 1 ELSE 0),
         \A f \in Frames : f # x /\ HoldsRef(Frame(f)) /\ Frame(f).s = s =>
           sess'[s].live /\ sess'[s].own = sess[s].own,
         x \in Frames' /\ HoldsRef(Frame(x)') => sess'[s].live /\ sess'[s].own = Frame(x)'.own
  PROVE  RefInv'
<1>1. \A f \in Frames' : f # x => f \in Frames /\ Frame(f)' = Frame(f)
  BY DEF Moves
<1>2. ASSUME NEW o \in SessIds, sess'[o].live
      PROVE  sess'[o].refs = Cardinality(Holders(o)')
  <2> DEFINE H == Holders(o)
             K == Holders(o)'
  <2>1. H \subseteq Frames /\ K \subseteq Frames'
    BY DEF Holders
  <2>2. \A f : f # x => (f \in H <=> f \in K)
    BY DEF Holders, Moves
  <2>3. /\ x \in H <=> x \in Frames /\ HoldsRef(Frame(x)) /\ o = s
        /\ x \in K <=> x \in Frames' /\ HoldsRef(Frame(x)') /\ o = s
    BY FramesTypedNow, FramesTypedNext DEF Holders, FramesTyped, Call
  <2>4. /\ Cardinality(H) \in Nat /\ Cardinality(K) \in Nat
        /\ Cardinality(K) + (IF x \in H THEN 1 ELSE 0)
             = Cardinality(H) + (IF x \in K THEN 1 ELSE 0)
    <3> HIDE DEF H, K
    <3> QED BY <2>1, <2>2, CountFrames
  <2>5. sess'[o].refs \in Nat
    BY DEF Types, Tables, Session
  <2>6. CASE o = s
    <3> DEFINE i == IF x \in H THEN 1 ELSE 0
               j == IF x \in K THEN 1 ELSE 0
    <3>1. i = (IF x \in Frames /\ HoldsRef(Frame(x)) THEN 1 ELSE 0) /\ i \in Nat
      <4> HIDE DEF H
      <4> QED BY <2>3, <2>6
    <3>2. j = (IF x \in Frames' /\ HoldsRef(Frame(x)') THEN 1 ELSE 0) /\ j \in Nat
      <4> HIDE DEF K
      <4> QED BY <2>3, <2>6
    <3>3. sess'[s].refs + i = Cardinality(H) + j
      BY <1>2, <2>6, <3>1, <3>2
    <3>4. Cardinality(K) + i = Cardinality(H) + j
      BY <2>4
    <3>5. sess'[s].refs = Cardinality(K)
      <4> HIDE DEF H, K, i, j
      <4> QED BY <2>4, <2>5, <2>6, <3>1, <3>2, <3>3, <3>4
    <3> QED BY <2>6, <3>5
  <2>7. CASE o # s
    <3>1. sess'[o].refs = Cardinality(H)
      BY <1>2, <2>7 DEF RefInv
    <3>2. x \notin H /\ x \notin K
      <4> HIDE DEF H, K
      <4> QED BY <2>3, <2>7
    <3>3. Cardinality(H) = Cardinality(K)
      <4> HIDE DEF H, K
      <4> QED BY <2>4, <3>2
    <3> QED BY <3>1, <3>3
  <2> QED BY <2>6, <2>7
<1>3. ASSUME NEW f \in Frames', HoldsRef(Frame(f)')
      PROVE  Listed(Frame(f).s, Frame(f).own)'
  <2>1. CASE f = x
    BY <1>3, <2>1, FramesTypedNext DEF Listed, FramesTyped
  <2>2. CASE f # x
    <3>1. f \in Frames /\ Frame(f)' = Frame(f) /\ Frame(f).s \in SessIds
      BY <1>1, <2>2, FramesTypedNow DEF FramesTyped, Call
    <3>2. Listed(Frame(f).s, Frame(f).own)
      BY <1>3, <3>1 DEF RefInv
    <3> QED BY <1>3, <2>2, <3>1, <3>2 DEF Listed
  <2> QED BY <2>1, <2>2
<1> QED BY <1>2, <1>3 DEF RefInv

\* OpenAlone after a step that changes one call: no other call meets the
\* session of one that is being opened.
LEMMA OpenAloneStep ==
  ASSUME Types, Types', OpenAlone, NEW x, Moves(x),
         \A f \in Frames : f # x /\ Frame(f).op = "open" =>
           /\ ~sess'[Frame(f).s].handed
           /\ x \in Frames' => Frame(x)'.s # Frame(f).s,
         x \in Frames' /\ Frame(x)'.op = "open" =>
           /\ ~sess'[Frame(x)'.s].handed
           /\ \A f \in Frames : f # x => Frame(f).s # Frame(x)'.s
  PROVE  OpenAlone'
<1>1. \A f \in Frames' : f # x => f \in Frames /\ Frame(f)' = Frame(f)
  BY DEF Moves
<1> SUFFICES ASSUME NEW f \in Frames', Frame(f)'.op = "open"
             PROVE  /\ ~sess'[Frame(f)'.s].handed
                    /\ \A g \in Frames' : Frame(g)'.s = Frame(f)'.s => g = f
  BY DEF OpenAlone
<1>2. CASE f = x
  BY <1>1, <1>2
<1>3. CASE f # x
  <2>1. f \in Frames /\ Frame(f)' = Frame(f)
    BY <1>1, <1>3
  <2>2. ASSUME NEW g \in Frames', Frame(g)'.s = Frame(f)'.s PROVE g = f
    <3>1. CASE g = x
      BY <1>3, <2>1, <2>2, <3>1
    <3>2. CASE g # x
      BY <1>1, <2>1, <2>2, <3>2 DEF OpenAlone
    <3> QED BY <3>1, <3>2
  <2> QED BY <1>3, <2>1, <2>2
<1> QED BY <1>2, <1>3

\* LockInv after a step that changes the lock of one session at most.
LEMMA LockStep ==
  ASSUME Types, Types', LockInv, NEW x, Moves(x), NEW s \in SessIds,
         \A o \in SessIds \ {s} : sess'[o].lock = sess[o].lock,
         x \in Frames => Frame(x).s = s \/ ~HoldsLock(Frame(x)),
         x \in Frames' => Frame(x)'.s = s \/ ~HoldsLock(Frame(x)'),
         \A f \in Frames : f # x /\ HoldsLock(Frame(f)) /\ Frame(f).s = s =>
           sess'[s].lock = f[1] /\ ~(x \in Frames' /\ HoldsLock(Frame(x)')),
         x \in Frames' /\ HoldsLock(Frame(x)') => sess'[s].lock = x[1],
         sess'[s].lock # NoThread =>
           \/ x \in Frames' /\ HoldsLock(Frame(x)')
           \/ \E f \in Frames : f # x /\ HoldsLock(Frame(f)) /\ Frame(f).s = s
  PROVE  LockInv'
<1>1. /\ \A f \in Frames' : f # x => f \in Frames /\ Frame(f)' = Frame(f)
      /\ \A f \in Frames : f # x => f \in Frames' /\ Frame(f)' = Frame(f)
  BY DEF Moves
<1>0. /\ \A f \in Frames : Frame(f).s \in SessIds
      /\ \A f \in Frames' : Frame(f)'.s \in SessIds
  BY FramesTypedNow, FramesTypedNext DEF FramesTyped, Call
<1>2. ASSUME NEW f \in Frames', HoldsLock(Frame(f)')
      PROVE  sess'[Frame(f)'.s].lock = f[1]
  <2>1. CASE f = x
    BY <1>2, <2>1
  <2>2. CASE f # x /\ Frame(f)'.s = s
    BY <1>1, <1>2, <2>2
  <2>3. CASE f # x /\ Frame(f)'.s # s
    BY <1>0, <1>1, <1>2, <2>3 DEF LockInv
  <2> QED BY <2>1, <2>2, <2>3
<1>3. ASSUME NEW f \in Frames', NEW g \in Frames', HoldsLock(Frame(f)'), HoldsLock(Frame(g)'),
             Frame(f)'.s = Frame(g)'.s
      PROVE  f = g
  <2>1. CASE f = x /\ g # x
    BY <1>1, <1>3, <2>1
  <2>2. CASE f # x /\ g = x
    BY <1>1, <1>3, <2>2
  <2>3. CASE f # x /\ g # x
    BY <1>1, <1>3, <2>3 DEF LockInv
  <2> QED BY <2>1, <2>2, <2>3
<1>4. ASSUME NEW o \in SessIds, sess'[o].lock # NoThread
      PROVE  \E f \in Frames' : Frame(f)'.s = o /\ HoldsLock(Frame(f)')
  <2>1. CASE o = s
    BY <1>1, <1>4, <2>1
  <2>2. CASE o # s
    <3>1. PICK f \in Frames : Frame(f).s = o /\ HoldsLock(Frame(f))
      BY <1>4, <2>2 DEF LockInv
    <3> QED BY <1>1, <2>2, <3>1
  <2> QED BY <2>1, <2>2
<1> QED BY <1>2, <1>3, <1>4 DEF LockInv

\* A step that no reference and no lock is about.
SessKept ==
  \A s \in SessIds : /\ sess'[s].live = sess[s].live /\ sess'[s].own = sess[s].own
                     /\ sess'[s].refs = sess[s].refs /\ sess'[s].lock = sess[s].lock
                     /\ sess'[s].handed = sess[s].handed

\* A step that no reference and no lock is about keeps the session's part.
LEMMA SessQuiet ==
  ASSUME Types, Types', SessInv, NEW x \in Frames, Moves(x), SessKept,
         x \in Frames' =>
           /\ Frame(x)'.s = Frame(x).s /\ Frame(x)'.own = Frame(x).own
           /\ Frame(x)'.op = Frame(x).op
           /\ HoldsRef(Frame(x)') <=> HoldsRef(Frame(x))
           /\ HoldsLock(Frame(x)') <=> HoldsLock(Frame(x)),
         x \notin Frames' => ~HoldsRef(Frame(x))
  PROVE  SessInv'
<1> DEFINE s == Frame(x).s
<1>1. s \in SessIds
  BY FramesTypedNow DEF FramesTyped, Call
<1>2. RefInv'
  <2>1. Cardinality(Holders(s)) \in Nat
    <3>1. Holders(s) \subseteq Frames
      BY DEF Holders
    <3> QED BY <3>1, FramesFinite, FS_Subset, FS_CardinalityType
  <2>2. sess[s].live => sess[s].refs = Cardinality(Holders(s))
    BY <1>1 DEF SessInv, RefInv
  <2>3. HoldsRef(Frame(x)) => sess[s].live /\ sess[s].own = Frame(x).own
    BY DEF SessInv, RefInv, Listed
  <2>4. \A f \in Frames : f # x /\ HoldsRef(Frame(f)) /\ Frame(f).s = s =>
          sess'[s].live /\ sess'[s].own = sess[s].own
    BY <1>1 DEF SessInv, RefInv, Listed, SessKept
  <2> HIDE DEF s
  <2> QED BY <1>1, <2>1, <2>2, <2>3, <2>4, RefStep DEF SessInv, SessKept, s
<1>3. OpenAlone'
  BY <1>1, FramesTypedNow, OpenAloneStep DEF SessInv, OpenAlone, SessKept, FramesTyped, Call
<1>4. LockInv'
  <2>1. HoldsLock(Frame(x)) => HoldsRef(Frame(x))
    BY DEF HoldsLock
  <2>2. \A f \in Frames : f # x /\ HoldsLock(Frame(f)) /\ Frame(f).s = s =>
          sess'[s].lock = f[1] /\ ~(x \in Frames' /\ HoldsLock(Frame(x)'))
    BY <1>1 DEF SessInv, LockInv, SessKept
  <2>3. HoldsLock(Frame(x)) => sess'[s].lock = x[1]
    BY <1>1 DEF SessInv, LockInv, SessKept
  <2>4. sess'[s].lock # NoThread =>
          \/ x \in Frames' /\ HoldsLock(Frame(x)')
          \/ \E f \in Frames : f # x /\ HoldsLock(Frame(f)) /\ Frame(f).s = s
    BY <1>1, <2>1 DEF SessInv, LockInv, SessKept
  <2> HIDE DEF s
  <2> QED BY <1>1, <2>1, <2>2, <2>3, <2>4, LockStep DEF SessInv, SessKept, s
<1> QED BY <1>2, <1>3, <1>4 DEF SessInv

-----------------------------------------------------------------------------
(* TAs: who is in them, and the single-instance lock.                      *)

\* The TAs that calls are in are loaded.
Entered ==
  \A f \in Frames : InTa(Frame(f)) => Frame(f).c \in CtxIds /\ ctxs[Frame(f).c].live

\* The calls in TAs are the same after the step, and in the same ones.
SameInTas ==
  \A f : /\ f \in Frames' /\ InTa(Frame(f)') <=> f \in Frames /\ InTa(Frame(f))
         /\ f \in Frames /\ InTa(Frame(f)) => Frame(f)'.c = Frame(f).c
\* A step leaves the busy flags alone: a loaded context keeps its flag and its
\* TA, and a new one is idle.
LoadedKept ==
  \A c \in CtxIds :
    /\ ctxs[c].live => ctxs'[c].busy = ctxs[c].busy /\ ctxs'[c].ta = ctxs[c].ta
    /\ ctxs'[c].live => ctxs[c].live \/ ~ctxs'[c].busy

\* The calls in TAs stay when the one call that moves is in the TA before and
\* after the step, or neither.
LEMMA SameInTasStep ==
  ASSUME NEW x, Moves(x),
         x \in Frames /\ InTa(Frame(x)) => x \in Frames' /\ Frame(x)'.c = Frame(x).c,
         (x \in Frames /\ InTa(Frame(x))) <=> (x \in Frames' /\ InTa(Frame(x)'))
  PROVE  SameInTas
<1> SUFFICES ASSUME NEW f
             PROVE /\ f \in Frames' /\ InTa(Frame(f)') <=> f \in Frames /\ InTa(Frame(f))
                   /\ f \in Frames /\ InTa(Frame(f)) => Frame(f)'.c = Frame(f).c
  BY DEF SameInTas
<1>1. CASE f = x
  BY <1>1
<1>2. CASE f # x
  <2>1. /\ f \in Frames' <=> f \in Frames
        /\ f \in Frames => Frame(f)' = Frame(f)
    BY <1>2 DEF Moves
  <2> QED BY <2>1
<1> QED BY <1>1, <1>2

\* A step that neither enters nor leaves a TA keeps the TAs' part.
LEMMA TaQuiet ==
  ASSUME Types, TaInv, Entered, SameInTas, LoadedKept, single' = single
  PROVE  TaInv'
<1>1. BusyInv'
  <2>1. \A f \in Frames' : InTa(Frame(f)') =>
          f \in Frames /\ InTa(Frame(f)) /\ Frame(f)'.c = Frame(f).c /\ Frame(f).c \in CtxIds
          /\ ctxs[Frame(f).c].live
    BY DEF SameInTas, Entered
  <2>2. \A f \in Frames' : InTa(Frame(f)') => ctxs'[Frame(f)'.c].busy
    BY <2>1 DEF TaInv, BusyInv, LoadedKept
  <2>3. \A f, g \in Frames' :
          InTa(Frame(f)') /\ InTa(Frame(g)') /\ Frame(f)'.c = Frame(g)'.c => f = g
    BY <2>1 DEF TaInv, BusyInv
  <2>4. ASSUME NEW c \in CtxIds, ctxs'[c].live, ctxs'[c].busy
        PROVE  \E f \in Frames' : Frame(f)'.c = c /\ InTa(Frame(f)')
    <3>1. ctxs[c].live /\ ctxs[c].busy
      BY <2>4 DEF LoadedKept
    <3> QED BY <3>1 DEF TaInv, BusyInv, SameInTas
  <2> QED BY <2>2, <2>3, <2>4 DEF BusyInv
<1>2. SingleInv'
  <2>1. ASSUME NEW t \in Threads
        PROVE  {f \in Frames' : f[1] = t /\ InTa(Frame(f)') /\ Single(Frame(f).c)'}
                 = {f \in Frames : f[1] = t /\ InTa(Frame(f)) /\ Single(Frame(f).c)}
    <3>1. ASSUME NEW f \in Frames, InTa(Frame(f))
          PROVE  Single(Frame(f).c)' <=> Single(Frame(f).c)
      <4>1. ctxs'[Frame(f).c].ta = ctxs[Frame(f).c].ta /\ Frame(f)'.c = Frame(f).c
        BY <3>1 DEF Entered, LoadedKept, SameInTas
      <4> QED BY <4>1 DEF Single
    <3> QED BY <3>1 DEF SameInTas
  <2> QED BY <2>1 DEF TaInv, SingleInv, SingleLockCounted
<1> QED BY <1>1, <1>2 DEF TaInv

-----------------------------------------------------------------------------
(* Contexts: the list, the sessions in them and the calls about them.      *)

\* The calls that work with what their session is in.
Touches(fr) == InSession(fr) \/ fr.pc = "opened" \/ (fr.op = "invoke" /\ Frees(fr))
\* The calls to which a context matters.
Uses(f, c) ==
  \/ Frame(f).c = c
  \/ Frame(f).pc = "opened" /\ sess[Frame(f).s].ctx = c

\* A call that works with what its session is in holds a reference and, unless
\* it is still opening the session, the session's lock.
LEMMA TouchesHolds ==
  ASSUME NEW fr, fr.op \in DOMAIN Places, ShapeOf(fr), Touches(fr)
  PROVE  HoldsRef(fr) /\ (fr.op = "open" \/ HoldsLock(fr))
<1>1. fr.op \in {"open", "invoke", "cancel", "close"} /\ fr.pc \in Places[fr.op]
  BY DEF Places, ShapeOf
<1>2. CASE fr.op = "open"
  BY <1>2 DEF HoldsRef
<1>3. CASE fr.op = "invoke"
  BY <1>1, <1>3 DEF Places, Touches, InSession, Frees, HoldsRef, HoldsLock
<1>4. CASE fr.op = "cancel"
  BY <1>1, <1>4 DEF Places, Touches, InSession, Frees
<1>5. CASE fr.op = "close"
  BY <1>1, <1>5 DEF Places, Touches, InSession, Frees, HoldsRef, HoldsLock
<1> QED BY <1>1, <1>2, <1>3, <1>4, <1>5

\* One call at a time works with what a session is in.
LEMMA Sole ==
  ASSUME Types, SessInv, NEW f \in Frames, NEW g \in Frames, Frame(f).s = Frame(g).s,
         Touches(Frame(f)), Touches(Frame(g))
  PROVE  f = g
<1>1. \A h \in {f, g} : Frame(h).op = "open" \/ HoldsLock(Frame(h))
  BY FramesTypedNow, TouchesHolds DEF FramesTyped, Call
<1> QED BY <1>1 DEF SessInv, OpenAlone, LockInv

\* The session of such a call is there.
LEMMA TouchesLive ==
  ASSUME Types, SessInv, NEW f \in Frames, Touches(Frame(f))
  PROVE  Frame(f).s \in SessIds /\ sess[Frame(f).s].live
<1>1. HoldsRef(Frame(f)) /\ Frame(f) \in Call
  BY FramesTypedNow, TouchesHolds DEF FramesTyped, Call
<1> QED BY <1>1 DEF SessInv, RefInv, Listed, Call

\* A call that uses a context is about to leave it, frees it, or is about a
\* session that is in it.
LEMMA InContext ==
  ASSUME Types, SessInv, ContextInv, NEW f \in Frames, NEW c \in CtxIds, Uses(f, c)
  PROVE  \/ f \in Leavers(c)
         \/ Frees(Frame(f)) /\ Frame(f).c = c
         \/ Frame(f).s \in Members(c) /\ Touches(Frame(f))
<1>1. /\ Frame(f) \in Call /\ ShapeOf(Frame(f)) /\ CtxOf(f)
  BY FramesTypedNow DEF FramesTyped, ContextInv, CtxInv
<1>2. c # NoCtx
  BY DEF CtxIds, NoCtx
<1>3. CASE Frame(f).pc = "opened"
  <2>1. sess[Frame(f).s].ctx = c /\ Touches(Frame(f))
    BY <1>1, <1>2, <1>3 DEF CtxOf, Uses, Touches
  <2> QED BY <2>1, TouchesLive DEF Members
<1>4. CASE Frame(f).pc # "opened" /\ ~Frees(Frame(f)) /\ InSession(Frame(f))
  <2>1. sess[Frame(f).s].ctx = c /\ Touches(Frame(f))
    BY <1>1, <1>4 DEF CtxOf, Uses, Touches
  <2> QED BY <2>1, TouchesLive DEF Members
<1>5. CASE Frame(f).pc # "opened" /\ ~Frees(Frame(f)) /\ ~InSession(Frame(f))
  <2>1. Frame(f).c = c
    BY <1>5 DEF Uses
  <2>2. Frame(f).op = "close" /\ Frame(f).pc \in {"leave", "dec"}
    BY <1>1, <1>2, <1>5, <2>1 DEF ShapeOf, Places, Call, InSession, Frees
  <2> QED BY <2>1, <2>2 DEF Leavers
<1>6. CASE Frame(f).pc # "opened" /\ Frees(Frame(f))
  BY <1>6 DEF Uses
<1> QED BY <1>3, <1>4, <1>5, <1>6

\* The sets that the count of a context is made of are finite.
LEMMA SetsFinite ==
  ASSUME Types, NEW c
  PROVE  /\ IsFiniteSet(Members(c)) /\ Cardinality(Members(c)) \in Nat
         /\ IsFiniteSet(Leavers(c)) /\ Cardinality(Leavers(c)) \in Nat
<1>1. IsFiniteSet(SessIds)
  BY FS_Interval, SessionsAssumption DEF SessIds
<1>2. Members(c) \subseteq SessIds /\ Leavers(c) \subseteq Frames
  BY DEF Members, Leavers
<1> QED BY <1>1, <1>2, FramesFinite, FS_Subset, FS_CardinalityType

\* The same for all contexts.
SetsFiniteAll ==
  \A c \in CtxIds : IsFiniteSet(Members(c)) /\ IsFiniteSet(Leavers(c))

\* It holds where Types does.
LEMMA SetsFiniteNow == Types => SetsFiniteAll
BY SetsFinite DEF SetsFiniteAll

\* The same for the next state.
LEMMA SetsFiniteNextAll == Types' => SetsFiniteAll'
BY SetsFiniteNow, PTL

\* The same for one context in the next state.
LEMMA SetsFiniteNext ==
  ASSUME Types', NEW c \in CtxIds
  PROVE  IsFiniteSet(Members(c)') /\ IsFiniteSet(Leavers(c)')
BY SetsFiniteNextAll DEF SetsFiniteAll

\* A context with one reference is in one hand.
LEMMA Alone ==
  ASSUME Types, SessInv, ContextInv, NEW c \in Range(tee_ctxes), ctxs[c].refs <= 1,
         NEW f \in Frames, NEW g \in Frames, Uses(f, c), Uses(g, c)
  PROVE  f = g
<1>0. c \in CtxIds
  BY DEF Types, Tables, Range
<1>1. /\ ctxs[c].refs = Cardinality(Members(c)) + Cardinality(Leavers(c))
  BY DEF ContextInv, ListInv, ListOf
<1>2. \A h \in Frames : ~(Frees(Frame(h)) /\ Frame(h).c = c)
  BY DEF ContextInv, CtxInv, CtxOf
<1>3. \A h \in {f, g} : h \in Leavers(c) \/ (Frame(h).s \in Members(c) /\ Touches(Frame(h)))
  BY <1>0, <1>2, InContext
<1>4. CASE f \in Leavers(c) /\ g \in Leavers(c)
  <2>1. Cardinality(Leavers(c)) <= 1
    BY <1>1, SetsFinite
  <2> QED BY <1>4, <2>1, SetsFinite, One
<1>5. CASE Frame(f).s \in Members(c) /\ Touches(Frame(f)) /\ Frame(g).s \in Members(c)
           /\ Touches(Frame(g))
  <2>1. Cardinality(Members(c)) <= 1
    BY <1>1, SetsFinite
  <2>2. Frame(f).s = Frame(g).s
    BY <1>5, <2>1, SetsFinite, One
  <2> QED BY <1>5, <2>2, Sole
<1>6. ASSUME NEW s \in Members(c), NEW h \in Leavers(c) PROVE FALSE
  <2>1. Cardinality(Members(c)) # 0 /\ Cardinality(Leavers(c)) # 0
    BY <1>6, SetsFinite, FS_EmptySet
  <2> QED BY <1>1, <2>1, SetsFinite
<1> QED BY <1>3, <1>4, <1>5, <1>6

\* A context that a call names is loaded; a call in a TA names one.
LEMMA NamedLoaded ==
  ASSUME Types, ContextInv, NEW f \in Frames, Frame(f).c # NoCtx
  PROVE  Frame(f).c \in CtxIds /\ ctxs[Frame(f).c].live
<1>1. Frame(f) \in Call /\ CtxOf(f)
  BY FramesTypedNow DEF FramesTyped, ContextInv, CtxInv
<1>2. CASE Frees(Frame(f))
  BY <1>1, <1>2 DEF CtxOf, Call
<1>3. CASE ~Frees(Frame(f))
  BY <1>1, <1>3 DEF CtxOf, Call, ContextInv, ListInv, ListOf
<1> QED BY <1>2, <1>3

\* The TAs that calls are in are loaded.
LEMMA InTaEntered ==
  ASSUME Types, ContextInv
  PROVE  Entered
<1> SUFFICES ASSUME NEW f \in Frames, InTa(Frame(f))
             PROVE  Frame(f).c \in CtxIds /\ ctxs[Frame(f).c].live
  BY DEF Entered
<1>1. ShapeOf(Frame(f))
  BY DEF Types
<1>2. Frame(f).c # NoCtx
  BY <1>1 DEF ShapeOf, InTa
<1> QED BY <1>2, NamedLoaded

\* A step that leaves the list of contexts and the sessions in them alone; at
\* most it marks a context busy, loaded or dead.
ContextsKept ==
  /\ tee_ctxes' = tee_ctxes
  /\ \A s \in SessIds, c \in CtxIds :
       sess'[s].live /\ sess'[s].ctx = c <=> sess[s].live /\ sess[s].ctx = c
  /\ \A c \in CtxIds :
       /\ ctxs'[c].live = ctxs[c].live /\ ctxs'[c].ta = ctxs[c].ta
       /\ ctxs'[c].refs = ctxs[c].refs
       /\ ctxs'[c].panicked => ctxs[c].panicked \/ ctxs[c].ta \in Panicky
       /\ ctxs[c].panicked => ctxs'[c].panicked

\* A step that keeps the contexts keeps their part, if what other calls rely
\* on stays.
LEMMA CtxQuiet ==
  ASSUME Types, Types', ContextInv, ContextsKept, NEW x, Moves(x),
         \A f \in Frames : f # x =>
           /\ Touches(Frame(f)) => sess'[Frame(f).s].ctx = sess[Frame(f).s].ctx
           /\ Frame(f).pc = "loading" => ctxs'[Frame(f).c].init /\ ~ctxs'[Frame(f).c].panicked
           /\ Frame(f).pc = "busy" => ~ctxs'[Frame(f).c].panicked
           /\ Frame(f).pc = "opened" => ~ctxs'[sess[Frame(f).s].ctx].panicked,
         \A c \in CtxIds : x \in Leavers(c)' <=> x \in Leavers(c),
         x \in Frames' => CtxOf(x)',
         x \in Frames' =>
           \/ Frame(x)'.c \in {NoCtx} \cup Range(tee_ctxes)
           \/ x \in Frames /\ Frame(x)'.c = Frame(x).c,
         x \in Frames /\ Frame(x).op = "invoke" /\ Frees(Frame(x)) =>
           /\ x \in Frames' /\ Frame(x)'.op = "invoke" /\ Frees(Frame(x)')
           /\ Frame(x)'.s = Frame(x).s /\ Frame(x)'.c = Frame(x).c
  PROVE  ContextInv'
<1>0. Range(tee_ctxes)' = Range(tee_ctxes) /\ Range(tee_ctxes) \subseteq CtxIds
  BY DEF ContextsKept, Range, Types, Tables
<1>1. \A c \in CtxIds : Members(c)' = Members(c)
  BY DEF ContextsKept, Members
<1>2. ASSUME NEW c \in CtxIds PROVE Leavers(c)' = Leavers(c)
  <2> SUFFICES ASSUME NEW f PROVE f \in Leavers(c)' <=> f \in Leavers(c)
    OBVIOUS
  <2>1. CASE f = x
    BY <2>1
  <2>2. CASE f # x
    BY <2>2 DEF Moves, Leavers
  <2> QED BY <2>1, <2>2
<1>3. ListInv'
  <2>1. IsInjective(tee_ctxes)'
    BY DEF ContextInv, ListInv, ContextsKept, IsInjective
  <2>2. ASSUME NEW c \in Range(tee_ctxes) PROVE ListOf(c)'
    <3>1. c \in CtxIds /\ ListOf(c)
      BY <1>0 DEF ContextInv, ListInv
    <3> QED BY <1>1, <1>2, <3>1 DEF ListOf, ContextsKept, Kept
  <2> QED BY <1>0, <2>1, <2>2 DEF ListInv
<1>4. ASSUME NEW f \in Frames', f # x
      PROVE  CtxOf(f)'
  <2>1. f \in Frames /\ Frame(f)' = Frame(f)
    BY <1>4 DEF Moves
  <2>2. CtxOf(f) /\ Frame(f) \in Call
    BY <2>1, FramesTypedNow DEF ContextInv, CtxInv, FramesTyped
  <2>3. InSession(Frame(f)) => sess'[Frame(f).s].ctx = Frame(f).c
    BY <1>4, <2>1, <2>2 DEF CtxOf, Touches
  <2>4. Frame(f).pc = "loading" => LET k == ctxs'[Frame(f).c] IN k.init /\ k.refs = 1 /\ ~k.panicked
    <3> SUFFICES ASSUME Frame(f).pc = "loading"
                 PROVE  LET k == ctxs'[Frame(f).c] IN k.init /\ k.refs = 1 /\ ~k.panicked
      OBVIOUS
    <3>1. Frame(f).c # NoCtx
      BY <2>1 DEF Types, ShapeOf
    <3> QED BY <1>4, <2>1, <2>2, <3>1 DEF CtxOf, ContextsKept, Call
  <2>5. Frame(f).pc = "opened" =>
          /\ sess'[Frame(f).s].ctx # NoCtx /\ ~ctxs'[sess'[Frame(f).s].ctx].panicked
          /\ Frame(f).c \in {NoCtx, sess'[Frame(f).s].ctx}
    BY <1>4, <2>1, <2>2 DEF CtxOf, Touches
  <2>6. Frame(f).pc = "destroy" => ctxs'[Frame(f).c].panicked
    <3> SUFFICES ASSUME Frame(f).pc = "destroy"
                 PROVE  ctxs'[Frame(f).c].panicked
      OBVIOUS
    <3>1. Frame(f).c # NoCtx
      BY <2>1 DEF Types, ShapeOf
    <3> QED BY <2>2, <3>1 DEF CtxOf, ContextsKept, Call
  <2>9. Frame(f).pc = "busy" => ~ctxs'[Frame(f).c].panicked
    BY <1>4, <2>1
  <2>7. ASSUME Frees(Frame(f))
        PROVE  /\ ctxs'[Frame(f).c].live /\ Frame(f).c \notin Range(tee_ctxes)
               /\ \A g \in Frames' : Frame(g)'.c = Frame(f).c => g = f
               /\ \A o \in SessIds : sess'[o].live /\ sess'[o].ctx = Frame(f).c =>
                    Frame(f).op = "invoke" /\ o = Frame(f).s
               /\ Frame(f).op = "invoke" => sess'[Frame(f).s].ctx = Frame(f).c
    <3>1. Frame(f).c \in CtxIds /\ Frame(f).c # NoCtx
      BY <2>1, <2>2, <2>7 DEF Types, ShapeOf, Frees, Call
    <3>2. /\ ctxs[Frame(f).c].live /\ Frame(f).c \notin Range(tee_ctxes)
          /\ \A g \in Frames : Frame(g).c = Frame(f).c => g = f
          /\ \A o \in SessIds : sess[o].live /\ sess[o].ctx = Frame(f).c =>
               Frame(f).op = "invoke" /\ o = Frame(f).s
          /\ Frame(f).op = "invoke" => sess[Frame(f).s].ctx = Frame(f).c
      BY <2>2, <2>7 DEF CtxOf, Members
    <3>3. ASSUME NEW g \in Frames', Frame(g)'.c = Frame(f).c PROVE g = f
      <4>1. CASE g # x
        BY <3>2, <3>3, <4>1 DEF Moves
      <4>2. CASE g = x
        BY <3>1, <3>2, <3>3, <4>2
      <4> QED BY <4>1, <4>2
    <3>4. ctxs'[Frame(f).c].live
      BY <3>1, <3>2 DEF ContextsKept
    <3>5. Frame(f).op = "invoke" => sess'[Frame(f).s].ctx = Frame(f).c
      BY <1>4, <2>1, <2>7, <3>2 DEF Touches
    <3>6. \A o \in SessIds : sess'[o].live /\ sess'[o].ctx = Frame(f).c =>
               Frame(f).op = "invoke" /\ o = Frame(f).s
      BY <3>1, <3>2 DEF ContextsKept
    <3> QED BY <3>2, <3>3, <3>4, <3>5, <3>6
  <2>8. Frame(f).c # NoCtx /\ ~Frees(Frame(f)) => Frame(f).c \in Range(tee_ctxes)
    BY <2>2 DEF CtxOf
  <2> QED BY <1>0, <2>1, <2>3, <2>4, <2>5, <2>6, <2>7, <2>8, <2>9 DEF CtxOf, Members
<1>5. SessCtx'
  <2> SUFFICES ASSUME NEW s \in SessIds, sess'[s].live, sess'[s].ctx # NoCtx
               PROVE  \/ sess'[s].ctx \in Range(tee_ctxes)
                      \/ \E f \in Frames' : Frame(f)'.s = s /\ Frame(f)'.op = "invoke"
                                         /\ Frees(Frame(f)') /\ Frame(f)'.c = sess'[s].ctx
    BY <1>0 DEF SessCtx
  <2>1. sess[s].live /\ sess[s].ctx = sess'[s].ctx
    BY DEF ContextsKept, Types, Tables, Session
  <2>2. CASE sess[s].ctx \in Range(tee_ctxes)
    BY <2>1, <2>2
  <2>3. CASE sess[s].ctx \notin Range(tee_ctxes)
    <3>1. PICK f \in Frames : Frame(f).s = s /\ Frame(f).op = "invoke" /\ Frees(Frame(f))
                              /\ Frame(f).c = sess[s].ctx
      BY <2>1, <2>3 DEF ContextInv, CtxInv, SessCtx
    <3>2. CASE f = x
      BY <2>1, <3>1, <3>2
    <3>3. CASE f # x
      <4>1. f \in Frames' /\ Frame(f)' = Frame(f)
        BY <3>3 DEF Moves
      <4> QED BY <2>1, <3>1, <4>1
    <3> QED BY <3>2, <3>3
  <2> QED BY <2>2, <2>3
<1> QED BY <1>3, <1>4, <1>5 DEF ContextInv, CtxInv

\* A step that changes at most the session s, the context d and the call at x
\* (s is none, NoSess, when no session changes).
OnlyAt(s, d, x) ==
  /\ \A o \in SessIds \ {s} : sess'[o] = sess[o]
  /\ \A c \in CtxIds \ {d} :
       /\ ctxs'[c] = ctxs[c]
       /\ c \in Range(tee_ctxes)' <=> c \in Range(tee_ctxes)
       /\ sess'[s].live /\ sess'[s].ctx = c <=> sess[s].live /\ sess[s].ctx = c
       /\ x \in Leavers(c)' <=> x \in Leavers(c)

\* A step about one session and one context keeps the contexts' part, if the
\* count of that context is right and no other call relies on what changes.
LEMMA CtxMove ==
  ASSUME Types, Types', ContextInv, NEW x, Moves(x), NEW s, NEW d \in CtxIds,
         OnlyAt(s, d, x), IsInjective(tee_ctxes)', d \in Range(tee_ctxes)' => ListOf(d)',
         \A f \in Frames : f # x =>
           /\ Frame(f).s = s => ~Touches(Frame(f))
           /\ Frame(f).c = d =>
                /\ ~Frees(Frame(f)) /\ d \in Range(tee_ctxes)'
                /\ Frame(f).pc = "loading" =>
                     ctxs'[d].init /\ ctxs'[d].refs = 1 /\ ~ctxs'[d].panicked
                /\ Frame(f).pc = "busy" => ~ctxs'[d].panicked
                /\ Frame(f).pc = "destroy" => ctxs'[d].panicked
           /\ Frame(f).pc = "opened" /\ sess[Frame(f).s].ctx = d => ~ctxs'[d].panicked,
         x \in Frames' => CtxOf(x)',
         x \in Frames' =>
           \/ Frame(x)'.c \in {NoCtx, d} \cup Range(tee_ctxes)
           \/ x \in Frames /\ Frame(x)'.c = Frame(x).c,
         x \in Frames /\ Frame(x).op = "invoke" /\ Frees(Frame(x)) => Frame(x).s = s,
         s \in SessIds /\ sess'[s].live /\ sess'[s].ctx # NoCtx =>
           \/ sess'[s].ctx \in Range(tee_ctxes)'
           \/ /\ x \in Frames' /\ Frame(x)'.s = s /\ Frame(x)'.op = "invoke"
              /\ Frees(Frame(x)') /\ Frame(x)'.c = sess'[s].ctx,
         \A o \in SessIds : o # s /\ sess[o].live /\ sess[o].ctx = d => d \in Range(tee_ctxes)'
  PROVE  ContextInv'
<1>0. Range(tee_ctxes) \subseteq CtxIds /\ Range(tee_ctxes)' \subseteq CtxIds
  BY DEF Range, Types, Tables
<1>1. ASSUME NEW c \in CtxIds, c # d PROVE Members(c)' = Members(c) /\ Leavers(c)' = Leavers(c)
  <2>1. \A o : o \in Members(c)' <=> o \in Members(c)
    BY <1>1 DEF OnlyAt, Members
  <2>2. ASSUME NEW f PROVE f \in Leavers(c)' <=> f \in Leavers(c)
    <3>1. CASE f = x
      BY <1>1, <3>1 DEF OnlyAt
    <3>2. CASE f # x
      BY <3>2 DEF Moves, Leavers
    <3> QED BY <3>1, <3>2
  <2> QED BY <2>1, <2>2
<1>3. ListInv'
  <2>2. ASSUME NEW c \in Range(tee_ctxes)' PROVE ListOf(c)'
    <3>1. CASE c = d
      BY <2>2, <3>1
    <3>2. CASE c # d
      <4>1. c \in CtxIds /\ ListOf(c) /\ ctxs'[c] = ctxs[c]
        BY <1>0, <2>2, <3>2 DEF ContextInv, ListInv, OnlyAt
      <4> QED BY <1>1, <3>2, <4>1 DEF ListOf, Kept
    <3> QED BY <3>1, <3>2
  <2> QED BY <2>2 DEF ListInv
<1>4. ASSUME NEW f \in Frames', f # x
      PROVE  CtxOf(f)'
  <2>1. f \in Frames /\ Frame(f)' = Frame(f)
    BY <1>4 DEF Moves
  <2>2. CtxOf(f) /\ Frame(f) \in Call /\ ShapeOf(Frame(f))
    BY <2>1, FramesTypedNow DEF ContextInv, CtxInv, FramesTyped
  <2>0. Touches(Frame(f)) => Frame(f).s # s /\ sess'[Frame(f).s] = sess[Frame(f).s]
    BY <1>4, <2>1, <2>2 DEF OnlyAt, Call
  <2>9. Frame(f).c # d /\ Frame(f).c # NoCtx => ctxs'[Frame(f).c] = ctxs[Frame(f).c]
    BY <2>2 DEF OnlyAt, Call
  <2>3. InSession(Frame(f)) => sess'[Frame(f).s].ctx = Frame(f).c
    BY <2>0, <2>2 DEF CtxOf, Touches
  <2>4. Frame(f).pc = "loading" => LET k == ctxs'[Frame(f).c] IN k.init /\ k.refs = 1 /\ ~k.panicked
    <3> SUFFICES ASSUME Frame(f).pc = "loading"
                 PROVE  LET k == ctxs'[Frame(f).c] IN k.init /\ k.refs = 1 /\ ~k.panicked
      OBVIOUS
    <3>1. Frame(f).c # NoCtx
      BY <2>2 DEF ShapeOf
    <3> QED BY <1>4, <2>1, <2>2, <2>9, <3>1 DEF CtxOf
  <2>5. Frame(f).pc = "opened" =>
          /\ sess'[Frame(f).s].ctx # NoCtx /\ ~ctxs'[sess'[Frame(f).s].ctx].panicked
          /\ Frame(f).c \in {NoCtx, sess'[Frame(f).s].ctx}
    <3> SUFFICES ASSUME Frame(f).pc = "opened"
                 PROVE  /\ sess'[Frame(f).s].ctx # NoCtx
                        /\ ~ctxs'[sess'[Frame(f).s].ctx].panicked
                        /\ Frame(f).c \in {NoCtx, sess'[Frame(f).s].ctx}
      OBVIOUS
    <3>1. sess'[Frame(f).s] = sess[Frame(f).s] /\ sess[Frame(f).s].ctx \in CtxIds \cup {NoCtx}
      BY <2>0, <2>2 DEF Touches, Types, Tables, Session, Call
    <3>2. /\ sess[Frame(f).s].ctx # NoCtx /\ ~ctxs[sess[Frame(f).s].ctx].panicked
          /\ Frame(f).c \in {NoCtx, sess[Frame(f).s].ctx}
      BY <2>2 DEF CtxOf
    <3>3. ~ctxs'[sess[Frame(f).s].ctx].panicked
      <4>1. CASE sess[Frame(f).s].ctx = d
        BY <1>4, <2>1, <4>1
      <4>2. CASE sess[Frame(f).s].ctx # d
        BY <3>1, <3>2, <4>2 DEF OnlyAt
      <4> QED BY <4>1, <4>2
    <3> QED BY <3>1, <3>2, <3>3
  <2>6. Frame(f).pc = "destroy" => ctxs'[Frame(f).c].panicked
    <3> SUFFICES ASSUME Frame(f).pc = "destroy"
                 PROVE  ctxs'[Frame(f).c].panicked
      OBVIOUS
    <3>1. Frame(f).c # NoCtx
      BY <2>2 DEF ShapeOf
    <3> QED BY <1>4, <2>1, <2>2, <2>9, <3>1 DEF CtxOf
  <2>10. Frame(f).pc = "busy" => ~ctxs'[Frame(f).c].panicked
    <3> SUFFICES ASSUME Frame(f).pc = "busy"
                 PROVE  ~ctxs'[Frame(f).c].panicked
      OBVIOUS
    <3>1. Frame(f).c # NoCtx
      BY <2>2 DEF ShapeOf
    <3> QED BY <1>4, <2>1, <2>2, <2>9, <3>1 DEF CtxOf
  <2>7. ASSUME Frees(Frame(f))
        PROVE  /\ ctxs'[Frame(f).c].live /\ Frame(f).c \notin Range(tee_ctxes)'
               /\ \A g \in Frames' : Frame(g)'.c = Frame(f).c => g = f
               /\ \A o \in SessIds : sess'[o].live /\ sess'[o].ctx = Frame(f).c =>
                    Frame(f).op = "invoke" /\ o = Frame(f).s
               /\ Frame(f).op = "invoke" => sess'[Frame(f).s].ctx = Frame(f).c
    <3>1. Frame(f).c \in CtxIds /\ Frame(f).c # NoCtx /\ Frame(f).c # d
      BY <1>4, <2>1, <2>2, <2>7 DEF ShapeOf, Frees, Call
    <3>2. /\ ctxs[Frame(f).c].live /\ Frame(f).c \notin Range(tee_ctxes)
          /\ \A g \in Frames : Frame(g).c = Frame(f).c => g = f
          /\ \A o \in SessIds : sess[o].live /\ sess[o].ctx = Frame(f).c =>
               Frame(f).op = "invoke" /\ o = Frame(f).s
          /\ Frame(f).op = "invoke" => sess[Frame(f).s].ctx = Frame(f).c
      BY <2>2, <2>7 DEF CtxOf, Members
    <3>3. ASSUME NEW g \in Frames', Frame(g)'.c = Frame(f).c PROVE g = f
      <4>1. CASE g # x
        BY <3>2, <3>3, <4>1 DEF Moves
      <4>2. CASE g = x
        BY <3>1, <3>2, <3>3, <4>2
      <4> QED BY <4>1, <4>2
    <3>4. ctxs'[Frame(f).c].live /\ Frame(f).c \notin Range(tee_ctxes)'
      BY <3>1, <3>2 DEF OnlyAt
    <3>5. Frame(f).op = "invoke" => sess'[Frame(f).s].ctx = Frame(f).c
      BY <2>0, <2>7, <3>2 DEF Touches
    <3>6. ASSUME NEW o \in SessIds, sess'[o].live, sess'[o].ctx = Frame(f).c
          PROVE  Frame(f).op = "invoke" /\ o = Frame(f).s
      <4>1. sess[o].live /\ sess[o].ctx = Frame(f).c
        BY <3>1, <3>6 DEF OnlyAt
      <4> QED BY <3>2, <4>1
    <3> QED BY <3>3, <3>4, <3>5, <3>6
  <2>8. Frame(f).c # NoCtx /\ ~Frees(Frame(f)) => Frame(f).c \in Range(tee_ctxes)'
    BY <1>4, <2>1, <2>2 DEF CtxOf, OnlyAt, Call
  <2> QED BY <2>1, <2>3, <2>4, <2>5, <2>6, <2>7, <2>8, <2>10 DEF CtxOf, Members
<1>5. SessCtx'
  <2> SUFFICES ASSUME NEW o \in SessIds, sess'[o].live, sess'[o].ctx # NoCtx
               PROVE  \/ sess'[o].ctx \in Range(tee_ctxes)'
                      \/ \E f \in Frames' : Frame(f)'.s = o /\ Frame(f)'.op = "invoke"
                                         /\ Frees(Frame(f)') /\ Frame(f)'.c = sess'[o].ctx
    BY DEF SessCtx
  <2>1. CASE o = s
    BY <2>1
  <2>2. CASE o # s
    <3>1. sess'[o] = sess[o] /\ sess[o].ctx \in CtxIds
      BY <2>2 DEF OnlyAt, Types, Tables, Session
    <3>2. CASE sess[o].ctx \in Range(tee_ctxes)
      BY <2>2, <3>1, <3>2 DEF OnlyAt
    <3>3. CASE sess[o].ctx \notin Range(tee_ctxes)
      <4>1. PICK f \in Frames : Frame(f).s = o /\ Frame(f).op = "invoke" /\ Frees(Frame(f))
                                /\ Frame(f).c = sess[o].ctx
        BY <3>1, <3>3 DEF ContextInv, CtxInv, SessCtx
      <4>2. f # x
        BY <2>2, <4>1
      <4>3. f \in Frames' /\ Frame(f)' = Frame(f)
        BY <4>2 DEF Moves
      <4> QED BY <3>1, <4>1, <4>3
    <3> QED BY <3>2, <3>3
  <2> QED BY <2>1, <2>2
<1> QED BY <1>3, <1>4, <1>5 DEF ContextInv, CtxInv

-----------------------------------------------------------------------------
(* The steps, one lemma each.                                              *)

\* The call that a thread executes.
LEMMA Here ==
  ASSUME Types, NEW t \in Threads, NEW x, x = Pos(t), stack[t] # << >>
  PROVE  x \in Frames /\ Frame(x) = Top(t) /\ Top(t) \in Call /\ ShapeOf(Top(t)) /\ x[1] = t
<1>1. FramesByPlace
  BY FramesOf DEF Types, StackOK, StackType
<1>2. Len(stack[t]) \in 1..Len(stack[t])
  BY DEF Types, StackOK
<1>3. x \in Frames /\ Frame(x) = Top(t) /\ x[1] = t
  BY <1>1, <1>2 DEF FramesByPlace, Pos, Frame, Top, Last
<1> QED BY <1>3, FramesTypedNow DEF FramesTyped

\* A wait, and a panic(), change nothing of what is counted.
LEMMA IdleStep ==
  ASSUME IInv, UNCHANGED << tables, stack >>
  PROVE  IInv'
<1>1. sess' = sess /\ ctxs' = ctxs /\ tee_ctxes' = tee_ctxes /\ single' = single /\ stack' = stack
  BY DEF tables
<1>2. Frames' = Frames /\ \A f : Frame(f)' = Frame(f)
  BY <1>1 DEF Frames, Frame
<1>3. Types'
  BY <1>1, <1>2 DEF IInv, Types, Tables, StackOK, Nested, NestedAt, Deep
<1>4. SessInv'
  BY <1>1, <1>2 DEF IInv, SessInv, RefInv, Listed, Holders, OpenAlone, LockInv
<1>5. TaInv'
  BY <1>1, <1>2 DEF IInv, TaInv, BusyInv, SingleInv, SingleLockCounted, Single
<1>6. ListInv' /\ SessCtx'
  <2>1. Range(tee_ctxes)' = Range(tee_ctxes) /\ IsInjective(tee_ctxes)' = IsInjective(tee_ctxes)
    BY <1>1 DEF Range, IsInjective
  <2>2. \A c : Members(c)' = Members(c) /\ Leavers(c)' = Leavers(c)
    BY <1>1, <1>2 DEF Members, Leavers
  <2>3. \A c : ListOf(c) => ListOf(c)'
    BY <1>1, <2>2 DEF ListOf, Kept
  <2>4. SessCtx'
    BY <1>1, <1>2, <2>1 DEF IInv, ContextInv, CtxInv, SessCtx
  <2> QED BY <2>1, <2>3, <2>4 DEF IInv, ContextInv, ListInv
<1>7. ASSUME NEW f \in Frames PROVE CtxOf(f)'
  <2>1. CtxOf(f)
    BY <1>7 DEF IInv, ContextInv, CtxInv
  <2> QED BY <1>1, <1>2, <2>1 DEF CtxOf, Members, Range
<1> QED BY <1>2, <1>3, <1>4, <1>5, <1>6, <1>7 DEF IInv, ContextInv, CtxInv

\* CtxOf() for the call at x if it goes on as fr.
CtxFor(x, fr) ==
  /\ InSession(fr) => sess[fr.s].ctx = fr.c
  /\ fr.c # NoCtx /\ ~Frees(fr) => fr.c \in Range(tee_ctxes)
  /\ fr.pc = "loading" => ctxs[fr.c].init /\ ctxs[fr.c].refs = 1 /\ ~ctxs[fr.c].panicked
  /\ fr.pc = "opened" =>
       /\ sess[fr.s].ctx # NoCtx /\ ~ctxs[sess[fr.s].ctx].panicked
       /\ fr.c \in {NoCtx, sess[fr.s].ctx}
  /\ fr.pc = "destroy" => ctxs[fr.c].panicked
  /\ fr.pc = "busy" => ~ctxs[fr.c].panicked
  /\ Frees(fr) => Frees(Frame(x)) /\ Frame(x).c = fr.c

\* A step that only moves the call at x on.
LEMMA PlainStep ==
  ASSUME IInv, NEW t \in Threads, NEW x, x = Pos(t), stack[t] # << >>, NEW fr \in Call,
         Become(t, fr), UNCHANGED tables,
         fr.op = Top(t).op, fr.s = Top(t).s, fr.own = Top(t).own,
         HoldsRef(fr) <=> HoldsRef(Top(t)), HoldsLock(fr) <=> HoldsLock(Top(t)),
         InTa(fr) <=> InTa(Top(t)), InTa(fr) => fr.c = Top(t).c,
         ShapeOf(fr), CtxFor(x, fr), Frees(Top(t)) => Frees(fr),
         Top(t).op = "close" /\ Top(t).pc \in {"leave", "dec"} <=>
           fr.op = "close" /\ fr.pc \in {"leave", "dec"},
         Top(t).op = "close" /\ Top(t).pc \in {"leave", "dec"} => fr.c = Top(t).c
  PROVE  IInv'
<1>0. sess' = sess /\ ctxs' = ctxs /\ tee_ctxes' = tee_ctxes /\ single' = single
  BY DEF tables
<1>1. /\ x \in Frames /\ Frame(x) = Top(t) /\ Top(t) \in Call
      /\ x \in Frames' /\ Frame(x)' = fr /\ Moves(x) /\ StackOK'
  BY BecomeStep DEF IInv, Types
<1>2. Types'
  <2>1. Tables'
    BY <1>0 DEF IInv, Types, Tables
  <2> QED BY <1>1, <2>1, TypesStep DEF IInv
<1>3. SessInv'
  BY <1>0, <1>1, <1>2, SessQuiet DEF IInv, SessKept
<1>4. TaInv'
  <2>1. SameInTas
    BY <1>1, SameInTasStep
  <2>2. LoadedKept
    BY <1>0 DEF LoadedKept
  <2> QED BY <1>0, <2>1, <2>2, InTaEntered, TaQuiet DEF IInv
<1>5. ContextInv'
  <2>1. ContextsKept
    BY <1>0 DEF ContextsKept
  <2>2. \A f \in Frames : f # x =>
          /\ Touches(Frame(f)) => sess'[Frame(f).s].ctx = sess[Frame(f).s].ctx
          /\ Frame(f).pc = "loading" => ctxs'[Frame(f).c].init /\ ~ctxs'[Frame(f).c].panicked
          /\ Frame(f).pc = "busy" => ~ctxs'[Frame(f).c].panicked
          /\ Frame(f).pc = "opened" => ~ctxs'[sess[Frame(f).s].ctx].panicked
    BY <1>0 DEF IInv, ContextInv, CtxInv, CtxOf
  <2>3. \A c \in CtxIds : x \in Leavers(c)' <=> x \in Leavers(c)
    BY <1>1 DEF Leavers
  <2>4. CtxOf(x)
    BY <1>1 DEF IInv, ContextInv, CtxInv
  <2>5. CtxOf(x)'
    <3>1. ASSUME Frees(fr)
          PROVE  /\ ctxs[fr.c].live /\ fr.c \notin Range(tee_ctxes)
                 /\ \A g \in Frames' : Frame(g)'.c = fr.c => g = x
                 /\ \A o \in Members(fr.c) : fr.op = "invoke" /\ o = fr.s
                 /\ fr.op = "invoke" => sess[fr.s].ctx = fr.c
      <4>1. Frees(Top(t)) /\ fr.c = Top(t).c
        BY <1>1, <3>1 DEF CtxFor
      <4>2. \A g \in Frames' : Frame(g)'.c = fr.c => g = x
        BY <1>1, <2>4, <4>1 DEF CtxOf, Moves
      <4> QED BY <1>1, <2>4, <4>1, <4>2 DEF CtxOf
    <3>2. Range(tee_ctxes)' = Range(tee_ctxes) /\ Members(fr.c)' = Members(fr.c)
      BY <1>0 DEF Range, Members
    <3> QED BY <1>0, <1>1, <3>1, <3>2 DEF CtxOf, CtxFor
  <2>6. \/ fr.c \in {NoCtx} \cup Range(tee_ctxes)
        \/ fr.c = Frame(x).c
    BY DEF CtxFor
  <2>7. Frame(x).op = "invoke" /\ Frees(Frame(x)) =>
          fr.op = "invoke" /\ Frees(fr) /\ fr.s = Frame(x).s /\ fr.c = Frame(x).c
    BY <1>1 DEF CtxFor
  <2> QED BY <1>1, <1>2, <2>1, <2>2, <2>3, <2>5, <2>6, <2>7, CtxQuiet DEF IInv
<1> QED BY <1>2, <1>3, <1>4, <1>5 DEF IInv

\* What a call has where a step finds it.
LEMMA AtStep ==
  ASSUME IInv, NEW t \in Threads, NEW x, x = Pos(t), NEW loc, At(t, loc)
  PROVE  /\ stack[t] # << >> /\ Top(t).pc = loc
         /\ x \in Frames /\ Frame(x) = Top(t) /\ Top(t) \in Call /\ ShapeOf(Top(t)) /\ x[1] = t
         /\ CtxOf(x)
BY Here DEF IInv, ContextInv, CtxInv, At

\* The operations that have a place.
LEMMA OpAt ==
  ASSUME NEW fr \in Call, ShapeOf(fr)
  PROVE  /\ fr.pc \in {"lookup", "load", "loading", "fail", "opened"} => fr.op = "open"
         /\ fr.pc \in {"destroy"} => fr.op = "invoke"
         /\ fr.pc \in {"unlink", "unlinkwait", "dec"} => fr.op = "close"
         /\ fr.pc \in {"destroycv", "free"} => fr.op \in {"invoke", "close"}
         /\ fr.pc \in {"left"} => fr.op \in {"open", "invoke"}
         /\ fr.pc \in {"getwait", "got"} => fr.op \in {"invoke", "close"}
         /\ fr.pc \in {"get"} => fr.op \in {"invoke", "close", "cancel"}
         /\ fr.pc \in {"put"} => fr.op \in {"open", "invoke", "cancel"}
         /\ fr.pc \in {"busy", "run", "leave"} => fr.op \in {"open", "invoke", "close"}
<1>1. fr.op \in {"open", "invoke", "cancel", "close"} /\ fr.pc \in Places[fr.op]
  BY DEF Call, Places, ShapeOf
<1>2. CASE fr.op = "open"
  BY <1>1, <1>2 DEF Places
<1>3. CASE fr.op = "invoke"
  BY <1>1, <1>3 DEF Places
<1>4. CASE fr.op = "cancel"
  BY <1>1, <1>4 DEF Places
<1>5. CASE fr.op = "close"
  BY <1>1, <1>5 DEF Places
<1> QED BY <1>1, <1>2, <1>3, <1>4, <1>5

\* A call that goes to another place is a call.
LEMMA MovedCall ==
  ASSUME NEW fr \in Call, NEW loc \in Locs
  PROVE  /\ [fr EXCEPT !.pc = loc] \in Call
         /\ \A c \in CtxIds \cup {NoCtx} : [fr EXCEPT !.pc = loc, !.c = c] \in Call
         /\ \A res \in {"ok", "err", "dead"} : [fr EXCEPT !.pc = loc, !.res = res] \in Call
BY DEF Call

\* All the places.
LEMMA LocsAre ==
  Locs = {"lookup", "load", "loading", "fail", "opened", "busy", "run", "leave", "left",
          "put", "get", "getwait", "got", "destroy", "destroycv", "free", "unlink",
          "unlinkwait", "dec"}
BY DEF Locs, Places

\* tee_ta_init_user_ta_session() without memory for a context: the call goes on
\* to fail, with the session in no context.
LEMMA LoadNoMemoryStep ==
  ASSUME IInv, NEW t \in Threads, LoadNoMemory(t)
  PROVE  IInv'
<1> PICK x : x = Pos(t)
  OBVIOUS
<1>1. /\ stack[t] # << >> /\ Top(t).pc = "load" /\ Top(t) \in Call /\ ShapeOf(Top(t))
      /\ Frame(x) = Top(t) /\ CtxOf(x) /\ Top(t).op = "open"
  BY AtStep, OpAt DEF LoadNoMemory
<1>2. PICK fr \in Call : fr = [Top(t) EXCEPT !.pc = "fail"]
  BY <1>1, MovedCall, LocsAre
<1>3. /\ fr.op = "open" /\ fr.pc = "fail" /\ fr.s = Top(t).s /\ fr.own = Top(t).own
      /\ fr.c = Top(t).c /\ fr.c = NoCtx
  BY <1>1, <1>2 DEF ShapeOf, Call
<1>4. ShapeOf(fr)
  BY <1>3 DEF ShapeOf, Places
<1>5. CtxFor(x, fr)
  BY <1>1, <1>3 DEF CtxFor, CtxOf, InSession, Frees
<1>6. Become(t, fr) /\ UNCHANGED tables
  BY <1>2 DEF LoadNoMemory, Goto
<1> QED BY <1>1, <1>3, <1>4, <1>5, <1>6, PlainStep DEF HoldsRef, HoldsLock, InTa, Frees

\* The TA answers: the call goes on to leave it.
LEMMA TaReturnsStep ==
  ASSUME IInv, NEW t \in Threads, TaReturns(t)
  PROVE  IInv'
<1> PICK x : x = Pos(t)
  OBVIOUS
<1>1. /\ stack[t] # << >> /\ Top(t).pc = "run" /\ Top(t) \in Call /\ ShapeOf(Top(t))
      /\ Frame(x) = Top(t) /\ CtxOf(x) /\ Top(t).op \in {"open", "invoke", "close"}
  BY AtStep, OpAt DEF TaReturns
<1>2. PICK fr \in Call, res \in {"ok", "err"} :
        fr = [Top(t) EXCEPT !.pc = AfterRun(Top(t)), !.res = res] /\ Become(t, fr)
  BY <1>1, MovedCall, LocsAre DEF TaReturns, AfterRun
<1>3. /\ fr.op = Top(t).op /\ fr.pc = (IF fr.op = "close" THEN "unlink" ELSE "leave")
      /\ fr.s = Top(t).s /\ fr.own = Top(t).own /\ fr.c = Top(t).c /\ fr.c # NoCtx
      /\ fr.res # "dead"
  BY <1>1, <1>2 DEF ShapeOf, Call, AfterRun
<1>4. ShapeOf(fr)
  BY <1>1, <1>3 DEF ShapeOf, Places
<1>5. CtxFor(x, fr)
  BY <1>1, <1>3 DEF CtxFor, CtxOf, InSession, Frees
<1>6. UNCHANGED tables
  BY DEF TaReturns
<1>7. /\ HoldsRef(fr) <=> HoldsRef(Top(t))
      /\ HoldsLock(fr) <=> HoldsLock(Top(t))
      /\ InTa(fr) /\ InTa(Top(t)) /\ ~Frees(Top(t))
  BY <1>1, <1>3 DEF HoldsRef, HoldsLock, InTa, Frees
<1>8. /\ ~(Top(t).op = "close" /\ Top(t).pc \in {"leave", "dec"})
      /\ ~(fr.op = "close" /\ fr.pc \in {"leave", "dec"})
  BY <1>1, <1>3
<1> QED BY <1>1, <1>2, <1>3, <1>4, <1>5, <1>6, <1>7, <1>8, PlainStep

\* The thread has left the TA: an open that failed or a TA that panicked goes
\* on to the end of the session, a call that succeeded gives its reference back.
LEMMA LeftStep ==
  ASSUME IInv, NEW t \in Threads, Left(t)
  PROVE  IInv'
<1> PICK x : x = Pos(t)
  OBVIOUS
<1>1. /\ stack[t] # << >> /\ Top(t).pc = "left" /\ Top(t) \in Call /\ ShapeOf(Top(t))
      /\ Frame(x) = Top(t) /\ CtxOf(x) /\ Top(t).op \in {"open", "invoke"}
  BY AtStep, OpAt DEF Left
<1>2. PICK fr \in Call :
        /\ Become(t, fr) /\ fr.op = Top(t).op /\ fr.s = Top(t).s /\ fr.own = Top(t).own
        /\ fr.c = Top(t).c
        /\ fr.pc = (IF fr.op = "invoke" /\ ctxs[fr.c].panicked THEN "destroy" ELSE "put")
  <2>1. CASE Top(t).op = "open"
    <3> DEFINE dead == ctxs[Top(t).c].panicked
               fr == [Top(t) EXCEPT !.pc = "put", !.res = IF dead THEN "dead" ELSE @]
    <3>1. fr \in Call /\ fr.op = "open" /\ fr.s = Top(t).s /\ fr.own = Top(t).own
          /\ fr.c = Top(t).c /\ fr.pc = "put"
      BY <1>1, <2>1, LocsAre DEF Call
    <3>2. Become(t, fr)
      BY <2>1 DEF Left
    <3> QED BY <2>1, <3>1, <3>2
  <2>2. CASE Top(t).op = "invoke"
    <3> DEFINE dead == ctxs[Top(t).c].panicked
               fr == [Top(t) EXCEPT !.pc = IF dead THEN "destroy" ELSE "put"]
    <3>1. fr \in Call /\ fr.op = "invoke" /\ fr.s = Top(t).s /\ fr.own = Top(t).own
          /\ fr.c = Top(t).c /\ fr.pc = IF dead THEN "destroy" ELSE "put"
      BY <1>1, <2>2, LocsAre DEF Call
    <3>2. Become(t, fr)
      BY <2>2 DEF Left, Goto
    <3> QED BY <2>2, <3>1, <3>2
  <2> QED BY <1>1, <2>1, <2>2
<1>3. fr.c # NoCtx
  BY <1>1, <1>2 DEF ShapeOf
<1>4. ShapeOf(fr)
  BY <1>1, <1>2, <1>3 DEF ShapeOf, Places
<1>5. CtxFor(x, fr)
  BY <1>1, <1>2 DEF CtxFor, CtxOf, InSession, Frees
<1>6. UNCHANGED tables
  BY DEF Left
<1> QED BY <1>1, <1>2, <1>4, <1>5, <1>6, PlainStep DEF HoldsRef, HoldsLock, InTa, Frees

\* What the session of a call that has it to itself is in is listed.
LEMMA SessionListed ==
  ASSUME IInv, NEW f \in Frames, Frame(f).op = "open" \/ HoldsLock(Frame(f)),
         ~Frees(Frame(f)), sess[Frame(f).s].ctx # NoCtx
  PROVE  sess[Frame(f).s].ctx \in Range(tee_ctxes) /\ sess[Frame(f).s].ctx \in CtxIds
<1>0. /\ Range(tee_ctxes) \subseteq CtxIds
      /\ Frame(f) \in Call
  BY FramesTypedNow DEF IInv, Types, Tables, Range, FramesTyped
<1>1. Frame(f).s \in SessIds /\ sess[Frame(f).s].live
  BY <1>0 DEF IInv, SessInv, RefInv, Listed, HoldsLock, HoldsRef, Call
<1>2. ASSUME NEW g \in Frames, Frame(g).s = Frame(f).s, Frame(g).op = "invoke",
             Frees(Frame(g))
      PROVE  FALSE
  <2>1. HoldsLock(Frame(g))
    BY <1>2 DEF HoldsLock, HoldsRef, Frees
  <2> QED BY <1>2, <2>1 DEF IInv, SessInv, OpenAlone, LockInv
<1> QED BY <1>0, <1>1, <1>2 DEF IInv, ContextInv, CtxInv, SessCtx

\* A call has its session: ctx and panicked are read without tee_ta_mutex, and
\* stay as they were because the call holds the session's lock.
LEMMA GotStep ==
  ASSUME IInv, NEW t \in Threads, Got(t)
  PROVE  IInv'
<1> PICK x : x = Pos(t)
  OBVIOUS
<1>1. /\ stack[t] # << >> /\ Top(t).pc = "got" /\ Top(t) \in Call /\ ShapeOf(Top(t))
      /\ x \in Frames /\ Frame(x) = Top(t) /\ CtxOf(x) /\ Top(t).op \in {"invoke", "close"}
  BY AtStep, OpAt DEF Got
<1> DEFINE c == sess[Top(t).s].ctx
           closing == Top(t).op = "close"
           loc == IF c = NoCtx THEN (IF closing THEN "unlink" ELSE "put")
                  ELSE IF ctxs[c].panicked THEN (IF closing THEN "unlink" ELSE "destroy")
                  ELSE "busy"
<1>2. c \in CtxIds \cup {NoCtx}
  BY <1>1 DEF IInv, Types, Tables, Session, Call
<1>3. PICK fr \in Call :
        /\ Become(t, fr) /\ fr.op = Top(t).op /\ fr.s = Top(t).s /\ fr.own = Top(t).own
        /\ fr.c = c /\ fr.pc = loc /\ fr.res = "dead"
  <2> DEFINE fr == [Top(t) EXCEPT !.c = c, !.res = "dead", !.pc = loc]
  <2>1. fr \in Call /\ fr.op = Top(t).op /\ fr.s = Top(t).s /\ fr.own = Top(t).own
        /\ fr.c = c /\ fr.pc = loc /\ fr.res = "dead"
    BY <1>1, <1>2, LocsAre DEF Call
  <2>2. Become(t, fr)
    BY DEF Got
  <2> QED BY <2>1, <2>2
<1>4. HoldsLock(Top(t)) /\ ~Frees(Top(t))
  BY <1>1 DEF HoldsLock, HoldsRef, Frees
<1>5. c # NoCtx => c \in Range(tee_ctxes)
  BY <1>1, <1>4, SessionListed
<1>6. ShapeOf(fr)
  BY <1>1, <1>3 DEF ShapeOf, Places
<1>7. CtxFor(x, fr)
  BY <1>3, <1>5 DEF CtxFor, Frees
<1>8. UNCHANGED tables
  BY DEF Got
<1> HIDE DEF c
<1> QED BY <1>1, <1>3, <1>4, <1>6, <1>7, <1>8, PlainStep DEF HoldsRef, HoldsLock, InTa, Frees

\* tee_ta_open_session() has a context and goes on to enter the TA; only this
\* call knows the session, so the context is still there.
LEMMA OpenedStep ==
  ASSUME IInv, NEW t \in Threads, Opened(t)
  PROVE  IInv'
<1> PICK x : x = Pos(t)
  OBVIOUS
<1>1. /\ stack[t] # << >> /\ Top(t).pc = "opened" /\ Top(t) \in Call /\ ShapeOf(Top(t))
      /\ x \in Frames /\ Frame(x) = Top(t) /\ CtxOf(x) /\ Top(t).op = "open"
  BY AtStep, OpAt DEF Opened
<1> DEFINE c == sess[Top(t).s].ctx
<1>2. c \in CtxIds /\ c # NoCtx /\ c \in Range(tee_ctxes) /\ ~ctxs[c].panicked
  BY <1>1, SessionListed DEF CtxOf, Frees
<1>3. PICK fr \in Call :
        /\ Become(t, fr) /\ fr.op = "open" /\ fr.s = Top(t).s /\ fr.own = Top(t).own
        /\ fr.c = c /\ fr.pc = "busy"
  <2> DEFINE fr == [Top(t) EXCEPT !.pc = "busy", !.c = c]
  <2>1. fr \in Call /\ fr.op = "open" /\ fr.s = Top(t).s /\ fr.own = Top(t).own
        /\ fr.c = c /\ fr.pc = "busy"
    BY <1>1, <1>2, LocsAre DEF Call
  <2>2. Become(t, fr)
    BY <1>2 DEF Opened
  <2> QED BY <2>1, <2>2
<1>6. ShapeOf(fr)
  BY <1>2, <1>3 DEF ShapeOf, Places
<1>7. CtxFor(x, fr)
  BY <1>2, <1>3 DEF CtxFor, Frees
<1>8. UNCHANGED tables
  BY DEF Opened
<1> HIDE DEF c
<1> QED BY <1>1, <1>3, <1>6, <1>7, <1>8, PlainStep DEF HoldsRef, HoldsLock, InTa, Frees

\* tee_ta_try_set_busy() refuses a thread that has the single-instance lock.
LEMMA SetBusyRefusesStep ==
  ASSUME IInv, NEW t \in Threads, SetBusyRefuses(t)
  PROVE  IInv'
<1> PICK x : x = Pos(t)
  OBVIOUS
<1>1. /\ stack[t] # << >> /\ Top(t).pc = "busy" /\ Top(t) \in Call /\ ShapeOf(Top(t))
      /\ Frame(x) = Top(t) /\ CtxOf(x)
  BY AtStep DEF SetBusyRefuses
<1>2. UNCHANGED tables
  BY DEF SetBusyRefuses
<1>3. CASE Top(t).op # "open"
  BY <1>2, <1>3, IdleStep DEF SetBusyRefuses
<1>4. CASE Top(t).op = "open"
  <2>1. PICK fr \in Call : fr = [Top(t) EXCEPT !.pc = "left", !.res = "dead"]
    BY <1>1, MovedCall, LocsAre
  <2>2. /\ fr.op = "open" /\ fr.pc = "left" /\ fr.s = Top(t).s /\ fr.own = Top(t).own
        /\ fr.c = Top(t).c /\ fr.c # NoCtx
    BY <1>1, <1>4, <2>1 DEF ShapeOf, Call
  <2>3. Become(t, fr)
    BY <1>4, <2>1 DEF SetBusyRefuses
  <2>4. ShapeOf(fr)
    BY <2>2 DEF ShapeOf, Places
  <2>5. CtxFor(x, fr)
    BY <1>1, <2>2 DEF CtxFor, CtxOf, InSession, Frees
  <2> QED BY <1>1, <1>2, <1>4, <2>2, <2>3, <2>4, <2>5, PlainStep
          DEF HoldsRef, HoldsLock, InTa, Frees
<1> QED BY <1>3, <1>4

\* destroy_context() destroys the condvar of a context that is off the list.
LEMMA DestroyCondvarStep ==
  ASSUME IInv, NEW t \in Threads, DestroyCondvar(t)
  PROVE  IInv'
<1> PICK x : x = Pos(t)
  OBVIOUS
<1>1. /\ stack[t] # << >> /\ Top(t).pc = "destroycv" /\ Top(t) \in Call /\ ShapeOf(Top(t))
      /\ Frame(x) = Top(t) /\ CtxOf(x) /\ Top(t).op \in {"invoke", "close"}
  BY AtStep, OpAt DEF DestroyCondvar
<1>2. UNCHANGED tables
  BY DEF DestroyCondvar
<1>3. CASE stack' = stack
  BY <1>2, <1>3, IdleStep
<1>4. CASE Goto(t, "free")
  <2>1. PICK fr \in Call : fr = [Top(t) EXCEPT !.pc = "free"]
    BY <1>1, MovedCall, LocsAre
  <2>2. /\ fr.op = Top(t).op /\ fr.pc = "free" /\ fr.s = Top(t).s /\ fr.own = Top(t).own
        /\ fr.c = Top(t).c /\ fr.c # NoCtx
    BY <1>1, <2>1 DEF ShapeOf, Call
  <2>3. Become(t, fr)
    BY <1>4, <2>1 DEF Goto
  <2>4. ShapeOf(fr)
    BY <1>1, <2>2 DEF ShapeOf, Places
  <2>5. CtxFor(x, fr)
    BY <1>1, <2>2 DEF CtxFor, InSession, Frees
  <2> QED BY <1>1, <1>2, <2>2, <2>3, <2>4, <2>5, PlainStep
          DEF HoldsRef, HoldsLock, InTa, Frees
<1> QED BY <1>3, <1>4 DEF DestroyCondvar

\* A step outside of the TAs, about a session and not about what it is in.
LEMMA OutsideStep ==
  ASSUME IInv, Types', NEW x, Moves(x), UNCHANGED << ctxs, tee_ctxes, single >>,
         \A s \in SessIds : sess'[s].live = sess[s].live /\ sess'[s].ctx = sess[s].ctx,
         (x \in Frames /\ InTa(Frame(x))) <=> (x \in Frames' /\ InTa(Frame(x)')),
         x \in Frames /\ InTa(Frame(x)) => x \in Frames' /\ Frame(x)'.c = Frame(x).c,
         x \in Frames => /\ ~Frees(Frame(x))
                         /\ ~(Frame(x).op = "close" /\ Frame(x).pc \in {"leave", "dec"}),
         x \in Frames' =>
           /\ ~Frees(Frame(x)') /\ Frame(x)'.pc \notin {"loading", "opened", "destroy", "busy"}
           /\ ~(Frame(x)'.op = "close" /\ Frame(x)'.pc \in {"leave", "dec"})
           /\ InSession(Frame(x)') => sess'[Frame(x)'.s].ctx = Frame(x)'.c
           /\ Frame(x)'.c \in {NoCtx} \cup Range(tee_ctxes)
  PROVE  TaInv' /\ ContextInv'
<1>1. TaInv'
  <2>1. SameInTas
    BY SameInTasStep
  <2>2. LoadedKept
    BY DEF LoadedKept
  <2> QED BY <2>1, <2>2, InTaEntered, TaQuiet DEF IInv
<1>2. ContextInv'
  <2>1. ContextsKept
    BY DEF ContextsKept
  <2>2. \A f \in Frames : f # x =>
          /\ Touches(Frame(f)) => sess'[Frame(f).s].ctx = sess[Frame(f).s].ctx
          /\ Frame(f).pc = "loading" => ctxs'[Frame(f).c].init /\ ~ctxs'[Frame(f).c].panicked
          /\ Frame(f).pc = "busy" => ~ctxs'[Frame(f).c].panicked
          /\ Frame(f).pc = "opened" => ~ctxs'[sess[Frame(f).s].ctx].panicked
    BY FramesTypedNow DEF IInv, ContextInv, CtxInv, CtxOf, FramesTyped, Call
  <2>3. \A c \in CtxIds : x \in Leavers(c)' <=> x \in Leavers(c)
    BY DEF Leavers
  <2>4. x \in Frames' => CtxOf(x)'
    <3>1. Range(tee_ctxes)' = Range(tee_ctxes)
      BY DEF Range
    <3> QED BY <3>1 DEF CtxOf
  <2> QED BY <2>1, <2>2, <2>3, <2>4, CtxQuiet DEF IInv
<1> QED BY <1>1, <1>2

\* A call takes a reference to its session or gives it back.
LEMMA RefMove ==
  ASSUME Types, Types', RefInv, NEW x \in Frames, Moves(x), NEW s \in SessIds, Frame(x).s = s,
         \A o \in SessIds \ {s} : sess'[o] = sess[o],
         sess[s].live, sess'[s].live, sess'[s].own = sess[s].own,
         sess'[s].refs + (IF HoldsRef(Frame(x)) THEN 1 ELSE 0)
           = sess[s].refs + (IF x \in Frames' /\ HoldsRef(Frame(x)') THEN 1 ELSE 0),
         x \in Frames' => Frame(x)'.s = s /\ Frame(x)'.own = sess[s].own
  PROVE  RefInv'
<1>1. sess[s].refs = Cardinality(Holders(s)) /\ sess[s].refs \in Nat
  BY DEF RefInv, Types, Tables, Session
<1>2. sess'[s].refs + (IF x \in Frames /\ HoldsRef(Frame(x)) THEN 1 ELSE 0)
        = Cardinality(Holders(s)) + (IF x \in Frames' /\ HoldsRef(Frame(x)') THEN 1 ELSE 0)
  BY <1>1
<1> QED BY <1>2, RefStep

\* tee_ta_get_session() finds no session: the call ends.
LEMMA GetNothingStep ==
  ASSUME IInv, NEW t \in Threads, GetNothing(t)
  PROVE  IInv'
<1> PICK x : x = Pos(t)
  OBVIOUS
<1>1. /\ stack[t] # << >> /\ Top(t).pc = "get" /\ Top(t) \in Call /\ ShapeOf(Top(t))
      /\ Frame(x) = Top(t) /\ CtxOf(x) /\ Top(t).op \in {"invoke", "close", "cancel"}
  BY AtStep, OpAt DEF GetNothing
<1>2. UNCHANGED tables /\ Return(t)
  BY DEF GetNothing
<1>3. x \in Frames /\ x \notin Frames' /\ Moves(x) /\ StackOK'
  BY <1>1, <1>2, ReturnStep DEF IInv, Types
<1>4. Types'
  BY <1>2, <1>3, TypesStep DEF IInv, Types, Tables, tables
<1>5. ~HoldsRef(Frame(x)) /\ ~InTa(Frame(x)) /\ ~Frees(Frame(x))
  BY <1>1 DEF HoldsRef, InTa, Frees
<1>6. SessInv'
  BY <1>2, <1>3, <1>4, <1>5, SessQuiet DEF IInv, SessKept, tables
<1>7. TaInv' /\ ContextInv'
  BY <1>1, <1>2, <1>3, <1>4, <1>5, OutsideStep DEF tables
<1> QED BY <1>4, <1>6, <1>7 DEF IInv

\* A session with one reference more or less, and another lock.
LEMMA SessionWith ==
  ASSUME NEW r \in Session, NEW lock \in Threads \cup {NoThread}
  PROVE  /\ r.refs \in Nat
         /\ [r EXCEPT !.refs = @ + 1, !.lock = lock] \in Session
         /\ r.refs # 0 => [r EXCEPT !.refs = @ - 1, !.lock = lock] \in Session
<1>1. r.refs \in Nat /\ r.refs + 1 \in Nat /\ (r.refs # 0 => r.refs - 1 \in Nat)
  BY DEF Session
<1> QED BY <1>1 DEF Session

\* The same with another flag.
LEMMA SessionHanded ==
  ASSUME NEW r \in Session, NEW h \in BOOLEAN
  PROVE  [r EXCEPT !.handed = h] \in Session
BY DEF Session

\* tee_ta_get_session() takes a reference, and the lock if it is free.
LEMMA GetStep ==
  ASSUME IInv, NEW t \in Threads, Get(t)
  PROVE  IInv'
<1> PICK x : x = Pos(t)
  OBVIOUS
<1>1. /\ stack[t] # << >> /\ Top(t).pc = "get" /\ Top(t) \in Call /\ ShapeOf(Top(t))
      /\ x \in Frames /\ x[1] = t
      /\ Frame(x) = Top(t) /\ CtxOf(x) /\ Top(t).op \in {"invoke", "close", "cancel"}
  BY AtStep, OpAt DEF Get
<1> PICK s \in SessIds : s = Top(t).s
  BY <1>1 DEF Call
<1>2. /\ UNCHANGED << ctxs, tee_ctxes, single >>
      /\ sess[s].live /\ sess[s].own = Top(t).own
  BY DEF Get, Listed
<1>3. PICK lock \in Threads \cup {NoThread}, loc \in {"put", "got", "getwait"} :
        /\ sess' = [sess EXCEPT ![s].refs = @ + 1, ![s].lock = lock] /\ Goto(t, loc)
        /\ loc = "put" => Top(t).op = "cancel" /\ lock = sess[s].lock
        /\ loc = "got" => Top(t).op # "cancel" /\ sess[s].lock = NoThread /\ lock = t
        /\ loc = "getwait" => Top(t).op # "cancel" /\ lock = sess[s].lock
  <2>1. sess[s] \in Session /\ sess \in [SessIds -> Session]
    BY DEF IInv, Types, Tables
  <2>2. CASE Top(t).op = "cancel"
    <3>1. sess' = [sess EXCEPT ![s].refs = @ + 1] /\ Goto(t, "put")
      BY <2>2 DEF Get
    <3> QED BY <2>1, <2>2, <3>1 DEF Session
  <2>3. CASE Top(t).op # "cancel" /\ sess[s].lock = NoThread
    <3>1. sess' = [[sess EXCEPT ![s].refs = @ + 1] EXCEPT ![s].lock = t] /\ Goto(t, "got")
      BY <2>3 DEF Get
    <3> QED BY <2>1, <2>3, <3>1 DEF Session
  <2>4. CASE Top(t).op # "cancel" /\ sess[s].lock # NoThread
    <3>1. sess' = [sess EXCEPT ![s].refs = @ + 1] /\ Goto(t, "getwait")
      BY <2>4 DEF Get
    <3> QED BY <2>1, <2>4, <3>1 DEF Session
  <2> QED BY <2>2, <2>3, <2>4
<1>4. sess \in [SessIds -> Session] /\ sess' \in [SessIds -> Session]
  <2>1. sess \in [SessIds -> Session] /\ sess[s] \in Session
    BY DEF IInv, Types, Tables
  <2>2. [sess[s] EXCEPT !.refs = @ + 1, !.lock = lock] \in Session
    BY <2>1, SessionWith
  <2> QED BY <1>3, <2>1, <2>2
<1>5. /\ \A o \in SessIds \ {s} : sess'[o] = sess[o]
      /\ sess'[s].live = sess[s].live /\ sess'[s].own = sess[s].own
      /\ sess'[s].ctx = sess[s].ctx /\ sess'[s].refs = sess[s].refs + 1
      /\ sess'[s].lock = lock /\ sess'[s].handed = sess[s].handed
  BY <1>3, <1>4 DEF Session
<1>6. PICK fr \in Call :
        /\ Become(t, fr) /\ fr.op = Top(t).op /\ fr.pc = loc /\ fr.s = s
        /\ fr.own = Top(t).own /\ fr.c = NoCtx
  <2> DEFINE fr == [Top(t) EXCEPT !.pc = loc]
  <2>1. fr \in Call /\ fr.op = Top(t).op /\ fr.pc = loc /\ fr.s = s
        /\ fr.own = Top(t).own /\ fr.c = NoCtx
    BY <1>1, LocsAre DEF Call, ShapeOf
  <2>2. Become(t, fr)
    BY <1>3 DEF Goto
  <2> QED BY <2>1, <2>2
<1>7. /\ x \in Frames' /\ Frame(x)' = fr /\ Moves(x) /\ StackOK'
  BY <1>1, <1>6, BecomeStep DEF IInv, Types
<1>8. ShapeOf(fr)
  BY <1>1, <1>3, <1>6 DEF ShapeOf, Places
<1>9. Types'
  BY <1>2, <1>4, <1>7, <1>8, TypesStep DEF IInv, Types, Tables
<1>10. /\ ~HoldsRef(Frame(x)) /\ ~HoldsLock(Frame(x)) /\ ~InTa(Frame(x)) /\ ~Frees(Frame(x))
       /\ HoldsRef(fr) /\ ~InTa(fr) /\ ~Frees(fr) /\ ~InSession(fr)
       /\ HoldsLock(fr) <=> loc = "got"
  BY <1>1, <1>3, <1>6 DEF HoldsRef, HoldsLock, InTa, Frees, InSession
<1>11. RefInv'
  <2>1. RefInv /\ Types
    BY DEF IInv, SessInv
  <2>2. HoldsRef(Frame(x)') /\ Frame(x)'.s = s /\ Frame(x)'.own = sess[s].own
        /\ sess'[s].refs + (IF HoldsRef(Frame(x)) THEN 1 ELSE 0)
             = sess[s].refs + (IF x \in Frames' /\ HoldsRef(Frame(x)') THEN 1 ELSE 0)
    BY <1>2, <1>4, <1>5, <1>6, <1>7, <1>10 DEF Session
  <2> QED BY <1>1, <1>2, <1>5, <1>7, <1>9, <1>10, <2>1, <2>2, RefMove
<1>12. OpenAlone'
  <2>1. \A f \in Frames : f # x /\ Frame(f).op = "open" => Frame(f).s # s /\ Frame(f).s \in SessIds
                             /\ ~sess[Frame(f).s].handed
    BY <1>1, FramesTypedNow DEF IInv, SessInv, OpenAlone, FramesTyped, Call
  <2> QED BY <1>1, <1>5, <1>6, <1>7, <1>9, <2>1, OpenAloneStep DEF IInv, SessInv
<1>13. LockInv'
  <2>1. \A f \in Frames : HoldsLock(Frame(f)) /\ Frame(f).s = s =>
          sess[s].lock = f[1] /\ sess[s].lock # NoThread
    BY FramesTypedNow, SessionsAssumption DEF IInv, SessInv, LockInv, FramesTyped
  <2>2. sess[s].lock # NoThread => \E f \in Frames : Frame(f).s = s /\ HoldsLock(Frame(f))
    BY DEF IInv, SessInv, LockInv
  <2>3. /\ \A o \in SessIds \ {s} : sess'[o].lock = sess[o].lock
        /\ ~HoldsLock(Frame(x)) /\ Frame(x)'.s = s
        /\ HoldsLock(Frame(x)') <=> loc = "got"
        /\ loc = "got" => sess[s].lock = NoThread /\ sess'[s].lock = t /\ x[1] = t
        /\ loc # "got" => sess'[s].lock = sess[s].lock
    BY <1>1, <1>3, <1>5, <1>6, <1>7, <1>10
  <2> QED BY <1>7, <1>9, <2>1, <2>2, <2>3, LockStep DEF IInv, SessInv
<1>14. TaInv' /\ ContextInv'
  BY <1>1, <1>2, <1>3, <1>5, <1>6, <1>7, <1>9, <1>10, OutsideStep
<1> QED BY <1>9, <1>11, <1>12, <1>13, <1>14 DEF IInv, SessInv

\* A call that holds a reference is counted.
LEMMA RefPositive ==
  ASSUME IInv, NEW f \in Frames, HoldsRef(Frame(f))
  PROVE  /\ Frame(f).s \in SessIds /\ sess[Frame(f).s].live
         /\ sess[Frame(f).s].own = Frame(f).own
         /\ sess[Frame(f).s].refs \in Nat /\ sess[Frame(f).s].refs # 0
         /\ sess[Frame(f).s].refs = Cardinality(Holders(Frame(f).s))
         /\ IsFiniteSet(Holders(Frame(f).s)) /\ f \in Holders(Frame(f).s)
<1>1. Frame(f) \in Call /\ IsFiniteSet(Frames)
  BY FramesTypedNow DEF IInv, FramesTyped
<1>2. /\ Frame(f).s \in SessIds /\ sess[Frame(f).s].live
      /\ sess[Frame(f).s].own = Frame(f).own
      /\ sess[Frame(f).s].refs = Cardinality(Holders(Frame(f).s))
  BY <1>1 DEF IInv, SessInv, RefInv, Listed, Call
<1>3. f \in Holders(Frame(f).s) /\ Holders(Frame(f).s) \subseteq Frames
  BY DEF Holders
<1>4. IsFiniteSet(Holders(Frame(f).s))
  BY <1>1, <1>3, FS_Subset
<1> QED BY <1>2, <1>3, <1>4, FS_EmptySet, FS_CardinalityType

\* tee_ta_get_session() after a wait: it takes the lock, or gives its reference
\* back when the session is being unlinked.
LEMMA GetAgainStep ==
  ASSUME IInv, NEW t \in Threads, GetAgain(t)
  PROVE  IInv'
<1> PICK x : x = Pos(t)
  OBVIOUS
<1>0. Types /\ RefInv /\ OpenAlone /\ LockInv
  BY DEF IInv, SessInv
<1>1. /\ stack[t] # << >> /\ Top(t).pc = "getwait" /\ Top(t) \in Call /\ ShapeOf(Top(t))
      /\ x \in Frames /\ x[1] = t
      /\ Frame(x) = Top(t) /\ CtxOf(x) /\ Top(t).op \in {"invoke", "close"} /\ Top(t).c = NoCtx
  BY AtStep, OpAt DEF GetAgain, ShapeOf
<1> PICK s \in SessIds : s = Top(t).s
  BY <1>1 DEF Call
<1>2. UNCHANGED << ctxs, tee_ctxes, single >>
  BY DEF GetAgain
<1>3. /\ HoldsRef(Frame(x)) /\ ~HoldsLock(Frame(x)) /\ ~InTa(Frame(x)) /\ ~Frees(Frame(x))
  BY <1>1 DEF HoldsRef, HoldsLock, InTa, Frees
<1>4. /\ sess[s].live /\ sess[s].own = Top(t).own /\ sess[s].refs # 0
      /\ sess \in [SessIds -> Session] /\ sess[s] \in Session
  BY <1>1, <1>3, RefPositive DEF IInv, Types, Tables
<1>5. \A f \in Frames : f # x /\ Frame(f).op = "open" =>
         Frame(f).s # s /\ Frame(f).s \in SessIds /\ ~sess[Frame(f).s].handed
  BY <1>0, <1>1, FramesTypedNow DEF OpenAlone, FramesTyped, Call
<1>6. /\ \A f \in Frames : HoldsLock(Frame(f)) /\ Frame(f).s = s =>
           sess[s].lock = f[1] /\ sess[s].lock # NoThread
      /\ sess[s].lock # NoThread => \E f \in Frames : Frame(f).s = s /\ HoldsLock(Frame(f))
  BY <1>0, FramesTypedNow, SessionsAssumption DEF LockInv, FramesTyped
<1>7. CASE sess[s].unlink
  <2>1. sess' = [sess EXCEPT ![s].refs = @ - 1] /\ Return(t)
    BY <1>7 DEF GetAgain, DecRef
  <2>2. sess' = [sess EXCEPT ![s].refs = @ - 1, ![s].lock = sess[s].lock]
    BY <1>4, <2>1 DEF Session
  <2>3. sess' \in [SessIds -> Session]
    <3>1. sess[s].lock \in Threads \cup {NoThread}
      BY <1>4 DEF Session
    <3>2. [sess[s] EXCEPT !.refs = @ - 1, !.lock = sess[s].lock] \in Session
      BY <1>4, <3>1, SessionWith
    <3> QED BY <1>4, <2>2, <3>2
  <2>4. /\ \A o \in SessIds \ {s} : sess'[o] = sess[o]
        /\ sess'[s].live = sess[s].live /\ sess'[s].own = sess[s].own
        /\ sess'[s].ctx = sess[s].ctx /\ sess'[s].refs = sess[s].refs - 1
        /\ sess'[s].lock = sess[s].lock /\ sess'[s].handed = sess[s].handed
    BY <1>4, <2>1 DEF Session
  <2>5. x \notin Frames' /\ Moves(x) /\ StackOK'
    BY <1>0, <1>1, <2>1, ReturnStep DEF Types
  <2>6. Types'
    BY <1>0, <1>2, <2>3, <2>5, TypesStep DEF Types, Tables
  <2>7. sess'[s].refs + (IF HoldsRef(Frame(x)) THEN 1 ELSE 0)
             = sess[s].refs + (IF x \in Frames' /\ HoldsRef(Frame(x)') THEN 1 ELSE 0)
    BY <1>3, <1>4, <2>4, <2>5 DEF Session
  <2>8. RefInv'
    BY <1>0, <1>1, <1>4, <2>4, <2>5, <2>6, <2>7, RefMove
  <2>9. OpenAlone'
    BY <1>0, <1>5, <2>4, <2>5, <2>6, OpenAloneStep
  <2>10. LockInv'
    BY <1>0, <1>3, <1>6, <2>4, <2>5, <2>6, LockStep
  <2>11. TaInv' /\ ContextInv'
    BY <1>1, <1>2, <1>3, <2>4, <2>5, <2>6, OutsideStep
  <2> QED BY <2>6, <2>8, <2>9, <2>10, <2>11 DEF IInv, SessInv
<1>8. CASE ~sess[s].unlink /\ sess[s].lock = NoThread
  <2>1. sess' = [sess EXCEPT ![s].lock = t] /\ Goto(t, "got")
    BY <1>8 DEF GetAgain
  <2>3. sess' \in [SessIds -> Session]
    BY <1>4, <2>1 DEF Session
  <2>4. /\ \A o \in SessIds \ {s} : sess'[o] = sess[o]
        /\ sess'[s].live = sess[s].live /\ sess'[s].own = sess[s].own
        /\ sess'[s].ctx = sess[s].ctx /\ sess'[s].refs = sess[s].refs
        /\ sess'[s].lock = t /\ sess'[s].handed = sess[s].handed
    BY <1>4, <2>1 DEF Session
  <2>5. PICK fr \in Call :
          /\ Become(t, fr) /\ fr.op = Top(t).op /\ fr.pc = "got" /\ fr.s = s
          /\ fr.own = Top(t).own /\ fr.c = NoCtx
    <3> DEFINE fr == [Top(t) EXCEPT !.pc = "got"]
    <3>1. fr \in Call /\ fr.op = Top(t).op /\ fr.pc = "got" /\ fr.s = s
          /\ fr.own = Top(t).own /\ fr.c = NoCtx
      BY <1>1, LocsAre DEF Call
    <3> QED BY <2>1, <3>1 DEF Goto
  <2>6. /\ x \in Frames' /\ Frame(x)' = fr /\ Moves(x) /\ StackOK'
    BY <1>0, <1>1, <2>5, BecomeStep DEF Types
  <2>7. ShapeOf(fr)
    BY <1>1, <2>5 DEF ShapeOf, Places
  <2>8. Types'
    BY <1>0, <1>2, <2>3, <2>6, <2>7, TypesStep DEF Types, Tables
  <2>9. HoldsRef(fr) /\ HoldsLock(fr) /\ ~InTa(fr) /\ ~Frees(fr) /\ ~InSession(fr)
    BY <1>1, <2>5 DEF HoldsRef, HoldsLock, InTa, Frees, InSession
  <2>10. sess'[s].refs + (IF HoldsRef(Frame(x)) THEN 1 ELSE 0)
             = sess[s].refs + (IF x \in Frames' /\ HoldsRef(Frame(x)') THEN 1 ELSE 0)
    BY <1>3, <2>4, <2>6, <2>9
  <2>11. RefInv'
    BY <1>0, <1>1, <1>4, <2>4, <2>5, <2>6, <2>8, <2>10, RefMove
  <2>12. OpenAlone'
    BY <1>0, <1>1, <1>5, <2>4, <2>5, <2>6, <2>8, OpenAloneStep
  <2>13. LockInv'
    <3>1. \A f \in Frames : Frame(f).s = s => ~HoldsLock(Frame(f))
      BY <1>6, <1>8
    <3>2. Frame(x)'.s = s /\ sess'[s].lock = x[1] /\ x \in Frames'
          /\ HoldsLock(Frame(x)') /\ \A o \in SessIds \ {s} : sess'[o].lock = sess[o].lock
      BY <1>1, <2>4, <2>5, <2>6, <2>9
    <3> QED BY <1>0, <1>3, <2>6, <2>8, <3>1, <3>2, LockStep
  <2>14. TaInv' /\ ContextInv'
    BY <1>1, <1>2, <1>3, <2>4, <2>5, <2>6, <2>8, <2>9, OutsideStep
  <2> QED BY <2>8, <2>11, <2>12, <2>13, <2>14 DEF IInv, SessInv
<1>9. CASE ~sess[s].unlink /\ sess[s].lock # NoThread
  BY <1>2, <1>9, IdleStep DEF GetAgain, tables
<1> QED BY <1>7, <1>8, <1>9

\* tee_ta_put_session() gives the reference back and, for an invocation, the
\* lock; an open that succeeded hands the session to its client, one that
\* failed goes on to close it.
LEMMA PutStep ==
  ASSUME IInv, NEW t \in Threads, Put(t)
  PROVE  IInv'
<1> PICK x : x = Pos(t)
  OBVIOUS
<1>0. Types /\ RefInv /\ OpenAlone /\ LockInv
  BY DEF IInv, SessInv
<1>1. /\ stack[t] # << >> /\ Top(t).pc = "put" /\ Top(t) \in Call /\ ShapeOf(Top(t))
      /\ x \in Frames /\ x[1] = t
      /\ Frame(x) = Top(t) /\ CtxOf(x) /\ Top(t).op \in {"open", "invoke", "cancel"}
  BY AtStep, OpAt DEF Put
<1> PICK s \in SessIds : s = Top(t).s
  BY <1>1 DEF Call
<1>2. UNCHANGED << ctxs, tee_ctxes, single >>
  BY DEF Put
<1>3. /\ HoldsRef(Frame(x)) /\ ~InTa(Frame(x)) /\ ~Frees(Frame(x))
      /\ HoldsLock(Frame(x)) <=> Top(t).op = "invoke"
  BY <1>1 DEF HoldsRef, HoldsLock, InTa, Frees
<1>4. /\ sess[s].live /\ sess[s].own = Top(t).own /\ sess[s].refs # 0
      /\ sess \in [SessIds -> Session] /\ sess[s] \in Session
  BY <1>1, <1>3, RefPositive DEF IInv, Types, Tables
<1>5. \A f \in Frames : f # x /\ Frame(f).op = "open" =>
         Frame(f).s # s /\ Frame(f).s \in SessIds /\ ~sess[Frame(f).s].handed
  BY <1>0, <1>1, FramesTypedNow DEF OpenAlone, FramesTyped, Call
<1>6. /\ \A f \in Frames : HoldsLock(Frame(f)) /\ Frame(f).s = s =>
           sess[s].lock = f[1] /\ sess[s].lock # NoThread
      /\ sess[s].lock # NoThread => \E f \in Frames : Frame(f).s = s /\ HoldsLock(Frame(f))
  BY <1>0, FramesTypedNow, SessionsAssumption DEF LockInv, FramesTyped
<1>7. sess[s].lock = t <=> Top(t).op = "invoke"
  <2>1. CASE Top(t).op = "invoke"
    BY <1>1, <1>3, <1>6, <2>1
  <2>2. CASE Top(t).op = "open"
    <3>1. \A f \in Frames : Frame(f).s = s => f = x
      BY <1>0, <1>1, <2>2 DEF OpenAlone
    <3> QED BY <1>3, <1>6, <2>2, <3>1, SessionsAssumption
  <2>3. CASE Top(t).op = "cancel"
    <3>1. Frame(x).own = Nsec /\ Frame(x).pc \notin {"run", "free"}
      BY <1>1, <2>3 DEF ShapeOf
    <3>2. \A f \in Frames : f[1] = x[1] => f = x
      BY <1>0, <1>1, <3>1, CancelAlone DEF Types
    <3> QED BY <1>1, <1>3, <1>6, <2>3, <3>2, SessionsAssumption
  <2> QED BY <1>1, <2>1, <2>2, <2>3
<1> DEFINE opened == Top(t).op = "open" /\ Top(t).res = "ok"
           lock == IF Top(t).op = "invoke" THEN NoThread ELSE sess[s].lock
<1>8. sess' = [sess EXCEPT ![s].refs = @ - 1, ![s].lock = lock, ![s].handed = @ \/ opened]
  <2>1. CASE Top(t).op = "invoke"
    <3>1. sess' = [[[sess EXCEPT ![s].lock = NoThread] EXCEPT ![s].refs = @ - 1]
                     EXCEPT ![s].handed = @ \/ opened]
      BY <1>7, <2>1 DEF Put, DecRef
    <3> QED BY <1>4, <2>1, <3>1 DEF Session
  <2>2. CASE Top(t).op # "invoke"
    <3>1. sess' = [[sess EXCEPT ![s].refs = @ - 1] EXCEPT ![s].handed = @ \/ opened]
      BY <1>7, <2>2 DEF Put, DecRef
    <3> QED BY <1>4, <2>2, <3>1 DEF Session
  <2> QED BY <2>1, <2>2
<1>9. lock \in Threads \cup {NoThread}
  BY <1>4 DEF Session
<1>10. sess' \in [SessIds -> Session]
  <2>1. [sess[s] EXCEPT !.refs = @ - 1, !.lock = lock] \in Session
    BY <1>4, <1>9, SessionWith
  <2> PICK r \in Session : r = [sess[s] EXCEPT !.refs = @ - 1, !.lock = lock]
    BY <2>1
  <2>2. [r EXCEPT !.handed = sess[s].handed \/ opened] \in Session
    <3>1. (sess[s].handed \/ opened) \in BOOLEAN
      OBVIOUS
    <3>2. \A h \in BOOLEAN : [r EXCEPT !.handed = h] \in Session
      BY SessionHanded
    <3> HIDE DEF opened
    <3> QED BY <3>1, <3>2
  <2>3. sess' = [sess EXCEPT ![s] = [r EXCEPT !.handed = sess[s].handed \/ opened]]
    BY <1>4, <1>8 DEF Session
  <2> QED BY <1>4, <2>2, <2>3
<1>11. /\ \A o \in SessIds \ {s} : sess'[o] = sess[o]
       /\ sess'[s].live = sess[s].live /\ sess'[s].own = sess[s].own
       /\ sess'[s].ctx = sess[s].ctx /\ sess'[s].refs = sess[s].refs - 1
       /\ sess'[s].lock = lock
  BY <1>4, <1>8 DEF Session
<1> HIDE DEF opened
<1>12. \/ Return(t)
       \/ \E fr \in Call :
            /\ Become(t, fr) /\ fr.op = "close" /\ fr.pc = "get" /\ fr.s = s
            /\ fr.own = Top(t).own /\ fr.c = NoCtx
  <2>1. CASE Top(t).op = "open" /\ ~opened
    <3> DEFINE fr == [Top(t) EXCEPT !.op = "close", !.pc = "get", !.c = NoCtx]
    <3>1. fr \in Call /\ fr.op = "close" /\ fr.pc = "get" /\ fr.s = s
          /\ fr.own = Top(t).own /\ fr.c = NoCtx
      BY <1>1, LocsAre DEF Call, Places
    <3>2. Become(t, fr)
      BY <2>1 DEF Put, opened
    <3> QED BY <3>1, <3>2
  <2>2. CASE ~(Top(t).op = "open" /\ ~opened)
    BY <2>2 DEF Put, opened
  <2> QED BY <2>1, <2>2
<1>13. /\ Moves(x) /\ StackOK'
       /\ x \in Frames' =>
            /\ Frame(x)'.op = "close" /\ Frame(x)'.pc = "get" /\ Frame(x)'.s = s
            /\ Frame(x)'.own = Top(t).own /\ Frame(x)'.c = NoCtx
  <2>1. CASE Return(t)
    BY <1>0, <1>1, <2>1, ReturnStep DEF Types
  <2>2. CASE ~Return(t)
    <3> PICK fr \in Call : /\ Become(t, fr) /\ fr.op = "close" /\ fr.pc = "get" /\ fr.s = s
                           /\ fr.own = Top(t).own /\ fr.c = NoCtx
      BY <1>12, <2>2
    <3> QED BY <1>0, <1>1, BecomeStep DEF Types
  <2> QED BY <2>1, <2>2
<1>14. Types'
  <2>1. x \in Frames' => ShapeOf(Frame(x)')
    BY <1>13 DEF ShapeOf, Places
  <2> QED BY <1>0, <1>2, <1>10, <1>13, <2>1, TypesStep DEF Types, Tables
<1>15. x \in Frames' =>
         /\ ~HoldsRef(Frame(x)') /\ ~HoldsLock(Frame(x)') /\ ~InTa(Frame(x)')
         /\ ~Frees(Frame(x)') /\ ~InSession(Frame(x)')
  BY <1>13 DEF HoldsRef, HoldsLock, InTa, Frees, InSession
<1>16. RefInv'
  <2>1. sess'[s].refs + (IF HoldsRef(Frame(x)) THEN 1 ELSE 0)
          = sess[s].refs + (IF x \in Frames' /\ HoldsRef(Frame(x)') THEN 1 ELSE 0)
    BY <1>3, <1>4, <1>11, <1>15 DEF Session
  <2> QED BY <1>0, <1>1, <1>4, <1>11, <1>13, <1>14, <2>1, RefMove
<1>17. OpenAlone'
  BY <1>0, <1>5, <1>11, <1>13, <1>14, OpenAloneStep
<1>18. LockInv'
  <2>1. \A f \in Frames : f # x /\ HoldsLock(Frame(f)) /\ Frame(f).s = s =>
          sess'[s].lock = f[1]
    BY <1>0, <1>1, <1>3, <1>6, <1>11 DEF LockInv
  <2>2. sess'[s].lock # NoThread =>
          \E f \in Frames : f # x /\ HoldsLock(Frame(f)) /\ Frame(f).s = s
    BY <1>3, <1>6, <1>11
  <2>3. \A o \in SessIds \ {s} : sess'[o].lock = sess[o].lock
    BY <1>11
  <2> HIDE DEF lock
  <2> QED BY <1>0, <1>1, <1>13, <1>14, <1>15, <2>1, <2>2, <2>3, LockStep
<1>19. TaInv' /\ ContextInv'
  BY <1>1, <1>2, <1>3, <1>11, <1>13, <1>14, <1>15, OutsideStep
<1> QED BY <1>14, <1>16, <1>17, <1>18, <1>19 DEF IInv, SessInv

\* A session with one reference has one call that holds one.
LEMMA LastRef ==
  ASSUME IInv, NEW x \in Frames, HoldsRef(Frame(x)), sess[Frame(x).s].refs = 1,
         NEW f \in Frames, HoldsRef(Frame(f)), Frame(f).s = Frame(x).s
  PROVE  f = x
<1>1. f \in Holders(Frame(x).s)
  BY DEF Holders
<1>2. /\ x \in Holders(Frame(x).s) /\ IsFiniteSet(Holders(Frame(x).s))
      /\ Cardinality(Holders(Frame(x).s)) = 1
  BY RefPositive
<1> QED BY <1>1, <1>2, One

\* tee_ta_unlink_session() with the last reference: the session is removed and
\* freed, which no other call can have in its hands.
LEMMA RemovedStep ==
  ASSUME IInv, NEW t \in Threads, NEW x, x = Pos(t), stack[t] # << >>,
         Top(t).pc \in {"unlink", "unlinkwait"}, sess[Top(t).s].refs = 1,
         sess' = [sess EXCEPT ![Top(t).s] = FreeSession],
         IF Top(t).c = NoCtx THEN Return(t)
         ELSE Goto(t, IF Top(t).res = "dead" THEN "dec" ELSE "leave"),
         UNCHANGED << ctxs, tee_ctxes, single >>
  PROVE  IInv'
<1>0. Types /\ RefInv /\ OpenAlone /\ LockInv
  BY DEF IInv, SessInv
<1>1. /\ x \in Frames /\ Frame(x) = Top(t) /\ Top(t) \in Call /\ ShapeOf(Top(t)) /\ x[1] = t
      /\ CtxOf(x) /\ Top(t).op = "close"
  BY <1>0, Here, OpAt DEF IInv, ContextInv, CtxInv
<1> PICK s \in SessIds : s = Top(t).s
  BY <1>1 DEF Call
<1>2. /\ HoldsRef(Frame(x)) /\ HoldsLock(Frame(x)) /\ ~Frees(Frame(x)) /\ InSession(Frame(x))
      /\ InTa(Frame(x)) <=> Top(t).res # "dead"
  BY <1>1 DEF HoldsRef, HoldsLock, Frees, InSession, InTa
<1>3. \A f \in Frames : f # x /\ Frame(f).s = s => ~HoldsRef(Frame(f))
  BY <1>1, <1>2, LastRef
<1>4. sess \in [SessIds -> Session] /\ sess[s].live /\ sess[s].ctx = Top(t).c
  BY <1>1, <1>2, RefPositive DEF IInv, Types, Tables, CtxOf
<1>5. /\ sess' \in [SessIds -> Session] /\ sess'[s] = FreeSession
      /\ \A o \in SessIds \ {s} : sess'[o] = sess[o]
      /\ ~sess'[s].live /\ sess'[s].lock = NoThread /\ sess'[s].ctx = NoCtx
  <2>1. FreeSession \in Session
    BY DEF FreeSession, Session
  <2> QED BY <1>4, <2>1 DEF FreeSession
<1> DEFINE loc == IF Top(t).res = "dead" THEN "dec" ELSE "leave"
<1>6. Top(t).c # NoCtx => \E fr \in Call :
        /\ Become(t, fr) /\ fr.op = "close" /\ fr.pc = loc /\ fr.s = s
        /\ fr.own = Top(t).own /\ fr.c = Top(t).c
  <2> SUFFICES ASSUME Top(t).c # NoCtx
               PROVE  \E fr \in Call :
                        /\ Become(t, fr) /\ fr.op = "close" /\ fr.pc = loc /\ fr.s = s
                        /\ fr.own = Top(t).own /\ fr.c = Top(t).c
    OBVIOUS
  <2> DEFINE fr == [Top(t) EXCEPT !.pc = loc]
  <2>1. fr \in Call /\ fr.op = "close" /\ fr.pc = loc /\ fr.s = s
        /\ fr.own = Top(t).own /\ fr.c = Top(t).c
    BY <1>1, LocsAre DEF Call
  <2>2. Become(t, fr)
    BY DEF Goto
  <2> QED BY <2>1, <2>2
<1>7. /\ Moves(x) /\ StackOK'
      /\ x \in Frames' <=> Top(t).c # NoCtx
      /\ x \in Frames' =>
           /\ Frame(x)'.op = "close" /\ Frame(x)'.pc = loc /\ Frame(x)'.s = s
           /\ Frame(x)'.own = Top(t).own /\ Frame(x)'.c = Top(t).c
  <2>1. CASE Top(t).c = NoCtx
    BY <1>0, <2>1, ReturnStep DEF Types
  <2>2. CASE Top(t).c # NoCtx
    <3> PICK fr \in Call : /\ Become(t, fr) /\ fr.op = "close" /\ fr.pc = loc /\ fr.s = s
                           /\ fr.own = Top(t).own /\ fr.c = Top(t).c
      BY <1>6, <2>2
    <3> QED BY <1>0, <1>1, <2>2, BecomeStep DEF Types
  <2> QED BY <2>1, <2>2
<1>8. Types'
  <2>1. x \in Frames' => ShapeOf(Frame(x)')
    BY <1>7 DEF ShapeOf, Places
  <2> QED BY <1>0, <1>5, <1>7, <2>1, TypesStep DEF Types, Tables
<1>9. /\ x \in Frames' => ~HoldsRef(Frame(x)') /\ ~HoldsLock(Frame(x)') /\ ~Frees(Frame(x)')
                          /\ ~InSession(Frame(x)')
      /\ x \in Frames' => (InTa(Frame(x)') <=> Top(t).res # "dead")
  BY <1>7 DEF HoldsRef, HoldsLock, InTa, Frees, InSession
<1>10. RefInv'
  BY <1>0, <1>1, <1>3, <1>5, <1>7, <1>8, <1>9, RefStep
<1>11. OpenAlone'
  <2>1. \A f \in Frames : f # x /\ Frame(f).op = "open" =>
          Frame(f).s # s /\ Frame(f).s \in SessIds /\ ~sess[Frame(f).s].handed
    BY <1>0, <1>1, FramesTypedNow DEF OpenAlone, FramesTyped, Call
  <2> QED BY <1>0, <1>5, <1>7, <1>8, <2>1, OpenAloneStep
<1>12. LockInv'
  <2>1. \A f \in Frames : f # x /\ Frame(f).s = s => ~HoldsLock(Frame(f))
    BY <1>3 DEF HoldsLock
  <2>2. \A o \in SessIds \ {s} : sess'[o].lock = sess[o].lock
    BY <1>5
  <2> QED BY <1>0, <1>1, <1>5, <1>7, <1>8, <1>9, <2>1, <2>2, LockStep
<1>13. TaInv'
  <2>1. InTa(Frame(x)) => Top(t).c # NoCtx
    BY <1>1 DEF InTa, ShapeOf
  <2>2. SameInTas
    BY <1>1, <1>2, <1>7, <1>9, <2>1, SameInTasStep
  <2>3. LoadedKept
    BY DEF LoadedKept
  <2> QED BY <2>2, <2>3, InTaEntered, TaQuiet DEF IInv
<1>14. \A f \in Frames : f # x => (Frame(f).s = s => ~Touches(Frame(f)))
  BY <1>3, FramesTypedNow, TouchesHolds, <1>0 DEF FramesTyped, Call
<1>15. ContextInv'
  <2>1. CASE Top(t).c = NoCtx
    <3>1. ContextsKept
      BY <1>4, <1>5, <2>1 DEF ContextsKept, CtxIds, NoCtx
    <3>2. \A f \in Frames : f # x =>
            /\ Touches(Frame(f)) => sess'[Frame(f).s].ctx = sess[Frame(f).s].ctx
            /\ Frame(f).pc = "loading" => ctxs'[Frame(f).c].init /\ ~ctxs'[Frame(f).c].panicked
            /\ Frame(f).pc = "busy" => ~ctxs'[Frame(f).c].panicked
            /\ Frame(f).pc = "opened" => ~ctxs'[sess[Frame(f).s].ctx].panicked
      BY <1>0, <1>5, <1>14, FramesTypedNow
      DEF IInv, ContextInv, CtxInv, CtxOf, FramesTyped, Call
    <3>3. \A c \in CtxIds : x \in Leavers(c)' <=> x \in Leavers(c)
      BY <1>1, <1>7, <2>1 DEF Leavers
    <3> QED BY <1>0, <1>1, <1>7, <1>8, <2>1, <3>1, <3>2, <3>3, CtxQuiet DEF IInv
  <2>2. CASE Top(t).c # NoCtx
    <3> PICK d \in CtxIds : d = Top(t).c
      BY <1>1, <2>2 DEF Call
    <3>0. ContextInv /\ d \in Range(tee_ctxes) /\ ListOf(d) /\ Range(tee_ctxes)' = Range(tee_ctxes)
      BY <1>1, <1>2, <2>2 DEF IInv, ContextInv, ListInv, CtxOf, Range
    <3>1. OnlyAt(s, d, x)
      <4>1. ASSUME NEW c \in CtxIds, c # d PROVE x \notin Leavers(c)' /\ x \notin Leavers(c)
        BY <1>1, <1>7, <4>1 DEF Leavers
      <4> QED BY <1>4, <1>5, <3>0, <4>1 DEF OnlyAt, CtxIds, NoCtx
    <3>2. ListOf(d)'
      <4>1. /\ s \in Members(d) /\ s \notin Members(d)'
            /\ \A o : o # s => (o \in Members(d) <=> o \in Members(d)')
        BY <1>4, <1>5 DEF Members
      <4>2. /\ x \notin Leavers(d) /\ x \in Leavers(d)'
            /\ \A f : f # x => (f \in Leavers(d) <=> f \in Leavers(d)')
        <5>1. x \notin Leavers(d) /\ x \in Leavers(d)'
          BY <1>1, <1>7, <2>2 DEF Leavers
        <5>2. \A f : f # x => (f \in Leavers(d) <=> f \in Leavers(d)')
          BY <1>7 DEF Leavers, Moves
        <5> QED BY <5>1, <5>2
      <4>3. /\ IsFiniteSet(Members(d)) /\ IsFiniteSet(Leavers(d))
            /\ IsFiniteSet(Members(d)') /\ IsFiniteSet(Leavers(d)')
        BY <1>0, <1>8, SetsFinite, SetsFiniteNext
      <4>4. /\ Cardinality(Members(d)') + 1 = Cardinality(Members(d))
            /\ Cardinality(Members(d)) \in Nat /\ Cardinality(Members(d)') \in Nat
        BY <4>1, <4>3, CountOne
      <4>5. /\ Cardinality(Leavers(d)') = Cardinality(Leavers(d)) + 1
            /\ Cardinality(Leavers(d)) \in Nat /\ Cardinality(Leavers(d)') \in Nat
        BY <4>2, <4>3, CountOne
      <4> QED BY <3>0, <4>4, <4>5 DEF ListOf, Kept
    <3>3. \A f \in Frames : f # x =>
            /\ Frame(f).s = s => ~Touches(Frame(f))
            /\ Frame(f).c = d =>
                 /\ ~Frees(Frame(f)) /\ d \in Range(tee_ctxes)'
                 /\ Frame(f).pc = "loading" =>
                     ctxs'[d].init /\ ctxs'[d].refs = 1 /\ ~ctxs'[d].panicked
                 /\ Frame(f).pc = "busy" => ~ctxs'[d].panicked
                 /\ Frame(f).pc = "destroy" => ctxs'[d].panicked
            /\ Frame(f).pc = "opened" /\ sess[Frame(f).s].ctx = d => ~ctxs'[d].panicked
      BY <1>14, <3>0 DEF ContextInv, CtxInv, CtxOf
    <3>4. CtxOf(x)'
      BY <1>7, <1>9, <2>2, <3>0 DEF CtxOf
    <3>5. IsInjective(tee_ctxes)'
      BY <3>0 DEF ContextInv, ListInv, IsInjective
    <3> QED BY <1>0, <1>1, <1>2, <1>5, <1>7, <1>8, <2>2, <3>0, <3>1, <3>2, <3>3, <3>4, <3>5, CtxMove
  <2> QED BY <2>1, <2>2
<1> QED BY <1>8, <1>10, <1>11, <1>12, <1>13, <1>15 DEF IInv, SessInv

\* tee_ta_unlink_session(): the flag is set, and the call waits or removes the
\* session.
LEMMA UnlinkStep ==
  ASSUME IInv, NEW t \in Threads, Unlink(t)
  PROVE  IInv'
<1> PICK x : x = Pos(t)
  OBVIOUS
<1>0. Types /\ RefInv /\ OpenAlone /\ LockInv
  BY DEF IInv, SessInv
<1>1. /\ stack[t] # << >> /\ Top(t).pc = "unlink" /\ Top(t) \in Call /\ ShapeOf(Top(t))
      /\ x \in Frames /\ Frame(x) = Top(t) /\ CtxOf(x) /\ Top(t).op = "close"
  BY AtStep, OpAt DEF Unlink
<1> PICK s \in SessIds : s = Top(t).s
  BY <1>1 DEF Call
<1>2. UNCHANGED << ctxs, tee_ctxes, single >>
  BY DEF Unlink
<1>3. sess \in [SessIds -> Session] /\ sess[s] \in Session
  BY <1>0 DEF Types, Tables
<1>4. CASE sess[s].refs = 1
  <2>1. /\ sess' = [[sess EXCEPT ![s].unlink = TRUE] EXCEPT ![s] = FreeSession]
        /\ IF Top(t).c = NoCtx THEN Return(t)
           ELSE Goto(t, IF Top(t).res = "dead" THEN "dec" ELSE "leave")
    BY <1>4 DEF Unlink, Removed
  <2>2. sess' = [sess EXCEPT ![s] = FreeSession]
    BY <1>3, <2>1
  <2> QED BY <1>1, <1>2, <1>4, <2>1, <2>2, RemovedStep
<1>5. CASE sess[s].refs # 1
  <2>1. sess' = [sess EXCEPT ![s].unlink = TRUE] /\ Goto(t, "unlinkwait")
    BY <1>5 DEF Unlink
  <2>2. sess' \in [SessIds -> Session]
    BY <1>3, <2>1 DEF Session
  <2>3. /\ \A o \in SessIds : /\ sess'[o].live = sess[o].live /\ sess'[o].own = sess[o].own
                              /\ sess'[o].refs = sess[o].refs /\ sess'[o].lock = sess[o].lock
                              /\ sess'[o].handed = sess[o].handed /\ sess'[o].ctx = sess[o].ctx
    BY <1>3, <2>1 DEF Session
  <2>4. PICK fr \in Call :
          /\ Become(t, fr) /\ fr.op = "close" /\ fr.pc = "unlinkwait" /\ fr.s = s
          /\ fr.own = Top(t).own /\ fr.c = Top(t).c /\ fr.res = Top(t).res
    <3> DEFINE fr == [Top(t) EXCEPT !.pc = "unlinkwait"]
    <3>1. fr \in Call /\ fr.op = "close" /\ fr.pc = "unlinkwait" /\ fr.s = s
          /\ fr.own = Top(t).own /\ fr.c = Top(t).c /\ fr.res = Top(t).res
      BY <1>1, LocsAre DEF Call
    <3> QED BY <2>1, <3>1 DEF Goto
  <2>5. /\ x \in Frames' /\ Frame(x)' = fr /\ Moves(x) /\ StackOK'
    BY <1>0, <1>1, <2>4, BecomeStep DEF Types
  <2>6. ShapeOf(fr)
    BY <1>1, <2>4 DEF ShapeOf, Places
  <2>7. Types'
    BY <1>0, <1>2, <2>2, <2>5, <2>6, TypesStep DEF Types, Tables
  <2>8. /\ HoldsRef(Top(t)) /\ HoldsLock(Top(t)) /\ HoldsRef(fr) /\ HoldsLock(fr)
        /\ InSession(Top(t)) /\ InSession(fr) /\ ~Frees(Top(t)) /\ ~Frees(fr)
        /\ InTa(fr) <=> InTa(Top(t))
    BY <1>1, <2>4 DEF HoldsRef, HoldsLock, InTa, Frees, InSession
  <2>9. SessInv'
    <3>1. SessKept
      BY <2>3 DEF SessKept
    <3>2. SessInv
      BY DEF IInv
    <3>3. /\ Frame(x)'.s = Frame(x).s /\ Frame(x)'.own = Frame(x).own
          /\ Frame(x)'.op = Frame(x).op
          /\ HoldsRef(Frame(x)') <=> HoldsRef(Frame(x))
          /\ HoldsLock(Frame(x)') <=> HoldsLock(Frame(x))
      BY <1>1, <2>4, <2>5, <2>8
    <3> QED BY <1>0, <1>1, <2>5, <2>7, <3>1, <3>2, <3>3, SessQuiet
  <2>10. TaInv' /\ ContextInv'
    <3>1. fr.c \in {NoCtx} \cup Range(tee_ctxes) /\ sess'[fr.s].ctx = fr.c
      BY <1>1, <2>3, <2>4, <2>8 DEF CtxOf
    <3> QED BY <1>1, <1>2, <2>3, <2>4, <2>5, <2>7, <2>8, <3>1, OutsideStep
  <2> QED BY <2>7, <2>9, <2>10 DEF IInv
<1> QED BY <1>4, <1>5

\* The same after the wait for the last reference.
LEMMA UnlinkAgainStep ==
  ASSUME IInv, NEW t \in Threads, UnlinkAgain(t)
  PROVE  IInv'
<1> PICK x : x = Pos(t)
  OBVIOUS
<1>1. /\ stack[t] # << >> /\ Top(t).pc = "unlinkwait"
  BY AtStep DEF UnlinkAgain
<1>2. UNCHANGED << ctxs, tee_ctxes, single >>
  BY DEF UnlinkAgain
<1>3. CASE sess[Top(t).s].refs = 1
  <2>1. /\ sess' = [sess EXCEPT ![Top(t).s] = FreeSession]
        /\ IF Top(t).c = NoCtx THEN Return(t)
           ELSE Goto(t, IF Top(t).res = "dead" THEN "dec" ELSE "leave")
    BY <1>3 DEF UnlinkAgain, Removed
  <2> QED BY <1>1, <1>2, <1>3, <2>1, RemovedStep
<1>4. CASE sess[Top(t).s].refs # 1
  BY <1>2, <1>4, IdleStep DEF UnlinkAgain, tables
<1> QED BY <1>3, <1>4

\* An open without a context frees the session that it has just listed.
LEMMA OpenFailsStep ==
  ASSUME IInv, NEW t \in Threads, OpenFails(t)
  PROVE  IInv'
<1> PICK x : x = Pos(t)
  OBVIOUS
<1>0. Types /\ RefInv /\ OpenAlone /\ LockInv
  BY DEF IInv, SessInv
<1>1. /\ stack[t] # << >> /\ Top(t).pc = "fail" /\ Top(t) \in Call /\ ShapeOf(Top(t))
      /\ x \in Frames /\ Frame(x) = Top(t) /\ CtxOf(x) /\ Top(t).op = "open" /\ Top(t).c = NoCtx
  BY AtStep, OpAt DEF OpenFails, ShapeOf
<1> PICK s \in SessIds : s = Top(t).s
  BY <1>1 DEF Call
<1>2. UNCHANGED << ctxs, tee_ctxes, single >> /\ Return(t)
  BY DEF OpenFails
<1>3. \A f \in Frames : f # x => Frame(f).s # s
  BY <1>0, <1>1 DEF OpenAlone
<1>4. sess \in [SessIds -> Session] /\ sess[s].ctx = NoCtx
  BY <1>0, <1>1 DEF Types, Tables, CtxOf, InSession
<1>5. /\ sess' \in [SessIds -> Session] /\ sess'[s] = FreeSession
      /\ \A o \in SessIds \ {s} : sess'[o] = sess[o]
      /\ ~sess'[s].live /\ sess'[s].lock = NoThread /\ sess'[s].ctx = NoCtx
  <2>1. FreeSession \in Session
    BY DEF FreeSession, Session
  <2> QED BY <1>4, <2>1 DEF FreeSession, OpenFails
<1>6. /\ x \notin Frames' /\ Moves(x) /\ StackOK'
  BY <1>0, <1>1, <1>2, ReturnStep DEF Types
<1>7. Types'
  BY <1>0, <1>2, <1>5, <1>6, TypesStep DEF Types, Tables
<1>8. RefInv'
  BY <1>0, <1>1, <1>3, <1>5, <1>6, <1>7, RefStep
<1>9. OpenAlone'
  <2>1. \A f \in Frames : f # x /\ Frame(f).op = "open" =>
          Frame(f).s # s /\ Frame(f).s \in SessIds /\ ~sess[Frame(f).s].handed
    BY <1>0, <1>3, FramesTypedNow DEF OpenAlone, FramesTyped, Call
  <2> QED BY <1>0, <1>5, <1>6, <1>7, <2>1, OpenAloneStep
<1>10. LockInv'
  <2>1. \A o \in SessIds \ {s} : sess'[o].lock = sess[o].lock
    BY <1>5
  <2> QED BY <1>0, <1>1, <1>3, <1>5, <1>6, <1>7, <2>1, LockStep
<1>11. ~InTa(Frame(x)) /\ ~Frees(Frame(x))
  BY <1>1 DEF InTa, Frees
<1>12. TaInv'
  <2>1. SameInTas
    BY <1>6, <1>11, SameInTasStep
  <2>2. LoadedKept
    BY <1>2 DEF LoadedKept
  <2> QED BY <1>0, <1>2, <2>1, <2>2, InTaEntered, TaQuiet DEF IInv
<1>13. ContextInv'
  <2>1. ContextsKept
    BY <1>2, <1>4, <1>5 DEF ContextsKept, CtxIds, NoCtx
  <2>2. \A f \in Frames : f # x =>
          /\ Touches(Frame(f)) => sess'[Frame(f).s].ctx = sess[Frame(f).s].ctx
          /\ Frame(f).pc = "loading" => ctxs'[Frame(f).c].init /\ ~ctxs'[Frame(f).c].panicked
          /\ Frame(f).pc = "busy" => ~ctxs'[Frame(f).c].panicked
          /\ Frame(f).pc = "opened" => ~ctxs'[sess[Frame(f).s].ctx].panicked
    BY <1>0, <1>2, <1>3, <1>5, FramesTypedNow
    DEF IInv, ContextInv, CtxInv, CtxOf, FramesTyped, Call
  <2>3. \A c \in CtxIds : x \in Leavers(c)' <=> x \in Leavers(c)
    BY <1>1, <1>6 DEF Leavers
  <2> QED BY <1>0, <1>6, <1>7, <1>11, <2>1, <2>2, <2>3, CtxQuiet DEF IInv
<1> QED BY <1>7, <1>8, <1>9, <1>10, <1>12, <1>13 DEF IInv, SessInv

\* Normal world or a TA invokes, closes or cancels: a call starts.
LEMMA UseStep ==
  ASSUME IInv, NEW t \in Threads, NEW s \in SessIds, NEW op \in {"invoke", "close", "cancel"},
         Use(t, op, s)
  PROVE  IInv'
<1> PICK x : x = Above(t)
  OBVIOUS
<1>0. Types /\ RefInv /\ OpenAlone /\ LockInv
  BY DEF IInv, SessInv
<1>1. /\ stack[t] # << >> => Top(t).pc = "run" /\ Top(t) \in Call
      /\ UNCHANGED << ctxs, tee_ctxes, single >> /\ sess[s].handed
      /\ op = "cancel" => Caller(t) = Nsec
  <2>1. stack[t] # << >> => Top(t) \in Call
    <3> PICK y : y = Pos(t)
      OBVIOUS
    <3> QED BY <1>0, Here
  <2> QED BY <2>1 DEF Use, MayCall
<1>2. sess \in [SessIds -> Session] /\ sess[s] \in Session
  BY <1>0 DEF Types, Tables
<1>3. /\ sess' \in [SessIds -> Session]
      /\ \A o \in SessIds : /\ sess'[o].live = sess[o].live /\ sess'[o].own = sess[o].own
                            /\ sess'[o].refs = sess[o].refs /\ sess'[o].lock = sess[o].lock
                            /\ sess'[o].ctx = sess[o].ctx
                            /\ sess'[o].handed => sess[o].handed
  <2>1. CASE sess' = sess
    BY <1>2, <2>1
  <2>2. CASE sess' = [sess EXCEPT ![s].handed = FALSE]
    BY <1>2, <2>2 DEF Session
  <2> QED BY <2>1, <2>2 DEF Use
<1>4. Caller(t) \in CtxIds \cup {Nsec}
  BY <1>1 DEF Caller, Call, Nsec, NoCtx
<1>5. PICK fr \in Call :
        /\ Push(t, fr) /\ fr.op = op /\ fr.pc = "get" /\ fr.s = s /\ fr.own = Caller(t)
        /\ fr.c = NoCtx
  <2> DEFINE fr == [op |-> op, pc |-> "get", s |-> s, c |-> NoCtx,
                    ta |-> CHOOSE ta \in Tas : TRUE, own |-> Caller(t), res |-> "ok"]
  <2>1. (CHOOSE ta \in Tas : TRUE) \in Tas
    BY SessionsAssumption
  <2>2. op \in DOMAIN Places
    BY DEF Places
  <2>3. fr \in Call /\ fr.op = op /\ fr.pc = "get" /\ fr.s = s /\ fr.own = Caller(t)
        /\ fr.c = NoCtx
    BY <1>4, <2>1, <2>2, LocsAre DEF Call
  <2>4. Push(t, fr)
    BY DEF Use
  <2> QED BY <2>3, <2>4
<1>6. x \notin Frames /\ x \in Frames' /\ Frame(x)' = fr /\ Moves(x) /\ StackOK'
  BY <1>0, <1>1, <1>5, PushStep DEF Types
<1>7. ShapeOf(fr)
  BY <1>1, <1>5 DEF ShapeOf, Places
<1>8. Types'
  BY <1>0, <1>1, <1>3, <1>6, <1>7, TypesStep DEF Types, Tables
<1>9. /\ ~HoldsRef(fr) /\ ~HoldsLock(fr) /\ ~InTa(fr) /\ ~Frees(fr) /\ ~InSession(fr)
      /\ fr.op # "open"
  BY <1>5 DEF HoldsRef, HoldsLock, InTa, Frees, InSession
<1>10. RefInv'
  <2>1. sess[s].live => sess[s].refs = Cardinality(Holders(s)) /\ sess[s].refs \in Nat
    BY <1>0, <1>2 DEF RefInv, Session
  <2>2. sess'[s].live => sess'[s].refs + (IF x \in Frames /\ HoldsRef(Frame(x)) THEN 1 ELSE 0)
             = Cardinality(Holders(s)) + (IF x \in Frames' /\ HoldsRef(Frame(x)') THEN 1 ELSE 0)
    BY <1>3, <1>6, <1>9, <2>1
  <2>3. \A f \in Frames : f # x /\ HoldsRef(Frame(f)) /\ Frame(f).s = s =>
           sess'[s].live /\ sess'[s].own = sess[s].own
    BY <1>0, <1>3 DEF RefInv, Listed
  <2> QED BY <1>0, <1>3, <1>6, <1>8, <1>9, <2>2, <2>3, RefStep
<1>11. OpenAlone'
  <2>1. \A f \in Frames : Frame(f).op = "open" =>
          Frame(f).s # s /\ Frame(f).s \in SessIds /\ ~sess[Frame(f).s].handed
    BY <1>0, <1>1, FramesTypedNow DEF OpenAlone, FramesTyped, Call
  <2>2. \A f \in Frames : Frame(f).op = "open" =>
          Frame(f).s # Frame(x)'.s /\ ~sess'[Frame(f).s].handed
    BY <1>3, <1>5, <1>6, <2>1
  <2> QED BY <1>0, <1>6, <1>8, <1>9, <2>2, OpenAloneStep
<1>12. LockInv'
  <2>1. \A f \in Frames : HoldsLock(Frame(f)) /\ Frame(f).s = s => sess'[s].lock = f[1]
    BY <1>0, <1>3 DEF LockInv
  <2>2. sess'[s].lock # NoThread => \E f \in Frames : HoldsLock(Frame(f)) /\ Frame(f).s = s
    BY <1>0, <1>3 DEF LockInv
  <2>3. \A o \in SessIds \ {s} : sess'[o].lock = sess[o].lock
    BY <1>3
  <2> QED BY <1>0, <1>6, <1>8, <1>9, <2>1, <2>2, <2>3, LockStep
<1>13. TaInv' /\ ContextInv'
  BY <1>1, <1>3, <1>5, <1>6, <1>8, <1>9, OutsideStep
<1> QED BY <1>8, <1>10, <1>11, <1>12, <1>13 DEF IInv, SessInv

\* free_utc() closes a session that the dying TA has open.
LEMMA FreeClosesStep ==
  ASSUME IInv, NEW t \in Threads, FreeCloses(t)
  PROVE  IInv'
<1> PICK x : x = Above(t)
  OBVIOUS
<1> PICK y : y = Pos(t)
  OBVIOUS
<1>0. Types /\ RefInv /\ OpenAlone /\ LockInv
  BY DEF IInv, SessInv
<1>1. /\ stack[t] # << >> /\ Top(t).pc = "free" /\ Top(t) \in Call /\ ShapeOf(Top(t))
      /\ y \in Frames /\ Frame(y) = Top(t) /\ CtxOf(y) /\ Top(t).c # NoCtx
  BY AtStep DEF FreeCloses, ShapeOf
<1> PICK s \in SessIds :
       /\ Listed(s, Top(t).c)
       /\ sess' = [sess EXCEPT ![s].handed = FALSE]
       /\ Push(t, [op |-> "close", pc |-> "get", s |-> s, c |-> NoCtx,
                   ta |-> ctxs[Top(t).c].ta, own |-> Top(t).c, res |-> "ok"])
  BY DEF FreeCloses
<1>2. sess \in [SessIds -> Session] /\ sess[s] \in Session
      /\ UNCHANGED << ctxs, tee_ctxes, single >>
  BY <1>0 DEF Types, Tables, FreeCloses
<1>3. /\ sess' \in [SessIds -> Session]
      /\ \A o \in SessIds : /\ sess'[o].live = sess[o].live /\ sess'[o].own = sess[o].own
                            /\ sess'[o].refs = sess[o].refs /\ sess'[o].lock = sess[o].lock
                            /\ sess'[o].ctx = sess[o].ctx
                            /\ sess'[o].handed => sess[o].handed
  BY <1>2 DEF Session
<1>4. Top(t).c \in CtxIds /\ Caller(t) = Top(t).c
  BY <1>1 DEF Caller, Call
<1>5. PICK fr \in Call :
        /\ Push(t, fr) /\ fr.op = "close" /\ fr.pc = "get" /\ fr.s = s /\ fr.own = Caller(t)
        /\ fr.c = NoCtx
  <2> DEFINE fr == [op |-> "close", pc |-> "get", s |-> s, c |-> NoCtx,
                    ta |-> ctxs[Top(t).c].ta, own |-> Top(t).c, res |-> "ok"]
  <2>1. ctxs[Top(t).c].ta \in Tas
    BY <1>0, <1>4 DEF Types, Tables, Context
  <2>2. "close" \in DOMAIN Places
    BY DEF Places
  <2>3. fr \in Call /\ fr.op = "close" /\ fr.pc = "get" /\ fr.s = s /\ fr.own = Caller(t)
        /\ fr.c = NoCtx
    BY <1>4, <2>1, <2>2, LocsAre DEF Call
  <2> QED BY <2>3
<1>6. x \notin Frames /\ x \in Frames' /\ Frame(x)' = fr /\ Moves(x) /\ StackOK'
  BY <1>0, <1>1, <1>5, PushStep DEF Types
<1>7. ShapeOf(fr)
  BY <1>5 DEF ShapeOf, Places
<1>8. Types'
  BY <1>0, <1>2, <1>3, <1>6, <1>7, TypesStep DEF Types, Tables
<1>9. /\ ~HoldsRef(fr) /\ ~HoldsLock(fr) /\ ~InTa(fr) /\ ~Frees(fr) /\ ~InSession(fr)
      /\ fr.op # "open"
  BY <1>5 DEF HoldsRef, HoldsLock, InTa, Frees, InSession
<1>10. RefInv'
  <2>1. sess[s].live => sess[s].refs = Cardinality(Holders(s)) /\ sess[s].refs \in Nat
    BY <1>0, <1>2 DEF RefInv, Session
  <2>2. sess'[s].live => sess'[s].refs + (IF x \in Frames /\ HoldsRef(Frame(x)) THEN 1 ELSE 0)
             = Cardinality(Holders(s)) + (IF x \in Frames' /\ HoldsRef(Frame(x)') THEN 1 ELSE 0)
    BY <1>3, <1>6, <1>9, <2>1
  <2>3. \A f \in Frames : f # x /\ HoldsRef(Frame(f)) /\ Frame(f).s = s =>
           sess'[s].live /\ sess'[s].own = sess[s].own
    BY <1>0, <1>3 DEF RefInv, Listed
  <2> QED BY <1>0, <1>3, <1>6, <1>8, <1>9, <2>2, <2>3, RefStep
<1>11. OpenAlone'
  <2>1. ASSUME NEW f \in Frames, Frame(f).op = "open"
        PROVE  Frame(f).s # s
    <3> SUFFICES ASSUME Frame(f).s = s
                 PROVE  FALSE
      OBVIOUS
    <3>1. Frame(f).own = Top(t).c
      BY <1>0, <2>1 DEF RefInv, HoldsRef, Listed
    <3>2. PICK g \in Frames : Frame(g).c = Top(t).c /\ g # y
      BY <1>0, <1>4, <3>1, Beneath DEF Types, CtxIds, Nsec
    <3> QED BY <1>1, <3>2 DEF CtxOf, Frees
  <2>2. \A f \in Frames : Frame(f).op = "open" =>
          Frame(f).s # Frame(x)'.s /\ ~sess'[Frame(f).s].handed
    BY <1>0, <1>3, <1>5, <1>6, <2>1, FramesTypedNow DEF OpenAlone, FramesTyped, Call
  <2> QED BY <1>0, <1>6, <1>8, <1>9, <2>2, OpenAloneStep
<1>12. LockInv'
  <2>1. \A f \in Frames : HoldsLock(Frame(f)) /\ Frame(f).s = s => sess'[s].lock = f[1]
    BY <1>0, <1>3 DEF LockInv
  <2>2. sess'[s].lock # NoThread => \E f \in Frames : HoldsLock(Frame(f)) /\ Frame(f).s = s
    BY <1>0, <1>3 DEF LockInv
  <2>3. \A o \in SessIds \ {s} : sess'[o].lock = sess[o].lock
    BY <1>3
  <2> QED BY <1>0, <1>6, <1>8, <1>9, <2>1, <2>2, <2>3, LockStep
<1>13. TaInv' /\ ContextInv'
  BY <1>2, <1>3, <1>5, <1>6, <1>8, <1>9, OutsideStep
<1> QED BY <1>8, <1>10, <1>11, <1>12, <1>13 DEF IInv, SessInv

\* The calls of a thread in TAs that the single-instance lock is for.
SingleCalls(t) == {f \in Frames : f[1] = t /\ InTa(Frame(f)) /\ Single(Frame(f).c)}
\* What the single-instance lock has of a thread is what the thread is in.
SingleCount(t) == Cardinality(SingleCalls(t)) = IF single.thread = t THEN single.count ELSE 0

\* SingleLockCounted says so of every thread.
LEMMA SingleCounts ==
  SingleLockCounted <=> \A t \in Threads : SingleCount(t)
BY DEF SingleLockCounted, SingleCount, SingleCalls

\* The same for the next state.
LEMMA SingleCountsNext ==
  SingleLockCounted' <=> \A t \in Threads : SingleCount(t)'
BY DEF SingleLockCounted, SingleCount, SingleCalls

\* No context changes but for the marks on d, which is in one hand if it is
\* loaded or dies.
Marks(d) ==
  \A c \in CtxIds :
    /\ ctxs'[c].live = ctxs[c].live /\ ctxs'[c].ta = ctxs[c].ta
    /\ ctxs'[c].refs = ctxs[c].refs
    /\ ctxs'[c].panicked =>
         ctxs[c].panicked \/ (c = d /\ ctxs[c].refs <= 1 /\ ctxs[c].ta \in Panicky)
    /\ ctxs[c].panicked => ctxs'[c].panicked
    /\ ctxs'[c].init = ctxs[c].init \/ (c = d /\ ctxs[c].refs <= 1)

\* A step of t that marks the context of its call busy or idle, or dead.
LEMMA MarkStep ==
  ASSUME IInv, NEW t \in Threads, NEW x, x = Pos(t), stack[t] # << >>, NEW fr \in Call,
         Become(t, fr), UNCHANGED << sess, tee_ctxes >>,
         fr.op = Top(t).op, fr.s = Top(t).s, fr.own = Top(t).own, fr.c = Top(t).c,
         HoldsRef(fr) <=> HoldsRef(Top(t)), HoldsLock(fr) <=> HoldsLock(Top(t)),
         ShapeOf(fr), ~Frees(fr), ~Frees(Top(t)),
         fr.c \in Range(tee_ctxes),
         ctxs' \in [CtxIds -> Context],
         single' \in [thread : Threads \cup {NoThread}, count : Nat],
         Marks(fr.c),
         InSession(fr) => InSession(Top(t)) \/ sess[fr.s].ctx = fr.c,
         fr.pc \notin {"loading", "destroy", "busy"},
         fr.pc = "opened" => sess[fr.s].ctx = fr.c /\ ~ctxs'[fr.c].panicked,
         Top(t).op = "close" /\ Top(t).pc \in {"leave", "dec"} <=>
           fr.op = "close" /\ fr.pc \in {"leave", "dec"}
  PROVE  /\ Types' /\ SessInv' /\ ContextInv'
         /\ x \in Frames /\ Frame(x) = Top(t) /\ x[1] = t
         /\ x \in Frames' /\ Frame(x)' = fr /\ Moves(x)
<1>0. Types /\ SessInv /\ ContextInv /\ fr.c \in CtxIds /\ fr.c # NoCtx
  <2>1. Types /\ SessInv /\ ContextInv
    BY DEF IInv
  <2>2. fr.c \in CtxIds
    BY <2>1 DEF Types, Tables, Range
  <2> QED BY <2>1, <2>2 DEF CtxIds, NoCtx
<1>1. /\ x \in Frames /\ Frame(x) = Top(t) /\ Top(t) \in Call /\ x[1] = t
      /\ x \in Frames' /\ Frame(x)' = fr /\ Moves(x) /\ StackOK' /\ CtxOf(x)
  BY <1>0, BecomeStep, Here DEF Types, ContextInv, CtxInv
<1>2. Types'
  BY <1>0, <1>1, TypesStep DEF Types, Tables
<1>3. SessInv'
  <2>1. SessKept
    BY DEF SessKept
  <2> QED BY <1>0, <1>1, <1>2, <2>1, SessQuiet
<1>4. ContextInv'
  <2>1. ContextsKept
    BY DEF ContextsKept, Marks
  <2>2. ASSUME NEW f \in Frames, f # x, Uses(f, fr.c)
        PROVE  ctxs[fr.c].refs > 1
    <3>1. Uses(x, fr.c)
      BY <1>1 DEF Uses
    <3>2. ctxs[fr.c].refs \in Nat
      BY <1>0 DEF Types, Tables, Context
    <3> QED BY <1>0, <1>1, <2>2, <3>1, <3>2, Alone
  <2>3. ASSUME NEW f \in Frames, f # x
        PROVE
           /\ Touches(Frame(f)) => sess'[Frame(f).s].ctx = sess[Frame(f).s].ctx
           /\ Frame(f).pc = "loading" => ctxs'[Frame(f).c].init /\ ~ctxs'[Frame(f).c].panicked
           /\ Frame(f).pc = "busy" => ~ctxs'[Frame(f).c].panicked
           /\ Frame(f).pc = "opened" => ~ctxs'[sess[Frame(f).s].ctx].panicked
    <3>1. CtxOf(f) /\ ShapeOf(Frame(f)) /\ Frame(f) \in Call
      BY <1>0, FramesTypedNow DEF FramesTyped, ContextInv, CtxInv
    <3>2. ASSUME Frame(f).pc = "loading"
          PROVE  ctxs'[Frame(f).c].init /\ ~ctxs'[Frame(f).c].panicked
      <4>1. Frame(f).c \in CtxIds /\ ctxs[Frame(f).c].init /\ ~ctxs[Frame(f).c].panicked
        BY <3>1, <3>2 DEF ShapeOf, CtxOf, Call
      <4>2. ctxs[fr.c].refs <= 1 => Frame(f).c # fr.c
        BY <1>0, <2>2, <2>3 DEF Uses, Types, Tables, Context
      <4> QED BY <4>1, <4>2 DEF Marks
    <3>3. ASSUME Frame(f).pc = "opened"
          PROVE  ~ctxs'[sess[Frame(f).s].ctx].panicked
      <4>1. sess[Frame(f).s].ctx \in CtxIds /\ ~ctxs[sess[Frame(f).s].ctx].panicked
        BY <1>0, <3>1, <3>3 DEF ShapeOf, CtxOf, Call, Types, Tables, Session
      <4>2. ctxs[fr.c].refs <= 1 => sess[Frame(f).s].ctx # fr.c
        BY <1>0, <2>2, <2>3, <3>3 DEF Uses, Types, Tables, Context
      <4> QED BY <4>1, <4>2 DEF Marks
    <3>4. ASSUME Frame(f).pc = "busy"
          PROVE  ~ctxs'[Frame(f).c].panicked
      <4>1. Frame(f).c \in CtxIds /\ ~ctxs[Frame(f).c].panicked
        BY <3>1, <3>4 DEF ShapeOf, CtxOf, Call
      <4>2. ctxs[fr.c].refs <= 1 => Frame(f).c # fr.c
        BY <1>0, <2>2, <2>3 DEF Uses, Types, Tables, Context
      <4> QED BY <4>1, <4>2 DEF Marks
    <3> QED BY <3>2, <3>3, <3>4
  <2>4. \A c \in CtxIds : x \in Leavers(c)' <=> x \in Leavers(c)
    BY <1>1 DEF Leavers
  <2>5. CtxOf(x)'
    <3>1. InSession(fr) => sess[fr.s].ctx = fr.c
      BY <1>1 DEF CtxOf
    <3>2. Range(tee_ctxes)' = Range(tee_ctxes)
      BY DEF Range
    <3> QED BY <1>0, <1>1, <3>1, <3>2 DEF CtxOf
  <2> QED BY <1>0, <1>1, <1>2, <2>1, <2>3, <2>4, <2>5, CtxQuiet
<1> QED BY <1>1, <1>2, <1>3, <1>4

\* The context is ready: tee_ta_init_cv is signalled and the call goes on.
LEMMA LoadedStep ==
  ASSUME IInv, NEW t \in Threads, Loaded(t)
  PROVE  IInv'
<1> PICK x : x = Pos(t)
  OBVIOUS
<1>0. Types /\ ContextInv /\ TaInv
  BY DEF IInv
<1>1. /\ stack[t] # << >> /\ Top(t).pc = "loading" /\ Top(t) \in Call /\ ShapeOf(Top(t))
      /\ x \in Frames /\ Frame(x) = Top(t) /\ CtxOf(x) /\ Top(t).op = "open"
  BY AtStep, OpAt DEF Loaded
<1> PICK c \in CtxIds : c = Top(t).c
  BY <1>1 DEF ShapeOf, Call
<1>2. /\ c \in Range(tee_ctxes) /\ ctxs[c].refs = 1 /\ ~ctxs[c].panicked /\ sess[Top(t).s].ctx = c
      /\ ctxs \in [CtxIds -> Context]
  BY <1>0, <1>1 DEF ShapeOf, CtxOf, Frees, InSession, Types, Tables
<1>3. UNCHANGED << sess, tee_ctxes, single >> /\ ctxs' = [ctxs EXCEPT ![c].init = FALSE]
  BY DEF Loaded
<1>4. /\ ctxs' \in [CtxIds -> Context]
      /\ \A d \in CtxIds :
           /\ ctxs'[d].live = ctxs[d].live /\ ctxs'[d].ta = ctxs[d].ta
           /\ ctxs'[d].refs = ctxs[d].refs /\ ctxs'[d].busy = ctxs[d].busy
           /\ ctxs'[d].panicked = ctxs[d].panicked
           /\ ctxs'[d].init = ctxs[d].init \/ d = c
  BY <1>2, <1>3 DEF Context
<1> PICK fr \in Call : fr = [Top(t) EXCEPT !.pc = "opened"]
  BY <1>1, MovedCall, LocsAre
<1>5. /\ fr.op = "open" /\ fr.pc = "opened" /\ fr.s = Top(t).s /\ fr.own = Top(t).own
      /\ fr.c = c
  BY <1>1 DEF Call
<1>6. ShapeOf(fr)
  BY <1>5 DEF ShapeOf, Places
<1>7. Become(t, fr)
  BY DEF Loaded, Goto
<1>8. /\ HoldsRef(fr) /\ HoldsRef(Top(t)) /\ ~HoldsLock(fr) /\ ~HoldsLock(Top(t))
      /\ ~Frees(fr) /\ ~Frees(Top(t)) /\ ~InTa(fr) /\ ~InTa(Top(t)) /\ ~InSession(fr)
  BY <1>1, <1>5 DEF HoldsRef, HoldsLock, Frees, InTa, InSession
<1>9. single' \in [thread : Threads \cup {NoThread}, count : Nat]
  BY <1>0, <1>3 DEF Types, Tables
<1>10. Marks(fr.c)
  BY <1>2, <1>4, <1>5 DEF Marks
<1>11. /\ Types' /\ SessInv' /\ ContextInv'
       /\ x \in Frames /\ Frame(x) = Top(t) /\ x \in Frames' /\ Frame(x)' = fr /\ Moves(x)
  <2>1. ~ctxs'[c].panicked
    BY <1>2, <1>4
  <2>2. UNCHANGED << sess, tee_ctxes >> /\ ctxs' \in [CtxIds -> Context]
    BY <1>3, <1>4
  <2>3. /\ fr.c \in Range(tee_ctxes) /\ sess[fr.s].ctx = fr.c /\ ~ctxs'[fr.c].panicked
        /\ fr.op = Top(t).op /\ fr.s = Top(t).s /\ fr.own = Top(t).own /\ fr.c = Top(t).c
        /\ HoldsRef(fr) <=> HoldsRef(Top(t))
        /\ HoldsLock(fr) <=> HoldsLock(Top(t))
        /\ fr.pc \notin {"loading", "destroy", "busy"}
        /\ ~(Top(t).op = "close" /\ Top(t).pc \in {"leave", "dec"})
        /\ ~(fr.op = "close" /\ fr.pc \in {"leave", "dec"})
    BY <1>1, <1>2, <1>5, <1>8, <2>1
  <2> QED BY <1>1, <1>6, <1>7, <1>8, <1>9, <1>10, <2>2, <2>3, MarkStep
<1>12. TaInv'
  <2>1. SameInTas
    BY <1>8, <1>11, SameInTasStep
  <2>2. LoadedKept
    BY <1>4 DEF LoadedKept
  <2> QED BY <1>0, <1>3, <2>1, <2>2, InTaEntered, TaQuiet
<1> QED BY <1>11, <1>12 DEF IInv

\* The TA panics.  Its context has one session, so no other call has seen it
\* alive.
LEMMA TaPanicsStep ==
  ASSUME Orderly, IInv, NEW t \in Threads, TaPanics(t)
  PROVE  IInv'
<1> PICK x : x = Pos(t)
  OBVIOUS
<1>0. Types /\ ContextInv /\ TaInv
  BY DEF IInv
<1>1. /\ stack[t] # << >> /\ Top(t).pc = "run" /\ Top(t) \in Call /\ ShapeOf(Top(t))
      /\ x \in Frames /\ Frame(x) = Top(t) /\ CtxOf(x) /\ Top(t).op \in {"open", "invoke", "close"}
  BY AtStep, OpAt DEF TaPanics
<1> PICK c \in CtxIds : c = Top(t).c
  BY <1>1 DEF ShapeOf, Call
<1>2. /\ c \in Range(tee_ctxes) /\ sess[Top(t).s].ctx = c /\ ctxs \in [CtxIds -> Context]
  BY <1>0, <1>1 DEF ShapeOf, CtxOf, Frees, InSession, Types, Tables
<1>3. /\ UNCHANGED << sess, tee_ctxes, single >> /\ ctxs' = [ctxs EXCEPT ![c].panicked = TRUE]
      /\ ctxs[c].ta \in Panicky
  BY DEF TaPanics
<1>4. /\ ctxs' \in [CtxIds -> Context]
      /\ \A d \in CtxIds :
           /\ ctxs'[d].live = ctxs[d].live /\ ctxs'[d].ta = ctxs[d].ta
           /\ ctxs'[d].refs = ctxs[d].refs /\ ctxs'[d].busy = ctxs[d].busy
           /\ ctxs[d].panicked => ctxs'[d].panicked
           /\ ctxs'[d].panicked => ctxs[d].panicked \/ d = c
           /\ ctxs'[d].init = ctxs[d].init
  BY <1>2, <1>3 DEF Context
<1>20. ctxs[c].refs <= 1
  BY <1>0, <1>2, <1>3 DEF Orderly, ContextInv, ListInv, ListOf
<1>15. PICK fr \in Call : fr = [Top(t) EXCEPT !.pc = AfterRun(Top(t)), !.res = "err"]
  BY <1>1, MovedCall, LocsAre DEF AfterRun
<1>5. /\ fr.op = Top(t).op /\ fr.s = Top(t).s /\ fr.own = Top(t).own /\ fr.c = c
      /\ fr.pc = (IF fr.op = "close" THEN "unlink" ELSE "leave") /\ fr.res # "dead"
  BY <1>1, <1>15 DEF Call, AfterRun
<1>6. ShapeOf(fr)
  BY <1>1, <1>5 DEF ShapeOf, Places
<1>7. Become(t, fr)
  BY <1>15 DEF TaPanics
<1>8. /\ HoldsRef(fr) <=> HoldsRef(Top(t))
      /\ HoldsLock(fr) <=> HoldsLock(Top(t))
  BY <1>1, <1>5 DEF HoldsRef, HoldsLock
<1>14. InTa(fr) /\ InTa(Top(t))
  BY <1>1, <1>5 DEF InTa
<1>13. ~Frees(fr) /\ ~Frees(Top(t)) /\ InSession(Top(t))
  BY <1>1, <1>5 DEF Frees, InSession
<1>9. single' \in [thread : Threads \cup {NoThread}, count : Nat]
  BY <1>0, <1>3 DEF Types, Tables
<1>10. Marks(fr.c)
  BY <1>2, <1>3, <1>4, <1>5, <1>20 DEF Marks
<1>11. /\ Types' /\ SessInv' /\ ContextInv'
       /\ x \in Frames /\ Frame(x) = Top(t) /\ x \in Frames' /\ Frame(x)' = fr /\ Moves(x)
  <2>1. /\ ~(Top(t).op = "close" /\ Top(t).pc \in {"leave", "dec"})
        /\ ~(fr.op = "close" /\ fr.pc \in {"leave", "dec"})
        /\ fr.pc \notin {"loading", "destroy", "busy"}
        /\ fr.pc = "opened" => sess[fr.s].ctx = fr.c /\ ~ctxs'[fr.c].panicked
    BY <1>1, <1>5
  <2>2. UNCHANGED << sess, tee_ctxes >> /\ ctxs' \in [CtxIds -> Context]
    BY <1>3, <1>4
  <2>3. /\ fr.c \in Range(tee_ctxes)
        /\ fr.op = Top(t).op /\ fr.s = Top(t).s /\ fr.own = Top(t).own /\ fr.c = Top(t).c
        /\ InSession(fr) => InSession(Top(t)) \/ sess[fr.s].ctx = fr.c
        /\ Top(t).op = "close" /\ Top(t).pc \in {"leave", "dec"} <=>
             fr.op = "close" /\ fr.pc \in {"leave", "dec"}
    BY <1>2, <1>5, <1>13, <2>1
  <2> QED BY <1>1, <1>6, <1>7, <1>8, <1>9, <1>10, <1>13, <2>1, <2>2, <2>3, MarkStep
<1>12. TaInv'
  <2>1. SameInTas
    BY <1>5, <1>11, <1>14, SameInTasStep
  <2>2. LoadedKept
    BY <1>4 DEF LoadedKept
  <2> QED BY <1>0, <1>3, <2>1, <2>2, InTaEntered, TaQuiet
<1> QED BY <1>11, <1>12 DEF IInv

\* The contexts keep their TAs.
SameTas == \A c \in CtxIds : ctxs'[c].ta = ctxs[c].ta

\* The calls of a thread that the single-instance lock counts, when the one at
\* x has changed.
LEMMA SingleChange ==
  ASSUME Types, Types', ContextInv, ContextInv', SameTas, NEW x, Moves(x), NEW u \in Threads
  PROVE  /\ Cardinality(SingleCalls(u)) \in Nat /\ Cardinality(SingleCalls(u)') \in Nat
         /\ Cardinality(SingleCalls(u)') + (IF x \in SingleCalls(u) THEN 1 ELSE 0)
              = Cardinality(SingleCalls(u)) + (IF x \in SingleCalls(u)' THEN 1 ELSE 0)
<1>1. Entered
  BY InTaEntered
<1>2. \A f : f # x => (f \in SingleCalls(u) <=> f \in SingleCalls(u)')
  <2> SUFFICES ASSUME NEW f, f # x
               PROVE  f \in SingleCalls(u) <=> f \in SingleCalls(u)'
    OBVIOUS
  <2>1. (f \in Frames' <=> f \in Frames) /\ (f \in Frames => Frame(f)' = Frame(f))
    BY DEF Moves
  <2>2. CASE f \in Frames /\ InTa(Frame(f))
    <3>1. Frame(f).c \in CtxIds
      BY <1>1, <2>2 DEF Entered
    <3>2. Single(Frame(f).c) <=> Single(Frame(f).c)'
      BY <2>1, <2>2, <3>1 DEF SameTas, Single
    <3>3. f \in Frames' /\ InTa(Frame(f))'
      BY <2>1, <2>2 DEF InTa
    <3> QED BY <2>2, <3>2, <3>3 DEF SingleCalls
  <2>3. CASE ~(f \in Frames /\ InTa(Frame(f)))
    <3>1. ~(f \in Frames' /\ InTa(Frame(f))')
      BY <2>1, <2>3 DEF InTa
    <3> QED BY <2>3, <3>1 DEF SingleCalls
  <2> QED BY <2>2, <2>3
<1>3. SingleCalls(u) \subseteq Frames /\ SingleCalls(u)' \subseteq Frames'
  BY DEF SingleCalls
<1> QED BY <1>2, <1>3, CountFrames

\* tee_ta_try_set_busy() enters the TA: the flag was clear, so no call was in.
LEMMA SetBusyStep ==
  ASSUME IInv, NEW t \in Threads, SetBusy(t)
  PROVE  IInv'
<1> PICK x : x = Pos(t)
  OBVIOUS
<1>0. Types /\ ContextInv /\ BusyInv /\ SingleInv
  BY DEF IInv, TaInv
<1>1. /\ stack[t] # << >> /\ Top(t).pc = "busy" /\ Top(t) \in Call /\ ShapeOf(Top(t))
      /\ x \in Frames /\ Frame(x) = Top(t) /\ CtxOf(x) /\ Top(t).op \in {"open", "invoke", "close"}
  BY AtStep, OpAt DEF SetBusy
<1> PICK c \in CtxIds : c = Top(t).c
  BY <1>1 DEF ShapeOf, Call
<1>2. /\ c \in Range(tee_ctxes) /\ sess[Top(t).s].ctx = c /\ ctxs \in [CtxIds -> Context]
      /\ single \in [thread : Threads \cup {NoThread}, count : Nat]
  BY <1>0, <1>1 DEF ShapeOf, CtxOf, Frees, InSession, Types, Tables
<1>3. /\ UNCHANGED << sess, tee_ctxes >> /\ ctxs' = [ctxs EXCEPT ![c].busy = TRUE]
      /\ ~ctxs[c].busy /\ ~SingleLockTaken(t, c)
      /\ single' = IF Single(c) THEN [thread |-> t, count |-> single.count + 1] ELSE single
  BY DEF SetBusy
<1>4. /\ ctxs' \in [CtxIds -> Context]
      /\ \A d \in CtxIds :
           /\ ctxs'[d].live = ctxs[d].live /\ ctxs'[d].ta = ctxs[d].ta
           /\ ctxs'[d].refs = ctxs[d].refs /\ ctxs'[d].panicked = ctxs[d].panicked
           /\ ctxs'[d].busy <=> ctxs[d].busy \/ d = c
           /\ ctxs'[d].init = ctxs[d].init
  BY <1>2, <1>3 DEF Context
<1>5. PICK fr \in Call : fr = [Top(t) EXCEPT !.pc = "run"]
  BY <1>1, MovedCall, LocsAre
<1>6. /\ fr.op = Top(t).op /\ fr.s = Top(t).s /\ fr.own = Top(t).own /\ fr.c = c
      /\ fr.pc = "run"
  BY <1>1, <1>5 DEF Call
<1>7. ShapeOf(fr)
  BY <1>1, <1>6 DEF ShapeOf, Places
<1>8. Become(t, fr)
  BY <1>5 DEF SetBusy, Goto
<1>9. /\ HoldsRef(fr) <=> HoldsRef(Top(t))
      /\ HoldsLock(fr) <=> HoldsLock(Top(t))
  BY <1>1, <1>6 DEF HoldsRef, HoldsLock
<1>10. ~Frees(fr) /\ ~Frees(Top(t)) /\ InTa(fr) /\ ~InTa(Top(t))
  BY <1>1, <1>6 DEF Frees, InTa
<1>11. single' \in [thread : Threads \cup {NoThread}, count : Nat]
  BY <1>2, <1>3
<1>12. Marks(fr.c)
  BY <1>4, <1>6 DEF Marks
<1>13. /\ Types' /\ SessInv' /\ ContextInv' /\ x[1] = t
       /\ x \in Frames /\ Frame(x) = Top(t) /\ x \in Frames' /\ Frame(x)' = fr /\ Moves(x)
  <2>1. UNCHANGED << sess, tee_ctxes >> /\ ctxs' \in [CtxIds -> Context]
    BY <1>3, <1>4
  <2>2. /\ fr.c \in Range(tee_ctxes)
        /\ fr.op = Top(t).op /\ fr.s = Top(t).s /\ fr.own = Top(t).own /\ fr.c = Top(t).c
        /\ fr.pc \notin {"loading", "destroy", "busy"}
        /\ fr.pc = "opened" => sess[fr.s].ctx = fr.c /\ ~ctxs'[fr.c].panicked
        /\ InSession(fr) => InSession(Top(t)) \/ sess[fr.s].ctx = fr.c
        /\ Top(t).op = "close" /\ Top(t).pc \in {"leave", "dec"} <=>
             fr.op = "close" /\ fr.pc \in {"leave", "dec"}
    BY <1>1, <1>2, <1>6
  <2> QED BY <1>1, <1>7, <1>8, <1>9, <1>10, <1>11, <1>12, <2>1, <2>2, MarkStep
<1>14. \A f \in Frames : f # x =>
         /\ f \in Frames' /\ Frame(f)' = Frame(f)
         /\ Frame(f) \in Call
         /\ InTa(Frame(f)) => Frame(f).c \in CtxIds /\ ctxs[Frame(f).c].busy /\ Frame(f).c # c
  BY <1>0, <1>3, <1>13, InTaEntered, FramesTypedNow DEF Moves, BusyInv, Entered, FramesTyped
<1>15. \A f \in Frames' : f # x => f \in Frames
  BY <1>13 DEF Moves
<1>16. BusyInv'
  <2>1. ASSUME NEW f \in Frames', InTa(Frame(f)')
        PROVE  ctxs'[Frame(f)'.c].busy
    BY <1>4, <1>6, <1>13, <1>14, <1>15, <2>1
  <2>2. ASSUME NEW f \in Frames', NEW g \in Frames', InTa(Frame(f)'), InTa(Frame(g)'),
               Frame(f)'.c = Frame(g)'.c
        PROVE  f = g
    BY <1>0, <1>6, <1>13, <1>14, <1>15, <2>2 DEF BusyInv
  <2>3. ASSUME NEW d \in CtxIds, ctxs'[d].live, ctxs'[d].busy
        PROVE  \E f \in Frames' : Frame(f)'.c = d /\ InTa(Frame(f)')
    <3>1. CASE d = c
      BY <1>6, <1>10, <1>13, <3>1
    <3>2. CASE d # c
      <4>1. PICK f \in Frames : Frame(f).c = d /\ InTa(Frame(f))
        BY <1>0, <1>4, <2>3, <3>2 DEF BusyInv
      <4> QED BY <1>10, <1>13, <1>14, <4>1
    <3> QED BY <3>1, <3>2
  <2> QED BY <2>1, <2>2, <2>3 DEF BusyInv
<1>17. SingleInv'
  <2>1. ASSUME NEW u \in Threads
        PROVE  SingleCount(u)'
    <3> DEFINE n == Cardinality(SingleCalls(u))
               m == Cardinality(SingleCalls(u)')
    <3>1. x \notin SingleCalls(u)
      BY <1>10, <1>13 DEF SingleCalls
    <3>2. x \in SingleCalls(u)' <=> u = t /\ Single(c)
      <4>1. Single(c)' <=> Single(c)
        BY <1>4 DEF Single
      <4> QED BY <1>6, <1>10, <1>13, <4>1 DEF SingleCalls
    <3>3. SameTas
      BY <1>4 DEF SameTas
    <3>4. n \in Nat /\ m \in Nat /\ m = n + (IF u = t /\ Single(c) THEN 1 ELSE 0)
      <4>1. /\ n \in Nat /\ m \in Nat
            /\ m + (IF x \in SingleCalls(u) THEN 1 ELSE 0)
                 = n + (IF x \in SingleCalls(u)' THEN 1 ELSE 0)
        BY <1>0, <1>13, <3>3, SingleChange
      <4> HIDE DEF n, m
      <4> QED BY <3>1, <3>2, <4>1
    <3>5. n = IF single.thread = u THEN single.count ELSE 0
      BY <1>0, SingleCounts DEF SingleInv, SingleCount
    <3> HIDE DEF n, m
    <3>6. NoThread # u /\ single.count \in Nat /\ (single.thread = NoThread => single.count = 0)
      BY <1>0, <1>2, SessionsAssumption DEF SingleInv
    <3>7. m = IF single'.thread = u THEN single'.count ELSE 0
      <4>1. CASE Single(c)
        <5>1. single'.thread = t /\ single'.count = single.count + 1
              /\ single.thread \in {NoThread, t}
          BY <1>3, <4>1 DEF SingleLockTaken
        <5> QED BY <3>4, <3>5, <3>6, <4>1, <5>1
      <4>2. CASE ~Single(c)
        BY <1>3, <3>4, <3>5, <4>2
      <4> QED BY <4>1, <4>2
    <3> QED BY <3>7 DEF SingleCount, m
  <2>2. single'.thread = NoThread => single'.count = 0
    BY <1>0, <1>3, SessionsAssumption DEF SingleInv
  <2> QED BY <2>1, <2>2, SingleCountsNext DEF SingleInv
<1> QED BY <1>13, <1>16, <1>17 DEF IInv, TaInv

\* tee_ta_clear_busy(): the flag and the single-instance lock are those of the
\* call that leaves.
LEMMA ClearBusyStep ==
  ASSUME IInv, NEW t \in Threads, ClearBusy(t)
  PROVE  IInv'
<1> PICK x : x = Pos(t)
  OBVIOUS
<1>0. Types /\ ContextInv /\ BusyInv /\ SingleInv
  BY DEF IInv, TaInv
<1>1. /\ stack[t] # << >> /\ Top(t).pc = "leave" /\ Top(t) \in Call /\ ShapeOf(Top(t))
      /\ x \in Frames /\ Frame(x) = Top(t) /\ CtxOf(x) /\ Top(t).op \in {"open", "invoke", "close"}
  BY AtStep, OpAt DEF ClearBusy
<1> PICK c \in CtxIds : c = Top(t).c
  BY <1>1 DEF ShapeOf, Call
<1>2. /\ c \in Range(tee_ctxes) /\ ctxs \in [CtxIds -> Context]
      /\ single \in [thread : Threads \cup {NoThread}, count : Nat]
      /\ Top(t).op # "close" => sess[Top(t).s].ctx = c
  BY <1>0, <1>1 DEF ShapeOf, CtxOf, Frees, InSession, Types, Tables
<1>3. /\ UNCHANGED << sess, tee_ctxes >> /\ ctxs' = [ctxs EXCEPT ![c].busy = FALSE]
      /\ single' = UnlockSingle(c)
  BY DEF ClearBusy
<1>4. /\ ctxs' \in [CtxIds -> Context]
      /\ \A d \in CtxIds :
           /\ ctxs'[d].live = ctxs[d].live /\ ctxs'[d].ta = ctxs[d].ta
           /\ ctxs'[d].refs = ctxs[d].refs /\ ctxs'[d].panicked = ctxs[d].panicked
           /\ ctxs'[d].busy <=> ctxs[d].busy /\ d # c
           /\ ctxs'[d].init = ctxs[d].init
  BY <1>2, <1>3 DEF Context
<1>5. PICK fr \in Call : fr = [Top(t) EXCEPT !.pc = IF Top(t).op = "close" THEN "dec" ELSE "left"]
  BY <1>1, MovedCall, LocsAre
<1>6. /\ fr.op = Top(t).op /\ fr.s = Top(t).s /\ fr.own = Top(t).own /\ fr.c = c
      /\ fr.pc = IF fr.op = "close" THEN "dec" ELSE "left"
  BY <1>1, <1>5 DEF Call
<1>7. ShapeOf(fr)
  BY <1>1, <1>6 DEF ShapeOf, Places
<1>8. Become(t, fr)
  BY <1>5 DEF ClearBusy, Goto
<1>9. /\ HoldsRef(fr) <=> HoldsRef(Top(t))
      /\ HoldsLock(fr) <=> HoldsLock(Top(t))
  BY <1>1, <1>6 DEF HoldsRef, HoldsLock
<1>10. ~Frees(fr) /\ ~Frees(Top(t)) /\ ~InTa(fr) /\ InTa(Top(t))
  BY <1>1, <1>6 DEF Frees, InTa
<1>12. Marks(fr.c)
  BY <1>4, <1>6 DEF Marks
<1>20. /\ Moves(x) /\ x \in Frames' /\ Frame(x)' = fr /\ x[1] = t
  BY <1>0, <1>1, <1>6, <1>8, BecomeStep DEF Types, Pos
<1>21. Single(c) => single.thread = t /\ single.count # 0
  <2> SUFFICES ASSUME Single(c)
               PROVE  single.thread = t /\ single.count # 0
    OBVIOUS
  <2> DEFINE S == SingleCalls(t)
  <2>1. x \in S
    BY <1>1, <1>10, <1>20 DEF SingleCalls
  <2>2. IsFiniteSet(S)
    BY <1>0, FramesFinite, FS_Subset DEF SingleCalls
  <2>3. Cardinality(S) = IF single.thread = t THEN single.count ELSE 0
    BY <1>0, SingleCounts DEF SingleInv, SingleCount
  <2> HIDE DEF S
  <2>4. Cardinality(S) # 0
    BY <2>1, <2>2, FS_EmptySet
  <2> QED BY <2>3, <2>4
<1>11. single' \in [thread : Threads \cup {NoThread}, count : Nat]
  BY <1>2, <1>3, <1>21 DEF UnlockSingle, SingleFree
<1>13. /\ Types' /\ SessInv' /\ ContextInv'
       /\ x \in Frames /\ Frame(x) = Top(t)
  <2>1. UNCHANGED << sess, tee_ctxes >> /\ ctxs' \in [CtxIds -> Context]
    BY <1>3, <1>4
  <2>2. /\ fr.c \in Range(tee_ctxes)
        /\ fr.op = Top(t).op /\ fr.s = Top(t).s /\ fr.own = Top(t).own /\ fr.c = Top(t).c
        /\ fr.pc \notin {"loading", "destroy", "busy"}
        /\ fr.pc = "opened" => sess[fr.s].ctx = fr.c /\ ~ctxs'[fr.c].panicked
        /\ InSession(fr) => InSession(Top(t)) \/ sess[fr.s].ctx = fr.c
        /\ Top(t).op = "close" /\ Top(t).pc \in {"leave", "dec"} <=>
             fr.op = "close" /\ fr.pc \in {"leave", "dec"}
    BY <1>1, <1>2, <1>6 DEF InSession
  <2> QED BY <1>1, <1>7, <1>8, <1>9, <1>10, <1>11, <1>12, <2>1, <2>2, MarkStep
<1>14. \A f \in Frames : f # x =>
         /\ f \in Frames' /\ Frame(f)' = Frame(f)
         /\ Frame(f) \in Call
         /\ InTa(Frame(f)) => Frame(f).c \in CtxIds /\ ctxs[Frame(f).c].busy /\ Frame(f).c # c
  BY <1>0, <1>10, <1>13, <1>20, InTaEntered, FramesTypedNow
  DEF Moves, BusyInv, Entered, FramesTyped
<1>15. \A f \in Frames' : f # x => f \in Frames
  BY <1>20 DEF Moves
<1>16. BusyInv'
  <2>1. ASSUME NEW f \in Frames', InTa(Frame(f)')
        PROVE  f \in Frames /\ f # x /\ Frame(f)' = Frame(f) /\ InTa(Frame(f))
    BY <1>10, <1>14, <1>15, <1>20, <2>1
  <2>2. ASSUME NEW f \in Frames', InTa(Frame(f)')
        PROVE  ctxs'[Frame(f)'.c].busy
    BY <1>4, <1>14, <2>1, <2>2
  <2>3. ASSUME NEW f \in Frames', NEW g \in Frames', InTa(Frame(f)'), InTa(Frame(g)'),
               Frame(f)'.c = Frame(g)'.c
        PROVE  f = g
    BY <1>0, <2>1, <2>3 DEF BusyInv
  <2>4. ASSUME NEW d \in CtxIds, ctxs'[d].live, ctxs'[d].busy
        PROVE  \E f \in Frames' : Frame(f)'.c = d /\ InTa(Frame(f)')
    <3>1. PICK f \in Frames : Frame(f).c = d /\ InTa(Frame(f))
      BY <1>0, <1>4, <2>4 DEF BusyInv
    <3>2. f # x
      BY <1>4, <1>13, <2>4, <3>1
    <3> QED BY <1>14, <3>1, <3>2
  <2> QED BY <2>2, <2>3, <2>4 DEF BusyInv
<1>17. SingleInv'
  <2>1. ASSUME NEW u \in Threads
        PROVE  SingleCount(u)'
    <3> DEFINE n == Cardinality(SingleCalls(u))
               m == Cardinality(SingleCalls(u)')
    <3>1. x \notin SingleCalls(u)'
      BY <1>10, <1>20 DEF SingleCalls
    <3>2. x \in SingleCalls(u) <=> u = t /\ Single(c)
      BY <1>10, <1>13, <1>20 DEF SingleCalls
    <3>3. SameTas
      BY <1>4 DEF SameTas
    <3>4. n \in Nat /\ m \in Nat /\ n = m + (IF u = t /\ Single(c) THEN 1 ELSE 0)
      <4>1. /\ n \in Nat /\ m \in Nat
            /\ m + (IF x \in SingleCalls(u) THEN 1 ELSE 0)
                 = n + (IF x \in SingleCalls(u)' THEN 1 ELSE 0)
        BY <1>0, <1>13, <1>20, <3>3, SingleChange
      <4> HIDE DEF n, m
      <4> QED BY <3>1, <3>2, <4>1
    <3>5. n = IF single.thread = u THEN single.count ELSE 0
      BY <1>0, SingleCounts DEF SingleInv, SingleCount
    <3> HIDE DEF n, m
    <3>6. NoThread # u /\ single.count \in Nat
      BY <1>2, SessionsAssumption
    <3>7. m = IF single'.thread = u THEN single'.count ELSE 0
      <4>1. CASE Single(c) /\ single.count = 1
        <5>1. single'.thread = NoThread /\ single.thread = t
          BY <1>3, <1>21, <4>1 DEF UnlockSingle, SingleFree
        <5> QED BY <3>4, <3>5, <3>6, <4>1, <5>1
      <4>2. CASE Single(c) /\ single.count # 1
        <5>1. single'.thread = t /\ single.thread = t /\ single'.count = single.count - 1
          BY <1>2, <1>3, <1>21, <4>2 DEF UnlockSingle
        <5> QED BY <3>4, <3>5, <3>6, <4>2, <5>1
      <4>3. CASE ~Single(c)
        BY <1>3, <3>4, <3>5, <4>3 DEF UnlockSingle
      <4> QED BY <4>1, <4>2, <4>3
    <3> QED BY <3>7 DEF SingleCount, m
  <2>2. single'.thread = NoThread => single'.count = 0
    BY <1>0, <1>2, <1>3, <1>21, SessionsAssumption DEF SingleInv, UnlockSingle, SingleFree
  <2> QED BY <2>1, <2>2, SingleCountsNext DEF SingleInv
<1> QED BY <1>13, <1>16, <1>17 DEF IInv, TaInv

\* The steps that only wait, or only fail.
LEMMA SetBusyWaitStep ==
  ASSUME IInv, NEW t \in Threads, SetBusyWait(t)
  PROVE  IInv'
BY IdleStep DEF SetBusyWait

\* tee_ta_init_session() without memory: the open fails before a session is
\* listed.
LEMMA OpenNoMemoryStep ==
  ASSUME IInv, NEW t \in Threads, OpenNoMemory(t)
  PROVE  IInv'
BY IdleStep DEF OpenNoMemory

\* A list that has each element once, and one more.
LEMMA AppendIs ==
  ASSUME NEW S, NEW q \in Seq(S), NEW e \in S, IsInjective(q), e \notin Range(q)
  PROVE  /\ Append(q, e) \in Seq(S) /\ IsInjective(Append(q, e))
         /\ Range(Append(q, e)) = Range(q) \cup {e}
<1> DEFINE r == Append(q, e)
<1>1. /\ r \in Seq(S) /\ Len(q) \in Nat /\ DOMAIN q = 1..Len(q) /\ DOMAIN r = 1..(Len(q) + 1)
      /\ r[Len(q) + 1] = e /\ \A i \in 1..Len(q) : r[i] = q[i]
  BY Sequences3
<1> HIDE DEF r
<1>2. ASSUME NEW i \in DOMAIN r
      PROVE  \/ i \in DOMAIN q /\ r[i] = q[i] /\ r[i] # e
             \/ i = Len(q) + 1 /\ r[i] = e
  BY <1>1 DEF Range
<1>3. IsInjective(r)
  <2> SUFFICES ASSUME NEW i \in DOMAIN r, NEW j \in DOMAIN r, r[i] = r[j]
               PROVE  i = j
    BY DEF IsInjective
  <2> QED BY <1>2 DEF IsInjective
<1>4. Range(r) = Range(q) \cup {e}
  <2>1. ASSUME NEW i \in DOMAIN r PROVE r[i] \in Range(q) \cup {e}
    BY <1>2 DEF Range
  <2>2. ASSUME NEW i \in DOMAIN q PROVE \E j \in DOMAIN r : r[j] = q[i]
    <3>1. i \in DOMAIN r /\ r[i] = q[i]
      BY <1>1
    <3> QED BY <3>1
  <2>3. \E j \in DOMAIN r : r[j] = e
    <3>1. Len(q) + 1 \in DOMAIN r
      BY <1>1
    <3> QED BY <1>1, <3>1
  <2> QED BY <2>1, <2>2, <2>3 DEF Range
<1> QED BY <1>1, <1>3, <1>4 DEF r

\* A place without a context is on no list and in no session or call.
LEMMA Unused ==
  ASSUME IInv, NEW d \in CtxIds, ~ctxs[d].live
  PROVE  /\ d \notin Range(tee_ctxes)
         /\ \A o \in SessIds : sess[o].live => sess[o].ctx # d
         /\ \A f \in Frames : ~Uses(f, d)
<1>0. Types /\ SessInv /\ ContextInv
  BY DEF IInv
<1>1. d \notin Range(tee_ctxes)
  BY <1>0 DEF ContextInv, ListInv, ListOf
<1>2. \A f \in Frames : Frame(f).c # d
  BY <1>0, NamedLoaded DEF CtxIds, NoCtx
<1>3. \A o \in SessIds : sess[o].live => sess[o].ctx # d
  BY <1>0, <1>1, <1>2 DEF ContextInv, CtxInv, SessCtx, CtxIds, NoCtx
<1>4. \A f \in Frames : Frame(f).pc = "opened" => sess[Frame(f).s].ctx # d
  BY <1>0, <1>3, TouchesLive DEF Touches
<1> QED BY <1>1, <1>2, <1>3, <1>4 DEF Uses

\* tee_ta_init_user_ta_session() lists a new context with a count of 1: that of
\* the session of the call.
LEMMA LoadStep ==
  ASSUME IInv, NEW t \in Threads, Load(t)
  PROVE  IInv'
<1> PICK x : x = Pos(t)
  OBVIOUS
<1>0. Types /\ SessInv /\ ContextInv /\ TaInv
  BY DEF IInv
<1>1. /\ stack[t] # << >> /\ Top(t).pc = "load" /\ Top(t) \in Call /\ ShapeOf(Top(t))
      /\ x \in Frames /\ Frame(x) = Top(t) /\ CtxOf(x) /\ Top(t).op = "open" /\ Top(t).c = NoCtx
  BY AtStep, OpAt DEF Load, ShapeOf
<1> PICK s \in SessIds : s = Top(t).s
  BY <1>1 DEF Call
<1>2. PICK d \in CtxIds : d = Least({c \in CtxIds : ~ctxs[c].live}) /\ ~ctxs[d].live
  <2>1. {c \in CtxIds : ~ctxs[c].live} # {} /\ {c \in CtxIds : ~ctxs[c].live} \subseteq Nat
    BY DEF Load, CtxIds
  <2> QED BY <2>1, LeastIn
<1>3. d \notin Range(tee_ctxes) /\ (\A o \in SessIds : sess[o].live => sess[o].ctx # d)
      /\ \A f \in Frames : ~Uses(f, d)
  BY <1>2, Unused
<1>4. /\ tee_ctxes' = Append(tee_ctxes, d) /\ UNCHANGED single
      /\ ctxs' = [ctxs EXCEPT ![d] = [live |-> TRUE, ta |-> Top(t).ta, refs |-> 1,
                       busy |-> FALSE, panicked |-> FALSE, init |-> TRUE]]
      /\ sess' = [sess EXCEPT ![s].ctx = d]
      /\ Become(t, [Top(t) EXCEPT !.pc = "loading", !.c = d])
  BY <1>2 DEF Load
<1>5. /\ ctxs \in [CtxIds -> Context] /\ sess \in [SessIds -> Session]
      /\ tee_ctxes \in Seq(CtxIds) /\ IsInjective(tee_ctxes)
      /\ sess[s].live /\ sess[s].ctx = NoCtx
  <2>1. sess[s].live /\ sess[s].ctx = NoCtx
    BY <1>0, <1>1, TouchesLive DEF Touches, InSession, CtxOf
  <2> QED BY <1>0, <2>1 DEF Types, Tables, ContextInv, ListInv
<1>6. /\ ctxs' \in [CtxIds -> Context]
      /\ \A c \in CtxIds \ {d} : ctxs'[c] = ctxs[c]
      /\ ctxs'[d].live /\ ctxs'[d].refs = 1 /\ ~ctxs'[d].busy /\ ~ctxs'[d].panicked /\ ctxs'[d].init
  <2> DEFINE r == [live |-> TRUE, ta |-> Top(t).ta, refs |-> 1,
                       busy |-> FALSE, panicked |-> FALSE, init |-> TRUE]
  <2>1. /\ r \in Context /\ r.live /\ r.refs = 1 /\ ~r.busy /\ ~r.panicked /\ r.init
    BY <1>1 DEF Context, Call
  <2> HIDE DEF r
  <2>2. ctxs' = [ctxs EXCEPT ![d] = r]
    BY <1>4 DEF r
  <2> QED BY <1>5, <2>1, <2>2
<1>7. /\ sess' \in [SessIds -> Session]
      /\ \A o \in SessIds \ {s} : sess'[o] = sess[o]
      /\ sess'[s].ctx = d /\ SessKept
  <2> DEFINE r == [sess[s] EXCEPT !.ctx = d]
  <2>1. /\ r \in Session /\ r.ctx = d /\ r.live = sess[s].live /\ r.own = sess[s].own
        /\ r.refs = sess[s].refs /\ r.lock = sess[s].lock /\ r.handed = sess[s].handed
    BY <1>5 DEF Session
  <2>2. sess' = [sess EXCEPT ![s] = r]
    BY <1>4, <1>5
  <2> HIDE DEF r
  <2> QED BY <1>5, <2>1, <2>2 DEF SessKept
<1>8. tee_ctxes' \in Seq(CtxIds) /\ IsInjective(tee_ctxes')
      /\ Range(tee_ctxes') = Range(tee_ctxes) \cup {d}
  BY <1>3, <1>4, <1>5, AppendIs
<1>9. PICK fr \in Call :
        /\ Become(t, fr) /\ fr.op = "open" /\ fr.pc = "loading" /\ fr.s = s
        /\ fr.own = Top(t).own /\ fr.c = d
  <2> DEFINE fr == [Top(t) EXCEPT !.pc = "loading", !.c = d]
  <2>1. fr \in Call
    BY <1>1, MovedCall, LocsAre
  <2>2. /\ fr.op = "open" /\ fr.pc = "loading" /\ fr.s = s /\ fr.own = Top(t).own /\ fr.c = d
    BY <1>1 DEF Call
  <2> QED BY <1>4, <2>1, <2>2
<1>10. x \in Frames' /\ Frame(x)' = fr /\ Moves(x) /\ StackOK'
  BY <1>0, <1>1, <1>9, BecomeStep DEF Types
<1>11. d # NoCtx
  BY DEF CtxIds, NoCtx
<1>12. ShapeOf(fr)
  BY <1>9, <1>11 DEF ShapeOf, Places
<1>13. Types'
  BY <1>0, <1>4, <1>6, <1>7, <1>8, <1>10, <1>12, TypesStep DEF Types, Tables
<1>14. /\ HoldsRef(fr) /\ HoldsRef(Frame(x)) /\ ~HoldsLock(fr) /\ ~HoldsLock(Frame(x))
       /\ ~InTa(fr) /\ ~InTa(Frame(x)) /\ ~Frees(fr) /\ ~Frees(Frame(x)) /\ Touches(Frame(x))
  BY <1>1, <1>9 DEF HoldsRef, HoldsLock, InTa, Frees, Touches, InSession
<1>15. SessInv'
  BY <1>0, <1>1, <1>7, <1>9, <1>10, <1>13, <1>14, SessQuiet
<1>16. TaInv'
  <2>1. SameInTas
    BY <1>10, <1>14, SameInTasStep
  <2>2. LoadedKept
    BY <1>2, <1>6 DEF LoadedKept
  <2> QED BY <1>0, <1>4, <2>1, <2>2, InTaEntered, TaQuiet
<1>17. OnlyAt(s, d, x)
  <2>1. \A c \in CtxIds : x \notin Leavers(c)' /\ x \notin Leavers(c)
    BY <1>1, <1>9, <1>10 DEF Leavers
  <2>2. \A c \in CtxIds : c \in Range(tee_ctxes)' <=> c \in Range(tee_ctxes) \cup {d}
    BY <1>8 DEF Range
  <2>3. \A c \in CtxIds \ {d} : sess'[s].ctx # c /\ sess[s].ctx # c
    BY <1>5, <1>7 DEF CtxIds, NoCtx
  <2> QED BY <1>6, <1>7, <2>1, <2>2, <2>3 DEF OnlyAt
<1>18. ListOf(d)'
  <2>1. Members(d)' = {s}
    <3>1. s \in Members(d)'
      BY <1>5, <1>7 DEF Members, SessKept
    <3>2. \A o \in SessIds \ {s} : o \notin Members(d)'
      BY <1>3, <1>7 DEF Members
    <3> QED BY <3>1, <3>2 DEF Members
  <2>2. Leavers(d)' = {}
    <3>1. \A f \in Frames' : f # x => Frame(f)'.c # d
      BY <1>3, <1>10 DEF Moves, Uses
    <3> QED BY <1>9, <1>10, <3>1 DEF Leavers
  <2>3. Cardinality(Members(d)') = 1 /\ Cardinality(Leavers(d)') = 0
    BY <2>1, <2>2, FS_Singleton, FS_EmptySet
  <2> QED BY <1>6, <2>3 DEF ListOf
<1>19. \A f \in Frames : f # x =>
         /\ Frame(f).s = s => ~Touches(Frame(f))
         /\ Frame(f).c # d
         /\ ~(Frame(f).pc = "opened" /\ sess[Frame(f).s].ctx = d)
  BY <1>0, <1>1, <1>3, <1>14, Sole DEF Uses
<1>20. d \in Range(tee_ctxes)' /\ IsInjective(tee_ctxes)'
  BY <1>8 DEF Range, IsInjective
<1>21. CtxOf(x)'
  BY <1>6, <1>7, <1>9, <1>10, <1>11, <1>14, <1>20 DEF CtxOf
<1>22. ContextInv'
  BY <1>0, <1>1, <1>7, <1>9, <1>10, <1>13, <1>14, <1>17, <1>18, <1>19, <1>20, <1>21, CtxMove
<1> QED BY <1>13, <1>15, <1>16, <1>22 DEF IInv

\* The load fails: the context is taken off the list and freed with the
\* session that is the only one in it.
LEMMA LoadFailsStep ==
  ASSUME IInv, NEW t \in Threads, LoadFails(t)
  PROVE  IInv'
<1> PICK x : x = Pos(t)
  OBVIOUS
<1>0. Types /\ SessInv /\ ContextInv /\ TaInv
  BY DEF IInv
<1>1. /\ stack[t] # << >> /\ Top(t).pc = "loading" /\ Top(t) \in Call /\ ShapeOf(Top(t))
      /\ x \in Frames /\ Frame(x) = Top(t) /\ CtxOf(x) /\ Top(t).op = "open"
  BY AtStep, OpAt DEF LoadFails
<1> PICK s \in SessIds : s = Top(t).s
  BY <1>1 DEF Call
<1> PICK d \in CtxIds : d = Top(t).c
  BY <1>1 DEF ShapeOf, Call
<1>2. /\ d \in Range(tee_ctxes) /\ ctxs[d].refs = 1 /\ sess[s].live /\ sess[s].ctx = d
      /\ d # NoCtx
  <2>1. sess[s].live
    BY <1>0, <1>1, TouchesLive DEF Touches, InSession
  <2> QED BY <1>0, <1>1, <2>1 DEF ShapeOf, CtxOf, Frees, InSession
<1>3. \A f \in Frames : f # x => ~Uses(f, d)
  BY <1>0, <1>1, <1>2, Alone DEF Uses
<1>4. /\ tee_ctxes' = RemoveFirst(tee_ctxes, d) /\ UNCHANGED single
      /\ ctxs' = [ctxs EXCEPT ![d].live = FALSE]
      /\ sess' = [sess EXCEPT ![s].ctx = NoCtx]
      /\ Become(t, [Top(t) EXCEPT !.pc = "fail", !.c = NoCtx])
  BY DEF LoadFails
<1>5. /\ ctxs \in [CtxIds -> Context] /\ sess \in [SessIds -> Session]
      /\ tee_ctxes \in Seq(CtxIds) /\ IsInjective(tee_ctxes)
  BY <1>0 DEF Types, Tables, ContextInv, ListInv
<1>6. /\ ctxs' \in [CtxIds -> Context]
      /\ \A c \in CtxIds \ {d} : ctxs'[c] = ctxs[c]
      /\ ctxs'[d].busy = ctxs[d].busy /\ ctxs'[d].ta = ctxs[d].ta /\ ~ctxs'[d].live
  BY <1>4, <1>5 DEF Context
<1>7. /\ sess' \in [SessIds -> Session]
      /\ \A o \in SessIds \ {s} : sess'[o] = sess[o]
      /\ sess'[s].ctx = NoCtx /\ SessKept
  <2> DEFINE r == [sess[s] EXCEPT !.ctx = NoCtx]
  <2>1. /\ r \in Session /\ r.ctx = NoCtx /\ r.live = sess[s].live /\ r.own = sess[s].own
        /\ r.refs = sess[s].refs /\ r.lock = sess[s].lock /\ r.handed = sess[s].handed
    BY <1>5 DEF Session
  <2>2. sess' = [sess EXCEPT ![s] = r]
    BY <1>4, <1>5
  <2> HIDE DEF r
  <2> QED BY <1>5, <2>1, <2>2 DEF SessKept
<1>8. tee_ctxes' \in Seq(CtxIds) /\ IsInjective(tee_ctxes')
      /\ Range(tee_ctxes') = Range(tee_ctxes) \ {d}
  BY <1>4, <1>5, RemoveFirstIs
<1>9. PICK fr \in Call :
        /\ Become(t, fr) /\ fr.op = "open" /\ fr.pc = "fail" /\ fr.s = s
        /\ fr.own = Top(t).own /\ fr.c = NoCtx
  <2> DEFINE fr == [Top(t) EXCEPT !.pc = "fail", !.c = NoCtx]
  <2>1. fr \in Call
    BY <1>1, MovedCall, LocsAre
  <2>2. /\ fr.op = "open" /\ fr.pc = "fail" /\ fr.s = s /\ fr.own = Top(t).own /\ fr.c = NoCtx
    BY <1>1 DEF Call
  <2> QED BY <1>4, <2>1, <2>2
<1>10. x \in Frames' /\ Frame(x)' = fr /\ Moves(x) /\ StackOK'
  BY <1>0, <1>1, <1>9, BecomeStep DEF Types
<1>12. ShapeOf(fr)
  BY <1>9 DEF ShapeOf, Places
<1>13. Types'
  BY <1>0, <1>4, <1>6, <1>7, <1>8, <1>10, <1>12, TypesStep DEF Types, Tables
<1>14. /\ HoldsRef(fr) /\ HoldsRef(Frame(x)) /\ ~HoldsLock(fr) /\ ~HoldsLock(Frame(x))
       /\ ~InTa(fr) /\ ~InTa(Frame(x)) /\ ~Frees(fr) /\ ~Frees(Frame(x)) /\ Touches(Frame(x))
  BY <1>1, <1>9 DEF HoldsRef, HoldsLock, InTa, Frees, Touches, InSession
<1>15. SessInv'
  BY <1>0, <1>1, <1>7, <1>9, <1>10, <1>13, <1>14, SessQuiet
<1>16. TaInv'
  <2>1. SameInTas
    BY <1>10, <1>14, SameInTasStep
  <2>2. LoadedKept
    BY <1>6 DEF LoadedKept
  <2> QED BY <1>0, <1>4, <2>1, <2>2, InTaEntered, TaQuiet
<1>17. OnlyAt(s, d, x)
  <2>1. \A c \in CtxIds : x \notin Leavers(c)' /\ x \notin Leavers(c)
    BY <1>1, <1>9, <1>10 DEF Leavers
  <2>2. \A c \in CtxIds \ {d} : c \in Range(tee_ctxes)' <=> c \in Range(tee_ctxes)
    BY <1>8 DEF Range
  <2>3. \A c \in CtxIds \ {d} : sess'[s].ctx # c /\ sess[s].ctx # c
    BY <1>2, <1>7 DEF CtxIds, NoCtx
  <2> QED BY <1>6, <1>7, <2>1, <2>2, <2>3 DEF OnlyAt
<1>18. d \notin Range(tee_ctxes)' /\ IsInjective(tee_ctxes)'
  BY <1>8 DEF Range, IsInjective
<1>19. \A f \in Frames : f # x =>
         /\ Frame(f).s = s => ~Touches(Frame(f))
         /\ Frame(f).c # d
         /\ ~(Frame(f).pc = "opened" /\ sess[Frame(f).s].ctx = d)
  BY <1>0, <1>1, <1>3, <1>14, Sole DEF Uses
<1>20. \A o \in SessIds : o # s => ~(sess[o].live /\ sess[o].ctx = d)
  <2> SUFFICES ASSUME NEW o \in SessIds, o # s, sess[o].live, sess[o].ctx = d
               PROVE  FALSE
    OBVIOUS
  <2> DEFINE M == Members(d)
             L == Leavers(d)
  <2>1. /\ IsFiniteSet(M) /\ Cardinality(M) \in Nat /\ Cardinality(L) \in Nat
        /\ 1 = Cardinality(M) + Cardinality(L)
    BY <1>0, <1>2, SetsFinite DEF ContextInv, ListInv, ListOf
  <2>2. s \in M /\ o \in M
    BY <1>2 DEF Members
  <2> HIDE DEF M, L
  <2>3. Cardinality(M) >= 2
    BY <2>1, <2>2, One
  <2> QED BY <2>1, <2>3
<1>21. CtxOf(x)'
  BY <1>7, <1>9, <1>10, <1>14 DEF CtxOf
<1>22. ContextInv'
  BY <1>0, <1>1, <1>7, <1>9, <1>10, <1>13, <1>14, <1>17, <1>18, <1>19, <1>20, <1>21, CtxMove
<1> QED BY <1>13, <1>15, <1>16, <1>22 DEF IInv

\* tee_ta_close_session() lowers the context's count and, with the last
\* session of a TA that is not kept, takes it off the list.
LEMMA DropContextStep ==
  ASSUME IInv, NEW t \in Threads, DropContext(t)
  PROVE  IInv'
<1> PICK x : x = Pos(t)
  OBVIOUS
<1>0. Types /\ SessInv /\ ContextInv /\ TaInv
  BY DEF IInv
<1>1. /\ stack[t] # << >> /\ Top(t).pc = "dec" /\ Top(t) \in Call /\ ShapeOf(Top(t))
      /\ x \in Frames /\ Frame(x) = Top(t) /\ CtxOf(x) /\ Top(t).op = "close"
  BY AtStep, OpAt DEF DropContext
<1> PICK d \in CtxIds : d = Top(t).c
  BY <1>1 DEF ShapeOf, Call
<1>2. /\ d \in Range(tee_ctxes) /\ ListOf(d) /\ d # NoCtx
      /\ ctxs \in [CtxIds -> Context] /\ ctxs[d].refs \in Nat
      /\ tee_ctxes \in Seq(CtxIds) /\ IsInjective(tee_ctxes)
  BY <1>0, <1>1 DEF ShapeOf, CtxOf, Frees, ContextInv, ListInv, Types, Tables, Context
<1> DEFINE last == ctxs[d].refs = 1 /\ ~Kept(d)
<1>3. CASE ctxs[d].refs = 0
  <2>1. UNCHANGED << tables, stack >>
    BY <1>3 DEF DropContext, tables
  <2> QED BY <2>1, IdleStep
<1>4. CASE ctxs[d].refs # 0
  <2>1. /\ UNCHANGED << sess, single >>
        /\ ctxs' = [ctxs EXCEPT ![d].refs = @ - 1]
        /\ tee_ctxes' = IF last THEN RemoveFirst(tee_ctxes, d) ELSE tee_ctxes
        /\ IF last THEN Goto(t, "destroycv") ELSE Return(t)
    BY <1>4 DEF DropContext
  <2>2. /\ ctxs' \in [CtxIds -> Context]
        /\ \A c \in CtxIds \ {d} : ctxs'[c] = ctxs[c]
        /\ ctxs'[d].live = ctxs[d].live /\ ctxs'[d].busy = ctxs[d].busy
        /\ ctxs'[d].ta = ctxs[d].ta /\ ctxs'[d].panicked = ctxs[d].panicked
        /\ ctxs'[d].init = ctxs[d].init /\ ctxs'[d].refs = ctxs[d].refs - 1
    <3> DEFINE r == [ctxs[d] EXCEPT !.refs = @ - 1]
    <3>1. /\ r \in Context /\ r.live = ctxs[d].live /\ r.busy = ctxs[d].busy
          /\ r.ta = ctxs[d].ta /\ r.panicked = ctxs[d].panicked
          /\ r.init = ctxs[d].init /\ r.refs = ctxs[d].refs - 1
      BY <1>2, <1>4 DEF Context
    <3>2. ctxs' = [ctxs EXCEPT ![d] = r]
      BY <1>2, <2>1
    <3> HIDE DEF r
    <3> QED BY <1>2, <3>1, <3>2
  <2>3. /\ tee_ctxes' \in Seq(CtxIds) /\ IsInjective(tee_ctxes')
        /\ Range(tee_ctxes') = IF last THEN Range(tee_ctxes) \ {d} ELSE Range(tee_ctxes)
    BY <1>2, <2>1, RemoveFirstIs
  <2>4. /\ Moves(x) /\ StackOK'
        /\ x \in Frames' <=> last
        /\ x \in Frames' =>
             /\ Frame(x)'.op = "close" /\ Frame(x)'.pc = "destroycv" /\ Frame(x)'.s = Top(t).s
             /\ Frame(x)'.own = Top(t).own /\ Frame(x)'.c = d
    <3>1. CASE last
      <4> DEFINE fr == [Top(t) EXCEPT !.pc = "destroycv"]
      <4>1. fr \in Call
        BY <1>1, MovedCall, LocsAre
      <4>2. /\ fr.op = "close" /\ fr.pc = "destroycv" /\ fr.s = Top(t).s
            /\ fr.own = Top(t).own /\ fr.c = d
        BY <1>1 DEF Call
      <4>3. Become(t, fr)
        BY <2>1, <3>1 DEF Goto
      <4> HIDE DEF fr
      <4> QED BY <1>0, <1>1, <3>1, <4>1, <4>2, <4>3, BecomeStep DEF Types
    <3>2. CASE ~last
      BY <1>0, <1>1, <2>1, <3>2, ReturnStep DEF Types
    <3> QED BY <3>1, <3>2
  <2>5. Types'
    <3>1. x \in Frames' => ShapeOf(Frame(x)')
      BY <1>2, <2>4 DEF ShapeOf, Places
    <3> QED BY <1>0, <2>1, <2>2, <2>3, <2>4, <3>1, TypesStep DEF Types, Tables
  <2>6. /\ ~HoldsRef(Frame(x)) /\ ~HoldsLock(Frame(x)) /\ ~InTa(Frame(x)) /\ ~Frees(Frame(x))
        /\ x \in Frames' => ~HoldsRef(Frame(x)') /\ ~HoldsLock(Frame(x)') /\ ~InTa(Frame(x)')
    BY <1>1, <2>4 DEF HoldsRef, HoldsLock, InTa, Frees
  <2>7. SessInv'
    <3>1. SessKept
      BY <2>1 DEF SessKept
    <3> QED BY <1>0, <1>1, <2>4, <2>5, <2>6, <3>1, SessQuiet
  <2>8. TaInv'
    <3>1. SameInTas
      BY <2>4, <2>6, SameInTasStep
    <3>2. LoadedKept
      BY <2>2 DEF LoadedKept
    <3> QED BY <1>0, <2>1, <3>1, <3>2, InTaEntered, TaQuiet
  <2> DEFINE M == Members(d)
             L == Leavers(d)
  <2>9. x \in L
    BY <1>1 DEF Leavers
  <2>10. /\ IsFiniteSet(M) /\ IsFiniteSet(L) /\ Cardinality(M) \in Nat /\ Cardinality(L) \in Nat
         /\ ctxs[d].refs = Cardinality(M) + Cardinality(L)
    BY <1>0, <1>2, SetsFinite DEF ListOf
  <2>11. Cardinality(L) # 0
    <3> HIDE DEF L
    <3> QED BY <2>9, <2>10, FS_EmptySet
  <2>12. ctxs[d].refs = 1 => M = {} /\ \A f \in Frames : f # x => ~Uses(f, d)
    <3>1. ctxs[d].refs = 1 => M = {}
      <4> HIDE DEF M, L
      <4> QED BY <2>10, <2>11, FS_EmptySet
    <3> QED BY <1>0, <1>1, <1>2, <3>1, Alone DEF Uses
  <2>13. OnlyAt(NoSess, d, x)
    <3>1. \A c \in CtxIds \ {d} : x \notin Leavers(c)' /\ x \notin Leavers(c)
      BY <1>1, <2>4 DEF Leavers
    <3>2. \A c \in CtxIds \ {d} : c \in Range(tee_ctxes)' <=> c \in Range(tee_ctxes)
      BY <2>3 DEF Range
    <3> QED BY <2>1, <2>2, <3>1, <3>2 DEF OnlyAt
  <2>14. IsInjective(tee_ctxes)' /\ (d \in Range(tee_ctxes)' <=> ~last)
    BY <1>2, <2>3 DEF Range, IsInjective
  <2>15. d \in Range(tee_ctxes)' => ListOf(d)'
    <3> SUFFICES ASSUME ~last PROVE ListOf(d)'
      BY <2>14
    <3>1. x \notin Leavers(d)' /\ \A f : f # x => (f \in Leavers(d) <=> f \in Leavers(d)')
      BY <2>4 DEF Leavers, Moves
    <3>2. IsFiniteSet(Leavers(d)')
      BY <2>5, SetsFiniteNext
    <3>3. /\ Cardinality(Leavers(d)') + 1 = Cardinality(L)
          /\ Cardinality(Leavers(d)') \in Nat /\ Cardinality(L) \in Nat
      BY <2>9, <2>10, <3>1, <3>2, CountOne
    <3>4. Members(d)' = Members(d)
      BY <2>1 DEF Members
    <3>5. ctxs'[d].refs = Cardinality(Members(d)') + Cardinality(Leavers(d)')
      <4> HIDE DEF L
      <4> QED BY <2>2, <2>10, <3>3, <3>4
    <3>6. /\ ctxs'[d].ta \notin MultiSession \cap SingleInstance => ctxs'[d].refs <= 1
          /\ ctxs'[d].refs = 0 => Kept(d)
      BY <1>2, <2>2 DEF ListOf
    <3> QED BY <1>2, <2>2, <3>5, <3>6 DEF ListOf, Kept
  <2>16. \A f \in Frames : f # x =>
           /\ Frame(f).s # NoSess
           /\ Frame(f).c = d =>
                /\ ~Frees(Frame(f)) /\ d \in Range(tee_ctxes)'
                /\ Frame(f).pc = "loading" =>
                     ctxs'[d].init /\ ctxs'[d].refs = 1 /\ ~ctxs'[d].panicked
                /\ Frame(f).pc = "busy" => ~ctxs'[d].panicked
                /\ Frame(f).pc = "destroy" => ctxs'[d].panicked
           /\ Frame(f).pc = "opened" /\ sess[Frame(f).s].ctx = d => ~ctxs'[d].panicked
    <3> SUFFICES ASSUME NEW f \in Frames, f # x
                 PROVE
           /\ Frame(f).s # NoSess
           /\ Frame(f).c = d =>
                /\ ~Frees(Frame(f)) /\ d \in Range(tee_ctxes)'
                /\ Frame(f).pc = "loading" =>
                     ctxs'[d].init /\ ctxs'[d].refs = 1 /\ ~ctxs'[d].panicked
                /\ Frame(f).pc = "busy" => ~ctxs'[d].panicked
                /\ Frame(f).pc = "destroy" => ctxs'[d].panicked
           /\ Frame(f).pc = "opened" /\ sess[Frame(f).s].ctx = d => ~ctxs'[d].panicked
      OBVIOUS
    <3>1. CtxOf(f) /\ Frame(f).s \in SessIds
      BY <1>0, FramesTypedNow DEF FramesTyped, ContextInv, CtxInv, Call
    <3>2. Uses(f, d) => ~last /\ Frame(f).pc # "loading"
      BY <2>12, <3>1 DEF Uses, CtxOf
    <3> QED BY <1>2, <2>2, <2>14, <3>1, <3>2 DEF CtxOf, Uses, SessIds, NoSess
  <2>17. x \in Frames' => CtxOf(x)'
    <3> SUFFICES ASSUME x \in Frames' PROVE CtxOf(x)'
      OBVIOUS
    <3>1. Frees(Frame(x)') /\ ~InSession(Frame(x)')
      BY <2>4 DEF Frees, InSession
    <3>2. ctxs'[d].live /\ d \notin Range(tee_ctxes)'
      BY <1>2, <2>2, <2>4, <2>14 DEF ListOf
    <3>3. \A g \in Frames' : Frame(g)'.c = d => g = x
      BY <2>4, <2>12 DEF Moves, Uses
    <3>4. Members(d)' = {}
      BY <2>1, <2>4, <2>12 DEF Members
    <3> QED BY <2>4, <3>1, <3>2, <3>3, <3>4 DEF CtxOf
  <2>18. ContextInv'
    <3>1. NoSess \notin SessIds
      BY DEF NoSess, SessIds
    <3>2. \A o \in SessIds : o # NoSess /\ sess[o].live /\ sess[o].ctx = d =>
            d \in Range(tee_ctxes)'
      BY <2>12, <2>14 DEF Members
    <3> QED BY <1>0, <1>1, <2>4, <2>5, <2>6, <2>13, <2>14, <2>15, <2>16, <2>17, <3>1, <3>2, CtxMove
  <2> QED BY <2>5, <2>7, <2>8, <2>18 DEF IInv
<1> QED BY <1>3, <1>4

\* destroy_ta_ctx_from_session(): the context of a dead TA is taken off the
\* list; with one session in it, only this call can have seen it there.
LEMMA DestroyContextStep ==
  ASSUME Orderly, IInv, NEW t \in Threads, DestroyContext(t)
  PROVE  IInv'
<1> PICK x : x = Pos(t)
  OBVIOUS
<1>0. Types /\ SessInv /\ ContextInv /\ TaInv
  BY DEF IInv
<1>1. /\ stack[t] # << >> /\ Top(t).pc = "destroy" /\ Top(t) \in Call /\ ShapeOf(Top(t))
      /\ x \in Frames /\ Frame(x) = Top(t) /\ CtxOf(x) /\ Top(t).op = "invoke"
  BY AtStep, OpAt DEF DestroyContext
<1> PICK s \in SessIds : s = Top(t).s
  BY <1>1 DEF Call
<1> PICK d \in CtxIds : d = Top(t).c
  BY <1>1 DEF ShapeOf, Call
<1>2. /\ d \in Range(tee_ctxes) /\ ListOf(d) /\ d # NoCtx /\ ctxs[d].panicked
      /\ sess[s].live /\ sess[s].ctx = d
  <2>1. sess[s].live
    BY <1>0, <1>1, TouchesLive DEF Touches, InSession
  <2> QED BY <1>0, <1>1, <2>1 DEF ShapeOf, CtxOf, Frees, InSession, ContextInv, ListInv
<1>3. /\ ctxs \in [CtxIds -> Context] /\ sess \in [SessIds -> Session]
      /\ tee_ctxes \in Seq(CtxIds) /\ IsInjective(tee_ctxes)
  BY <1>0 DEF Types, Tables, ContextInv, ListInv
<1>4. ctxs[d].refs <= 1
  BY <1>2 DEF ListOf, Orderly
<1>5. \A f \in Frames : f # x => ~Uses(f, d)
  BY <1>0, <1>1, <1>2, <1>4, Alone DEF Uses
<1>6. \A o \in SessIds : o # s => ~(sess[o].live /\ sess[o].ctx = d)
  <2> SUFFICES ASSUME NEW o \in SessIds, o # s, sess[o].live, sess[o].ctx = d
               PROVE  FALSE
    OBVIOUS
  <2> DEFINE M == Members(d)
             L == Leavers(d)
  <2>1. /\ IsFiniteSet(M) /\ Cardinality(M) \in Nat /\ Cardinality(L) \in Nat
        /\ ctxs[d].refs = Cardinality(M) + Cardinality(L)
    BY <1>0, <1>2, SetsFinite DEF ListOf
  <2>2. s \in M /\ o \in M
    BY <1>2 DEF Members
  <2> HIDE DEF M, L
  <2>3. Cardinality(M) >= 2
    BY <2>1, <2>2, One
  <2> QED BY <1>4, <2>1, <2>3
<1>7. CASE UNCHANGED << sess, tee_ctxes, stack >>
  <2>1. UNCHANGED << tables, stack >>
    BY <1>7 DEF DestroyContext, tables
  <2> QED BY <2>1, IdleStep
<1>8. CASE ~UNCHANGED << sess, tee_ctxes, stack >>
  <2> DEFINE others == {o \in SessIds \ {s} :
                          /\ sess[o].live /\ sess[o].ctx = sess[s].ctx
                          /\ sess[o].own \in {Nsec} \cup Range(tee_ctxes)}
  <2>1. /\ UNCHANGED << ctxs, single >>
        /\ sess' = [o \in SessIds |-> IF o \in others THEN [sess[o] EXCEPT !.ctx = NoCtx]
                                                     ELSE sess[o]]
        /\ tee_ctxes' = RemoveFirst(tee_ctxes, sess[s].ctx)
        /\ Become(t, [Top(t) EXCEPT !.pc = "destroycv", !.c = sess[s].ctx])
    BY <1>8 DEF DestroyContext
  <2>2. others = {}
    BY <1>2, <1>6
  <2> HIDE DEF others
  <2>3. sess' = sess
    BY <1>3, <2>1, <2>2
  <2>4. tee_ctxes' \in Seq(CtxIds) /\ IsInjective(tee_ctxes')
        /\ Range(tee_ctxes') = Range(tee_ctxes) \ {d}
    BY <1>2, <1>3, <2>1, RemoveFirstIs
  <2>5. PICK fr \in Call :
          /\ Become(t, fr) /\ fr.op = "invoke" /\ fr.pc = "destroycv" /\ fr.s = s
          /\ fr.own = Top(t).own /\ fr.c = d
    <3> DEFINE fr == [Top(t) EXCEPT !.pc = "destroycv", !.c = d]
    <3>1. fr \in Call
      BY <1>1, MovedCall, LocsAre
    <3>2. /\ fr.op = "invoke" /\ fr.pc = "destroycv" /\ fr.s = s /\ fr.own = Top(t).own
          /\ fr.c = d
      BY <1>1 DEF Call
    <3> QED BY <1>2, <2>1, <3>1, <3>2
  <2>6. x \in Frames' /\ Frame(x)' = fr /\ Moves(x) /\ StackOK'
    BY <1>0, <1>1, <2>5, BecomeStep DEF Types
  <2>7. ShapeOf(fr)
    BY <1>2, <2>5 DEF ShapeOf, Places
  <2>8. Types'
    BY <1>0, <2>1, <2>3, <2>4, <2>6, <2>7, TypesStep DEF Types, Tables
  <2>9. /\ HoldsRef(fr) /\ HoldsRef(Frame(x)) /\ HoldsLock(fr) /\ HoldsLock(Frame(x))
        /\ ~InTa(fr) /\ ~InTa(Frame(x)) /\ Frees(fr) /\ ~Frees(Frame(x)) /\ Touches(Frame(x))
        /\ ~InSession(fr)
    BY <1>1, <2>5 DEF HoldsRef, HoldsLock, InTa, Frees, Touches, InSession
  <2>10. SessInv'
    <3>1. SessKept
      BY <2>3 DEF SessKept
    <3> QED BY <1>0, <1>1, <2>5, <2>6, <2>8, <2>9, <3>1, SessQuiet
  <2>11. TaInv'
    <3>1. SameInTas
      BY <2>6, <2>9, SameInTasStep
    <3>2. LoadedKept
      BY <2>1 DEF LoadedKept
    <3> QED BY <1>0, <2>1, <3>1, <3>2, InTaEntered, TaQuiet
  <2>12. OnlyAt(s, d, x)
    <3>1. \A c \in CtxIds : x \notin Leavers(c)' /\ x \notin Leavers(c)
      BY <1>1, <2>5, <2>6 DEF Leavers
    <3>2. \A c \in CtxIds \ {d} : c \in Range(tee_ctxes)' <=> c \in Range(tee_ctxes)
      BY <2>4 DEF Range
    <3> QED BY <2>1, <2>3, <3>1, <3>2 DEF OnlyAt
  <2>13. d \notin Range(tee_ctxes)' /\ IsInjective(tee_ctxes)'
    BY <2>4 DEF Range, IsInjective
  <2>14. \A f \in Frames : f # x =>
           /\ Frame(f).s = s => ~Touches(Frame(f))
           /\ Frame(f).c # d
           /\ ~(Frame(f).pc = "opened" /\ sess[Frame(f).s].ctx = d)
    BY <1>0, <1>1, <1>5, <2>9, Sole DEF Uses
  <2>15. CtxOf(x)'
    <3>1. \A g \in Frames' : Frame(g)'.c = d => g = x
      BY <2>6, <2>14 DEF Moves
    <3>2. \A o \in Members(d)' : o = s
      BY <1>6, <2>3 DEF Members
    <3> QED BY <1>2, <2>1, <2>3, <2>5, <2>6, <2>9, <2>13, <3>1, <3>2 DEF CtxOf, ListOf
  <2>16. ContextInv'
    BY <1>0, <1>1, <1>2, <1>6, <2>3, <2>5, <2>6, <2>8, <2>9, <2>12, <2>13, <2>14, <2>15, CtxMove
  <2> QED BY <2>8, <2>10, <2>11, <2>16 DEF IInv
<1> QED BY <1>7, <1>8

\* free_utc() has closed the dead TA's sessions: the context is freed.
LEMMA FreeContextStep ==
  ASSUME IInv, NEW t \in Threads, FreeContext(t)
  PROVE  IInv'
<1> PICK x : x = Pos(t)
  OBVIOUS
<1>0. Types /\ SessInv /\ ContextInv /\ TaInv
  BY DEF IInv
<1>1. /\ stack[t] # << >> /\ Top(t).pc = "free" /\ Top(t) \in Call /\ ShapeOf(Top(t))
      /\ x \in Frames /\ Frame(x) = Top(t) /\ CtxOf(x) /\ Top(t).op \in {"invoke", "close"}
  BY AtStep, OpAt DEF FreeContext
<1> PICK s \in SessIds : s = Top(t).s
  BY <1>1 DEF Call
<1> PICK d \in CtxIds : d = Top(t).c
  BY <1>1 DEF ShapeOf, Call
<1>2. /\ d \notin Range(tee_ctxes) /\ d # NoCtx
      /\ \A f \in Frames : f # x => Frame(f).c # d
      /\ \A o \in SessIds : sess[o].live /\ sess[o].ctx = d => Top(t).op = "invoke" /\ o = s
      /\ Top(t).op = "invoke" => sess[s].ctx = d
  BY <1>1 DEF ShapeOf, CtxOf, Frees, Members
<1>3. /\ ctxs \in [CtxIds -> Context] /\ sess \in [SessIds -> Session]
      /\ UNCHANGED << tee_ctxes, single >> /\ ctxs' = [ctxs EXCEPT ![d].live = FALSE]
      /\ IsInjective(tee_ctxes)
  BY <1>0 DEF Types, Tables, FreeContext, ContextInv, ListInv
<1>4. /\ ctxs' \in [CtxIds -> Context]
      /\ \A c \in CtxIds \ {d} : ctxs'[c] = ctxs[c]
      /\ ctxs'[d].busy = ctxs[d].busy /\ ctxs'[d].ta = ctxs[d].ta /\ ~ctxs'[d].live
  BY <1>3 DEF Context
<1>5. LoadedKept
  BY <1>4 DEF LoadedKept
<1>6. /\ ~InTa(Frame(x)) /\ Frees(Frame(x))
      /\ Range(tee_ctxes)' = Range(tee_ctxes) /\ IsInjective(tee_ctxes)'
  BY <1>1, <1>3 DEF InTa, Frees, Range, IsInjective
<1>7. \A f \in Frames : f # x =>
        ~(Frame(f).pc = "opened" /\ sess[Frame(f).s].ctx = d /\ Frame(f).s # s)
  <2>1. \A f \in Frames : Frame(f).pc = "opened" => Frame(f).s \in SessIds /\ sess[Frame(f).s].live
    BY <1>0, TouchesLive DEF Touches
  <2> QED BY <1>2, <2>1
<1>8. CASE Top(t).op = "close"
  <2>1. sess' = sess /\ Return(t)
    BY <1>8 DEF FreeContext
  <2>2. x \notin Frames' /\ Moves(x) /\ StackOK'
    BY <1>0, <1>1, <2>1, ReturnStep DEF Types
  <2>3. Types'
    BY <1>0, <1>3, <1>4, <2>1, <2>2, TypesStep DEF Types, Tables
  <2>4. SessInv'
    <3>1. SessKept
      BY <2>1 DEF SessKept
    <3>2. ~HoldsRef(Frame(x))
      BY <1>1, <1>8 DEF HoldsRef
    <3> QED BY <1>0, <1>1, <2>2, <2>3, <3>1, <3>2, SessQuiet
  <2>5. TaInv'
    <3>1. SameInTas
      BY <1>6, <2>2, SameInTasStep
    <3> QED BY <1>0, <1>3, <1>5, <3>1, InTaEntered, TaQuiet
  <2>6. OnlyAt(NoSess, d, x)
    <3>1. \A c \in CtxIds : x \notin Leavers(c)' /\ x \notin Leavers(c)
      BY <1>1, <2>2 DEF Leavers
    <3> QED BY <1>4, <1>6, <2>1, <3>1 DEF OnlyAt
  <2>7. NoSess \notin SessIds /\ \A f \in Frames : Frame(f).s # NoSess /\ Frame(f).s \in SessIds
    BY <1>0, FramesTypedNow DEF NoSess, SessIds, FramesTyped, Call
  <2>8. \A o \in SessIds : ~(sess[o].live /\ sess[o].ctx = d)
    BY <1>2, <1>8
  <2>9. \A f \in Frames : Frame(f).pc = "opened" => sess[Frame(f).s].ctx # d
    BY <1>0, <2>8, TouchesLive DEF Touches
  <2>10. ContextInv'
    BY <1>0, <1>1, <1>2, <1>6, <1>8, <2>2, <2>3, <2>6, <2>7, <2>8, <2>9, CtxMove
  <2> QED BY <2>3, <2>4, <2>5, <2>10 DEF IInv
<1>9. CASE Top(t).op = "invoke"
  <2>1. /\ sess' = [sess EXCEPT ![s].ctx = NoCtx]
        /\ Become(t, [Top(t) EXCEPT !.pc = "put", !.c = NoCtx])
    BY <1>9 DEF FreeContext
  <2>2. /\ sess' \in [SessIds -> Session]
        /\ \A o \in SessIds \ {s} : sess'[o] = sess[o]
        /\ sess'[s].ctx = NoCtx /\ SessKept
    <3> DEFINE r == [sess[s] EXCEPT !.ctx = NoCtx]
    <3>1. /\ r \in Session /\ r.ctx = NoCtx /\ r.live = sess[s].live /\ r.own = sess[s].own
          /\ r.refs = sess[s].refs /\ r.lock = sess[s].lock /\ r.handed = sess[s].handed
      BY <1>3 DEF Session
    <3>2. sess' = [sess EXCEPT ![s] = r]
      BY <1>3, <2>1
    <3> HIDE DEF r
    <3> QED BY <1>3, <3>1, <3>2 DEF SessKept
  <2>3. PICK fr \in Call :
          /\ Become(t, fr) /\ fr.op = "invoke" /\ fr.pc = "put" /\ fr.s = s
          /\ fr.own = Top(t).own /\ fr.c = NoCtx
    <3> DEFINE fr == [Top(t) EXCEPT !.pc = "put", !.c = NoCtx]
    <3>1. fr \in Call
      BY <1>1, MovedCall, LocsAre
    <3>2. /\ fr.op = "invoke" /\ fr.pc = "put" /\ fr.s = s /\ fr.own = Top(t).own
          /\ fr.c = NoCtx
      BY <1>1, <1>9 DEF Call
    <3> QED BY <2>1, <3>1, <3>2
  <2>4. x \in Frames' /\ Frame(x)' = fr /\ Moves(x) /\ StackOK'
    BY <1>0, <1>1, <2>3, BecomeStep DEF Types
  <2>5. ShapeOf(fr)
    BY <2>3 DEF ShapeOf, Places
  <2>6. Types'
    BY <1>0, <1>3, <1>4, <2>2, <2>4, <2>5, TypesStep DEF Types, Tables
  <2>7. /\ HoldsRef(fr) /\ HoldsRef(Frame(x)) /\ HoldsLock(fr) /\ HoldsLock(Frame(x))
        /\ ~InTa(fr) /\ ~Frees(fr) /\ Touches(Frame(x))
    BY <1>1, <1>9, <2>3 DEF HoldsRef, HoldsLock, InTa, Frees, Touches
  <2>8. SessInv'
    BY <1>0, <1>1, <1>9, <2>2, <2>3, <2>4, <2>6, <2>7, SessQuiet
  <2>9. TaInv'
    <3>1. SameInTas
      BY <1>6, <2>4, <2>7, SameInTasStep
    <3> QED BY <1>0, <1>3, <1>5, <3>1, InTaEntered, TaQuiet
  <2>10. OnlyAt(s, d, x)
    <3>1. \A c \in CtxIds : x \notin Leavers(c)' /\ x \notin Leavers(c)
      BY <1>1, <2>3, <2>4 DEF Leavers
    <3>2. \A c \in CtxIds \ {d} : sess'[s].ctx # c /\ sess[s].ctx # c
      BY <1>2, <1>9, <2>2 DEF CtxIds, NoCtx
    <3> QED BY <1>4, <1>6, <2>2, <3>1, <3>2 DEF OnlyAt
  <2>11. \A f \in Frames : f # x =>
           /\ Frame(f).s = s => ~Touches(Frame(f))
           /\ Frame(f).c # d
           /\ ~(Frame(f).pc = "opened" /\ sess[Frame(f).s].ctx = d)
    <3>1. \A f \in Frames : f # x => (Frame(f).s = s => ~Touches(Frame(f)))
      BY <1>0, <1>1, <2>7, Sole
    <3> QED BY <1>2, <1>7, <3>1 DEF Touches
  <2>12. CtxOf(x)'
    BY <2>2, <2>3, <2>4, <2>7 DEF CtxOf
  <2>13. ContextInv'
    BY <1>0, <1>1, <1>2, <1>6, <2>2, <2>3, <2>4, <2>6, <2>10, <2>11, <2>12, CtxMove
  <2> QED BY <2>6, <2>8, <2>9, <2>13 DEF IInv
<1> QED BY <1>1, <1>8, <1>9

\* What tee_ta_init_session_with_context() ends in: a load, a wait or a
\* failure, or a context that it joins.
Misses(t, base, fr, ss) ==
  \E loc \in {"load", "lookup", "fail"} :
    /\ stack' = [stack EXCEPT ![t] = Append(base, [fr EXCEPT !.pc = loc])]
    /\ sess' = ss /\ ctxs' = ctxs
\* The call joins a context that is listed.
Joins(t, base, fr, ss) ==
  \E d \in Range(tee_ctxes) :
    /\ ctxs[d].ta = fr.ta /\ ctxs[d].ta \in SingleInstance
    /\ ~ctxs[d].init /\ ~Taken(d) /\ ctxs' = Joined(d)
    /\ sess' = [ss EXCEPT ![fr.s].ctx = d]
    /\ stack' = [stack EXCEPT ![t] = Append(base, [fr EXCEPT !.pc = "opened"])]

\* tee_ta_init_session_with_context() does one or the other.
LEMMA LookupIs ==
  ASSUME Types, NEW t, NEW base, NEW fr, NEW ss, Lookup(t, base, fr, ss)
  PROVE  Misses(t, base, fr, ss) \/ Joins(t, base, fr, ss)
<1>1. CASE Found(fr.ta) = {}
  BY <1>1 DEF Lookup, Misses
<1>2. CASE Found(fr.ta) # {}
  <2>1. Found(fr.ta) \subseteq Nat /\ Found(fr.ta) \subseteq DOMAIN tee_ctxes
    BY DEF Found, Types, Tables
  <2>2. Least(Found(fr.ta)) \in DOMAIN tee_ctxes /\ Least(Found(fr.ta)) \in Found(fr.ta)
    BY <1>2, <2>1, LeastIn
  <2> DEFINE c == tee_ctxes[Least(Found(fr.ta))]
  <2>3. c \in Range(tee_ctxes) /\ ctxs[c].ta = fr.ta
    BY <2>2 DEF Range, Found
  <2>4. CASE ~ctxs[c].init /\ fr.ta \notin SingleInstance
    BY <2>4 DEF Lookup, Misses
  <2>5. CASE ~(~ctxs[c].init /\ fr.ta \notin SingleInstance)
    <3>1. \/ /\ ctxs[c].init
             /\ stack' = [stack EXCEPT ![t] = Append(base, [fr EXCEPT !.pc = "lookup"])]
             /\ sess' = ss /\ ctxs' = ctxs
          \/ /\ ~ctxs[c].init /\ Taken(c)
             /\ stack' = [stack EXCEPT ![t] = Append(base, [fr EXCEPT !.pc = "fail"])]
             /\ sess' = ss /\ ctxs' = ctxs
          \/ /\ ~ctxs[c].init /\ ~Taken(c) /\ ctxs' = Joined(c)
             /\ sess' = [ss EXCEPT ![fr.s].ctx = c]
             /\ stack' = [stack EXCEPT ![t] = Append(base, [fr EXCEPT !.pc = "opened"])]
      BY <1>2, <2>5 DEF Lookup
    <3> QED BY <2>3, <2>5, <3>1 DEF Misses, Joins
  <2> QED BY <2>4, <2>5
<1> QED BY <1>1, <1>2

\* The session s joins the loaded context d.
LEMMA JoinStep ==
  ASSUME Orderly, IInv, Types', NEW x, Moves(x), NEW s \in SessIds, NEW d \in CtxIds,
         d \in Range(tee_ctxes), ctxs[d].ta \in SingleInstance, ~ctxs[d].init,
         ~Taken(d), ctxs' = Joined(d),
         UNCHANGED tee_ctxes,
         sess[s].live => sess[s].ctx = NoCtx, sess'[s].live, sess'[s].ctx = d,
         \A o \in SessIds \ {s} : sess'[o] = sess[o],
         \A f \in Frames : f # x => (Frame(f).s = s => ~Touches(Frame(f))),
         x \in Frames', Frame(x)'.op = "open", Frame(x)'.pc = "opened", Frame(x)'.s = s,
         Frame(x)'.c = NoCtx, x \in Frames => Frame(x).op = "open"
  PROVE  ContextInv' /\ LoadedKept
<1>0. Types /\ SessInv /\ ContextInv
  BY DEF IInv
<1>1. /\ d # NoCtx /\ ListOf(d) /\ ctxs \in [CtxIds -> Context] /\ ctxs[d].refs \in Nat
      /\ IsInjective(tee_ctxes)' /\ Range(tee_ctxes)' = Range(tee_ctxes)
  BY <1>0 DEF CtxIds, NoCtx, ContextInv, ListInv, Types, Tables, Context, IsInjective, Range
<1>2. /\ \A c \in CtxIds \ {d} : ctxs'[c] = ctxs[c]
      /\ ctxs'[d].live = ctxs[d].live /\ ctxs'[d].busy = ctxs[d].busy
      /\ ctxs'[d].ta = ctxs[d].ta /\ ctxs'[d].panicked = ctxs[d].panicked
      /\ ctxs'[d].init = ctxs[d].init /\ ctxs'[d].refs = ctxs[d].refs + 1
  <2> DEFINE r == [ctxs[d] EXCEPT !.refs = @ + 1]
  <2>1. /\ r.live = ctxs[d].live /\ r.busy = ctxs[d].busy
        /\ r.ta = ctxs[d].ta /\ r.panicked = ctxs[d].panicked
        /\ r.init = ctxs[d].init /\ r.refs = ctxs[d].refs + 1
    BY <1>1 DEF Context
  <2>2. ctxs' = [ctxs EXCEPT ![d] = r]
    BY <1>1 DEF Joined
  <2> HIDE DEF r
  <2> QED BY <1>1, <2>1, <2>2
<1>3. LoadedKept
  BY <1>2 DEF LoadedKept
<1>4. ~ctxs[d].panicked
  BY <1>1 DEF ListOf, Orderly, Taken, Kept
<1>5. /\ ~InSession(Frame(x)') /\ ~Frees(Frame(x)')
      /\ x \in Frames => \A c \in CtxIds : x \notin Leavers(c)
      /\ \A c \in CtxIds : x \notin Leavers(c)'
  BY DEF InSession, Frees, Leavers
<1>6. OnlyAt(s, d, x)
  <2>1. \A c \in CtxIds : x \notin Leavers(c)' /\ x \notin Leavers(c)
    BY <1>5 DEF Leavers
  <2>2. \A c \in CtxIds \ {d} : sess'[s].ctx # c /\ (sess[s].live => sess[s].ctx # c)
    BY DEF CtxIds, NoCtx
  <2> QED BY <1>1, <1>2, <2>1, <2>2 DEF OnlyAt
<1>7. ListOf(d)'
  <2>1. /\ s \in Members(d)' /\ s \notin Members(d)
        /\ \A o : o # s => (o \in Members(d) <=> o \in Members(d)')
    BY <1>1 DEF Members
  <2>2. Leavers(d)' = Leavers(d)
    <3>1. \A f : f # x => (f \in Leavers(d)' <=> f \in Leavers(d))
      BY DEF Moves, Leavers
    <3>2. x \notin Leavers(d)' /\ x \notin Leavers(d)
      BY <1>5 DEF Leavers
    <3> QED BY <3>1, <3>2
  <2>3. /\ IsFiniteSet(Members(d)) /\ IsFiniteSet(Members(d)') /\ Cardinality(Leavers(d)) \in Nat
    BY <1>0, SetsFinite, SetsFiniteNext
  <2>4. /\ Cardinality(Members(d)') = Cardinality(Members(d)) + 1
        /\ Cardinality(Members(d)) \in Nat /\ Cardinality(Members(d)') \in Nat
    BY <2>1, <2>3, CountOne
  <2>5. ctxs'[d].refs = Cardinality(Members(d)') + Cardinality(Leavers(d)')
    BY <1>1, <1>2, <2>2, <2>3, <2>4 DEF ListOf
  <2>6. /\ ctxs'[d].ta \notin MultiSession \cap SingleInstance => ctxs'[d].refs <= 1
        /\ ctxs'[d].refs # 0
    BY <1>1, <1>2 DEF Taken
  <2> QED BY <1>1, <1>2, <2>5, <2>6 DEF ListOf
<1>8. \A f \in Frames : f # x =>
        /\ Frame(f).c = d =>
             /\ ~Frees(Frame(f)) /\ d \in Range(tee_ctxes)'
             /\ Frame(f).pc = "loading" =>
                  ctxs'[d].init /\ ctxs'[d].refs = 1 /\ ~ctxs'[d].panicked
             /\ Frame(f).pc = "busy" => ~ctxs'[d].panicked
             /\ Frame(f).pc = "destroy" => ctxs'[d].panicked
        /\ Frame(f).pc = "opened" /\ sess[Frame(f).s].ctx = d => ~ctxs'[d].panicked
  BY <1>0, <1>1, <1>2, <1>4 DEF ContextInv, CtxInv, CtxOf
<1>9. CtxOf(x)'
  BY <1>1, <1>2, <1>4, <1>5 DEF CtxOf
<1>10. ContextInv'
  <2>1. x \in Frames /\ Frame(x).op = "invoke" /\ Frees(Frame(x)) => Frame(x).s = s
    OBVIOUS
  <2>2. sess'[s].ctx \in Range(tee_ctxes)' /\ d \in Range(tee_ctxes)'
    BY <1>1
  <2> QED BY <1>0, <1>6, <1>7, <1>8, <1>9, <1>1, <2>1, <2>2, CtxMove
<1> QED BY <1>3, <1>10

\* The same after the wait for a TA that was being loaded.
LEMMA LookupAgainStep ==
  ASSUME Orderly, IInv, NEW t \in Threads, LookupAgain(t)
  PROVE  IInv'
<1> PICK x : x = Pos(t)
  OBVIOUS
<1>0. Types /\ SessInv /\ ContextInv /\ TaInv
  BY DEF IInv
<1>1. /\ stack[t] # << >> /\ Top(t).pc = "lookup" /\ Top(t) \in Call /\ ShapeOf(Top(t))
      /\ x \in Frames /\ Frame(x) = Top(t) /\ CtxOf(x) /\ Top(t).op = "open" /\ Top(t).c = NoCtx
  BY AtStep, OpAt DEF LookupAgain, ShapeOf
<1> PICK s \in SessIds : s = Top(t).s
  BY <1>1 DEF Call
<1>2. sess[s].live /\ sess[s].ctx = NoCtx /\ Touches(Frame(x))
  BY <1>0, <1>1, TouchesLive DEF Touches, InSession, CtxOf
<1>3. UNCHANGED << tee_ctxes, single >>
  BY DEF LookupAgain
<1>4. CASE Misses(t, Front(stack[t]), Top(t), sess)
  <2> PICK loc \in {"load", "lookup", "fail"} :
        Become(t, [Top(t) EXCEPT !.pc = loc]) /\ sess' = sess /\ ctxs' = ctxs
    BY <1>4 DEF Misses, Become
  <2>1. PICK fr \in Call : fr = [Top(t) EXCEPT !.pc = loc]
    BY <1>1, MovedCall, LocsAre
  <2>2. /\ fr.op = "open" /\ fr.pc = loc /\ fr.s = s /\ fr.own = Top(t).own /\ fr.c = NoCtx
        /\ Become(t, fr)
    BY <1>1, <2>1 DEF Call
  <2>3. ShapeOf(fr)
    BY <2>2 DEF ShapeOf, Places
  <2>4. /\ HoldsRef(fr) /\ HoldsRef(Top(t)) /\ ~HoldsLock(fr) /\ ~HoldsLock(Top(t))
        /\ ~InTa(fr) /\ ~InTa(Top(t)) /\ ~Frees(fr) /\ ~Frees(Top(t))
    BY <1>1, <2>2 DEF HoldsRef, HoldsLock, InTa, Frees
  <2>5. CtxFor(x, fr)
    BY <1>2, <2>2, <2>4 DEF CtxFor
  <2>6. UNCHANGED tables
    BY <1>3 DEF tables
  <2>7. /\ ~(Top(t).op = "close" /\ Top(t).pc \in {"leave", "dec"})
        /\ ~(fr.op = "close" /\ fr.pc \in {"leave", "dec"})
    BY <1>1, <2>2
  <2> QED BY <1>1, <2>2, <2>3, <2>4, <2>5, <2>6, <2>7, PlainStep
<1>5. CASE Joins(t, Front(stack[t]), Top(t), sess)
  <2>1. PICK d \in Range(tee_ctxes) :
        /\ ctxs[d].ta \in SingleInstance
        /\ ~ctxs[d].init /\ ~Taken(d) /\ ctxs' = Joined(d)
        /\ sess' = [sess EXCEPT ![s].ctx = d]
        /\ Become(t, [Top(t) EXCEPT !.pc = "opened"])
    BY <1>5 DEF Joins, Become
  <2>2. d \in CtxIds
    BY <1>0 DEF Types, Tables, Range
  <2>3. /\ sess' \in [SessIds -> Session]
        /\ \A o \in SessIds \ {s} : sess'[o] = sess[o]
        /\ sess'[s].ctx = d /\ sess'[s].live /\ SessKept
    <3> DEFINE r == [sess[s] EXCEPT !.ctx = d]
    <3>0. sess \in [SessIds -> Session]
      BY <1>0 DEF Types, Tables
    <3>1. /\ r \in Session /\ r.ctx = d /\ r.live = sess[s].live /\ r.own = sess[s].own
          /\ r.refs = sess[s].refs /\ r.lock = sess[s].lock /\ r.handed = sess[s].handed
      BY <2>2, <3>0 DEF Session
    <3>2. sess' = [sess EXCEPT ![s] = r]
      BY <2>1, <3>0
    <3> HIDE DEF r
    <3> QED BY <1>2, <3>0, <3>1, <3>2 DEF SessKept
  <2>4. PICK fr \in Call :
          /\ Become(t, fr) /\ fr.op = "open" /\ fr.pc = "opened" /\ fr.s = s
          /\ fr.own = Top(t).own /\ fr.c = NoCtx
    <3> DEFINE fr == [Top(t) EXCEPT !.pc = "opened"]
    <3>1. fr \in Call
      BY <1>1, MovedCall, LocsAre
    <3>2. /\ fr.op = "open" /\ fr.pc = "opened" /\ fr.s = s /\ fr.own = Top(t).own
          /\ fr.c = NoCtx
      BY <1>1 DEF Call
    <3> QED BY <2>1, <3>1, <3>2
  <2>5. x \in Frames' /\ Frame(x)' = fr /\ Moves(x) /\ StackOK'
    BY <1>0, <1>1, <2>4, BecomeStep DEF Types
  <2>6. ShapeOf(fr)
    BY <2>4 DEF ShapeOf, Places
  <2>7. ctxs' \in [CtxIds -> Context]
    <3>1. ctxs \in [CtxIds -> Context] /\ ctxs[d] \in Context
      BY <1>0, <2>2 DEF Types, Tables
    <3>2. [ctxs[d] EXCEPT !.refs = @ + 1] \in Context
      BY <3>1 DEF Context
    <3> QED BY <2>1, <3>1, <3>2 DEF Joined
  <2>8. Types'
    BY <1>0, <1>3, <2>3, <2>5, <2>6, <2>7, TypesStep DEF Types, Tables
  <2>9. /\ HoldsRef(fr) /\ HoldsRef(Frame(x)) /\ ~HoldsLock(fr) /\ ~HoldsLock(Frame(x))
        /\ ~InTa(fr) /\ ~InTa(Frame(x))
    BY <1>1, <2>4 DEF HoldsRef, HoldsLock, InTa
  <2>10. SessInv'
    BY <1>0, <1>1, <2>3, <2>4, <2>5, <2>8, <2>9, SessQuiet
  <2>11. ContextInv' /\ LoadedKept
    <3>1. \A f \in Frames : f # x => (Frame(f).s = s => ~Touches(Frame(f)))
      BY <1>0, <1>1, <1>2, Sole
    <3> QED BY <1>1, <1>2, <1>3, <2>1, <2>2, <2>3, <2>4, <2>5, <2>8, <3>1, JoinStep
  <2>12. TaInv'
    <3>1. SameInTas
      BY <2>5, <2>9, SameInTasStep
    <3> QED BY <1>0, <1>3, <2>11, <3>1, InTaEntered, TaQuiet
  <2> QED BY <2>8, <2>10, <2>11, <2>12 DEF IInv
<1> QED BY <1>0, <1>4, <1>5, LookupIs DEF LookupAgain

\* tee_ta_init_session() lists a new session and looks for its context; no
\* other call knows the session's id.
LEMMA OpenCallStep ==
  ASSUME Orderly, IInv, NEW t \in Threads, NEW ta \in Tas, Open(t, ta)
  PROVE  IInv'
<1> PICK x : x = Above(t)
  OBVIOUS
<1>0. Types /\ RefInv /\ OpenAlone /\ LockInv /\ ContextInv /\ TaInv
  BY DEF IInv, SessInv
<1>1. /\ stack[t] # << >> => Top(t).pc = "run" /\ Top(t) \in Call
      /\ UNCHANGED << tee_ctxes, single >>
  <2>1. stack[t] # << >> => Top(t) \in Call
    <3> PICK y : y = Pos(t)
      OBVIOUS
    <3> QED BY <1>0, Here
  <2> QED BY <2>1 DEF Open, MayCall
<1>2. PICK s \in SessIds : s = Least(FreeSlots) /\ s \in FreeSlots
  <2>1. FreeSlots # {} /\ FreeSlots \subseteq Nat /\ FreeSlots \subseteq SessIds
    BY DEF Open, FreeSlots, SessIds
  <2> QED BY <2>1, LeastIn
<1>3. ~sess[s].live /\ \A f \in Frames : Frame(f).s # s
  <2>1. ~sess[s].live /\ s \notin Named
    BY <1>2 DEF FreeSlots, Orderly
  <2>2. ASSUME NEW f \in Frames PROVE Frame(f).s \in Named
    <3>1. PICK u \in Threads, i \in Nat : i \in 1..Len(stack[u]) /\ f = << u, i >>
      BY <1>0, FramesOf DEF FramesByPlace, Types, StackOK, StackType
    <3>2. stack[u][i] \in Range(stack[u])
      BY <1>0, <3>1 DEF Range, Types, StackOK
    <3> QED BY <3>1, <3>2 DEF Named, Frame
  <2> QED BY <2>1, <2>2
<1>4. Caller(t) \in CtxIds \cup {Nsec}
  BY <1>1 DEF Caller, Call, Nsec, NoCtx
<1> DEFINE new == [FreeSession EXCEPT !.live = TRUE, !.own = Caller(t), !.refs = 1]
           ss == [sess EXCEPT ![s] = new]
           call == [op |-> "open", pc |-> "lookup", s |-> s, c |-> NoCtx,
                    ta |-> ta, own |-> Caller(t), res |-> "ok"]
<1>5. Lookup(t, stack[t], call, ss)
  BY <1>2 DEF Open
<1>6. /\ sess \in [SessIds -> Session] /\ ss \in [SessIds -> Session] /\ ss[s] = new
      /\ \A o \in SessIds \ {s} : ss[o] = sess[o]
      /\ new.live /\ new.own = Caller(t) /\ new.refs = 1 /\ new.ctx = NoCtx
      /\ new.lock = NoThread /\ ~new.handed
  <2>1. /\ new \in Session
        /\ new.live /\ new.own = Caller(t) /\ new.refs = 1 /\ new.ctx = NoCtx
        /\ new.lock = NoThread /\ ~new.handed
    BY <1>4 DEF FreeSession, Session
  <2>2. sess \in [SessIds -> Session]
    BY <1>0 DEF Types, Tables
  <2> HIDE DEF new
  <2> QED BY <2>1, <2>2
<1>7. ASSUME NEW loc \in {"load", "lookup", "fail", "opened"}
      PROVE  \E fr \in Call :
               /\ fr = [call EXCEPT !.pc = loc]
               /\ fr.op = "open" /\ fr.pc = loc /\ fr.s = s /\ fr.c = NoCtx /\ fr.own = Caller(t)
               /\ ShapeOf(fr)
               /\ HoldsRef(fr) /\ ~HoldsLock(fr) /\ ~InTa(fr) /\ ~Frees(fr)
               /\ \A c \in CtxIds : ~(fr.op = "close" /\ fr.c = c)
  <2> DEFINE fr == [call EXCEPT !.pc = loc]
  <2>1. "open" \in DOMAIN Places
    BY DEF Places
  <2>2. /\ fr \in Call
        /\ fr.op = "open" /\ fr.pc = loc /\ fr.s = s /\ fr.c = NoCtx /\ fr.own = Caller(t)
    BY <1>4, <2>1, LocsAre DEF Call
  <2> HIDE DEF fr
  <2>3. ShapeOf(fr)
    BY <2>2 DEF ShapeOf, Places
  <2>4. HoldsRef(fr) /\ ~HoldsLock(fr) /\ ~InTa(fr) /\ ~Frees(fr)
    BY <2>2 DEF HoldsRef, HoldsLock, InTa, Frees
  <2> QED BY <2>2, <2>3, <2>4 DEF fr
<1> HIDE DEF new, call
<1>8. ASSUME NEW fr \in Call, Push(t, fr), fr.op = "open", fr.s = s, fr.c = NoCtx,
             fr.own = Caller(t), ShapeOf(fr), HoldsRef(fr), ~HoldsLock(fr), ~InTa(fr),
             sess' \in [SessIds -> Session], ctxs' \in [CtxIds -> Context],
             \A o \in SessIds \ {s} : sess'[o] = sess[o],
             sess'[s].live, sess'[s].own = Caller(t), sess'[s].refs = 1,
             sess'[s].lock = NoThread, ~sess'[s].handed
      PROVE  /\ Types' /\ SessInv' /\ SameInTas
             /\ x \notin Frames /\ x \in Frames' /\ Frame(x)' = fr /\ Moves(x)
  <2>1. x \notin Frames /\ x \in Frames' /\ Frame(x)' = fr /\ Moves(x) /\ StackOK'
    BY <1>0, <1>1, <1>8, PushStep DEF Types
  <2>2. Types'
    BY <1>0, <1>1, <1>8, <2>1, TypesStep DEF Types, Tables
  <2>3. RefInv'
    <3>1. Holders(s) = {}
      BY <1>3 DEF Holders
    <3>2. Cardinality(Holders(s)) = 0
      BY <3>1, FS_EmptySet
    <3>3. sess'[s].refs + (IF x \in Frames /\ HoldsRef(Frame(x)) THEN 1 ELSE 0)
            = Cardinality(Holders(s)) + (IF x \in Frames' /\ HoldsRef(Frame(x)') THEN 1 ELSE 0)
      BY <1>8, <2>1, <3>2
    <3> QED BY <1>0, <1>3, <1>8, <2>1, <2>2, <3>3, RefStep
  <2>4. OpenAlone'
    <3>1. \A f \in Frames : Frame(f).op = "open" =>
            Frame(f).s # s /\ ~sess'[Frame(f).s].handed
      BY <1>0, <1>3, <1>8, FramesTypedNow DEF OpenAlone, FramesTyped, Call
    <3> QED BY <1>0, <1>3, <1>8, <2>1, <2>2, <3>1, OpenAloneStep
  <2>5. LockInv'
    <3>1. \A o \in SessIds \ {s} : sess'[o].lock = sess[o].lock
      BY <1>8
    <3> QED BY <1>0, <1>3, <1>8, <2>1, <2>2, <3>1, LockStep
  <2>6. SameInTas
    BY <1>8, <2>1, SameInTasStep
  <2> QED BY <2>1, <2>2, <2>3, <2>4, <2>5, <2>6 DEF SessInv
<1>9. CASE Misses(t, stack[t], call, ss)
  <2> PICK loc \in {"load", "lookup", "fail"} :
        Push(t, [call EXCEPT !.pc = loc]) /\ sess' = ss /\ ctxs' = ctxs
    BY <1>9 DEF Misses, Push
  <2>1. PICK fr \in Call :
          /\ Push(t, fr)
          /\ fr.op = "open" /\ fr.pc = loc /\ fr.s = s /\ fr.c = NoCtx /\ fr.own = Caller(t)
          /\ ShapeOf(fr)
          /\ HoldsRef(fr) /\ ~HoldsLock(fr) /\ ~InTa(fr) /\ ~Frees(fr)
    BY <1>7
  <2>2. ctxs' \in [CtxIds -> Context]
    BY <1>0 DEF Types, Tables
  <2>3. /\ Types' /\ SessInv' /\ SameInTas
        /\ x \notin Frames /\ x \in Frames' /\ Frame(x)' = fr /\ Moves(x)
    BY <1>6, <1>8, <2>1, <2>2
  <2>4. TaInv'
    <3>1. LoadedKept
      BY DEF LoadedKept
    <3> QED BY <1>0, <1>1, <2>3, <3>1, InTaEntered, TaQuiet
  <2>5. ContextInv'
    <3>1. ContextsKept
      <4>1. \A o \in SessIds, c \in CtxIds :
              sess'[o].live /\ sess'[o].ctx = c <=> sess[o].live /\ sess[o].ctx = c
        BY <1>3, <1>6 DEF CtxIds, NoCtx
      <4> QED BY <1>1, <4>1 DEF ContextsKept
    <3>2. \A f \in Frames : f # x =>
            /\ Touches(Frame(f)) => sess'[Frame(f).s].ctx = sess[Frame(f).s].ctx
            /\ Frame(f).pc = "loading" => ctxs'[Frame(f).c].init /\ ~ctxs'[Frame(f).c].panicked
            /\ Frame(f).pc = "busy" => ~ctxs'[Frame(f).c].panicked
            /\ Frame(f).pc = "opened" => ~ctxs'[sess[Frame(f).s].ctx].panicked
      BY <1>0, <1>3, <1>6, FramesTypedNow DEF ContextInv, CtxInv, CtxOf, FramesTyped, Call
    <3>3. \A c \in CtxIds : x \in Leavers(c)' <=> x \in Leavers(c)
      BY <2>1, <2>3 DEF Leavers
    <3>4. CtxOf(x)'
      BY <1>6, <2>1, <2>3 DEF CtxOf
    <3> QED BY <1>0, <2>1, <2>3, <3>1, <3>2, <3>3, <3>4, CtxQuiet
  <2> QED BY <2>3, <2>4, <2>5 DEF IInv
<1>10. CASE Joins(t, stack[t], call, ss)
  <2>0. call.s = s
    BY DEF call
  <2>1. PICK d \in Range(tee_ctxes) :
        /\ ctxs[d].ta \in SingleInstance
        /\ ~ctxs[d].init /\ ~Taken(d) /\ ctxs' = Joined(d)
        /\ sess' = [ss EXCEPT ![s].ctx = d]
        /\ Push(t, [call EXCEPT !.pc = "opened"])
    BY <1>10, <2>0 DEF Joins, Push
  <2>2. PICK fr \in Call :
          /\ Push(t, fr)
          /\ fr.op = "open" /\ fr.pc = "opened" /\ fr.s = s /\ fr.c = NoCtx /\ fr.own = Caller(t)
          /\ ShapeOf(fr)
          /\ HoldsRef(fr) /\ ~HoldsLock(fr) /\ ~InTa(fr) /\ ~Frees(fr)
    BY <1>7, <2>1
  <2>3. d \in CtxIds
    BY <1>0 DEF Types, Tables, Range
  <2>4. ctxs' \in [CtxIds -> Context]
    <3>1. ctxs \in [CtxIds -> Context] /\ ctxs[d] \in Context
      BY <1>0, <2>3 DEF Types, Tables
    <3>2. [ctxs[d] EXCEPT !.refs = @ + 1] \in Context
      BY <3>1 DEF Context
    <3> QED BY <2>1, <3>1, <3>2 DEF Joined
  <2>5. /\ sess' \in [SessIds -> Session]
        /\ \A o \in SessIds \ {s} : sess'[o] = sess[o]
        /\ sess'[s].ctx = d /\ sess'[s].live /\ sess'[s].own = Caller(t) /\ sess'[s].refs = 1
        /\ sess'[s].lock = NoThread /\ ~sess'[s].handed
    <3> DEFINE r == [new EXCEPT !.ctx = d]
    <3>1. /\ r \in Session /\ r.ctx = d /\ r.live /\ r.own = Caller(t) /\ r.refs = 1
          /\ r.lock = NoThread /\ ~r.handed
      <4>1. new \in Session
        BY <1>6
      <4> QED BY <1>6, <2>3, <4>1 DEF Session
    <3>2. sess' = [ss EXCEPT ![s] = r]
      BY <1>6, <2>1
    <3> HIDE DEF r, ss
    <3> QED BY <1>6, <3>1, <3>2
  <2>6. /\ Types' /\ SessInv' /\ SameInTas
        /\ x \notin Frames /\ x \in Frames' /\ Frame(x)' = fr /\ Moves(x)
    BY <1>8, <2>2, <2>4, <2>5
  <2>7. ContextInv' /\ LoadedKept
    BY <1>1, <1>3, <2>1, <2>2, <2>3, <2>5, <2>6, JoinStep
  <2>8. TaInv'
    BY <1>0, <1>1, <2>6, <2>7, InTaEntered, TaQuiet
  <2> QED BY <2>6, <2>7, <2>8 DEF IInv
<1> QED BY <1>0, <1>5, <1>9, <1>10, LookupIs

-----------------------------------------------------------------------------
(* The invariant holds, and what follows from it.                          *)

\* The invariant holds when the system starts.
LEMMA InitInv == Init => IInv
<1> SUFFICES ASSUME Init
             PROVE  IInv
  OBVIOUS
<1>1. Frames = {}
  BY DEF Init, Frames
<1>2. /\ \A s \in SessIds : sess[s] = FreeSession
      /\ sess \in [SessIds -> Session]
  <2>1. FreeSession \in Session
    BY DEF FreeSession, Session
  <2> QED BY <2>1 DEF Init
<1>3. ctxs \in [CtxIds -> Context]
  <2>1. (CHOOSE ta \in Tas : TRUE) \in Tas
    BY SessionsAssumption
  <2>2. [live |-> FALSE, ta |-> CHOOSE ta \in Tas : TRUE, refs |-> 0, busy |-> FALSE,
         panicked |-> FALSE, init |-> FALSE] \in Context
    BY <2>1 DEF Context
  <2> QED BY <2>2 DEF Init
<1>4. /\ tee_ctxes \in Seq(CtxIds) /\ Range(tee_ctxes) = {} /\ IsInjective(tee_ctxes)
  BY DEF Init, Range, IsInjective
<1>5. Types
  <2>1. Tables
    BY <1>2, <1>3, <1>4 DEF Init, SingleFree, Tables
  <2>2. StackOK
    BY DEF Init, StackOK, Nested, Deep
  <2> QED BY <1>1, <2>1, <2>2 DEF Types
<1>6. SessInv
  BY <1>1, <1>2 DEF SessInv, RefInv, OpenAlone, LockInv, FreeSession
<1>7. TaInv
  <2>1. BusyInv
    <3>1. \A c \in CtxIds : ~ctxs[c].live
      BY DEF Init
    <3> QED BY <1>1, <3>1 DEF BusyInv
  <2>2. \A t \in Threads : SingleCount(t)
    <3> TAKE t \in Threads
    <3>1. SingleCalls(t) = {}
      BY <1>1 DEF SingleCalls
    <3> QED BY <3>1, FS_EmptySet DEF Init, SingleFree, SingleCount
  <2>3. SingleInv
    BY <2>2, SingleCounts DEF Init, SingleFree, SingleInv
  <2> QED BY <2>1, <2>3 DEF TaInv
<1>8. ContextInv
  BY <1>1, <1>2, <1>4 DEF ContextInv, ListInv, CtxInv, SessCtx, FreeSession
<1> QED BY <1>5, <1>6, <1>7, <1>8 DEF IInv

\* Every step keeps it.
LEMMA NextInv ==
  ASSUME Orderly, IInv, [Next]_vars
  PROVE  IInv'
<1>1. CASE UNCHANGED vars
  <2>1. UNCHANGED << tables, stack >>
    BY <1>1 DEF vars, tables
  <2> QED BY <2>1, IdleStep
<1>2. ASSUME NEW t \in Threads, NewCall(t)
      PROVE  IInv'
  BY <1>2, OpenCallStep, OpenNoMemoryStep, UseStep DEF NewCall
<1>3. ASSUME NEW t \in Threads, OpenStep(t)
      PROVE  IInv'
  BY <1>3, LookupAgainStep, LoadStep, LoadNoMemoryStep, LoadedStep, LoadFailsStep, OpenFailsStep,
     OpenedStep DEF OpenStep
<1>4. ASSUME NEW t \in Threads, EnterStep(t)
      PROVE  IInv'
  BY <1>4, SetBusyWaitStep, SetBusyStep, SetBusyRefusesStep, TaReturnsStep, TaPanicsStep,
     ClearBusyStep, LeftStep DEF EnterStep
<1>5. ASSUME NEW t \in Threads, SessionStep(t)
      PROVE  IInv'
  BY <1>5, GetNothingStep, GetStep, GetAgainStep, GotStep, PutStep, UnlinkStep, UnlinkAgainStep
  DEF SessionStep
<1>6. ASSUME NEW t \in Threads, ContextStep(t)
      PROVE  IInv'
  BY <1>6, DropContextStep, DestroyContextStep, DestroyCondvarStep, FreeClosesStep,
     FreeContextStep DEF ContextStep
<1> QED BY <1>1, <1>2, <1>3, <1>4, <1>5, <1>6 DEF Next, Step

\* The counts, locks and flags of tee_ta_manager.c are those of the calls in
\* progress, in every behaviour: the invariant the theorems below come from.
THEOREM Invariant ==
  ASSUME Orderly
  PROVE  Spec => []IInv
<1>1. Init => IInv
  BY InitInv
<1>2. IInv /\ [Next]_vars => IInv'
  BY NextInv
<1> QED BY <1>1, <1>2, PTL DEF Spec

\* The reference counts come from the invariant.
LEMMA InvImpliesRefs == IInv => RefsCounted
<1> SUFFICES ASSUME IInv
             PROVE  RefsCounted
  OBVIOUS
<1>1. RefInv
  BY DEF IInv, SessInv
<1>2. ASSUME NEW s \in SessIds, sess[s].live
      PROVE  sess[s].refs = Count(LAMBDA fr : fr.s = s /\ HoldsRef(fr))
  BY <1>1, <1>2 DEF RefInv, Holders, Count
<1> QED BY <1>1, <1>2 DEF RefInv, RefsCounted

\* sess->ref_count is the number of calls between tee_ta_get_session() or the
\* open and tee_ta_put_session(), and each of these finds its session listed:
\* none is freed by tee_ta_unlink_session() under a call that uses it.
THEOREM RefsAlwaysCounted ==
  ASSUME Orderly
  PROVE  Spec => []RefsCounted
BY Invariant, InvImpliesRefs, PTL

\* So does the lock of a session.
LEMMA InvImpliesOneCall == IInv => OneCallPerSession
<1> SUFFICES ASSUME IInv, NEW s \in SessIds
             PROVE  LET users == {f \in Frames : Frame(f).s = s /\ HoldsLock(Frame(f))} IN
                    IF sess[s].lock = NoThread THEN users = {}
                    ELSE \E f \in users : users = {f} /\ f[1] = sess[s].lock
  BY DEF OneCallPerSession
<1> DEFINE users == {f \in Frames : Frame(f).s = s /\ HoldsLock(Frame(f))}
<1>1. LockInv /\ \A f \in Frames : f[1] \in Threads
  BY FramesTypedNow DEF IInv, SessInv, FramesTyped
<1>2. CASE sess[s].lock = NoThread
  <2>1. users = {}
    BY <1>1, <1>2, SessionsAssumption DEF LockInv
  <2> QED BY <1>2, <2>1
<1>3. CASE sess[s].lock # NoThread
  <2>1. PICK f \in users : TRUE
    BY <1>1, <1>3 DEF LockInv
  <2>2. users = {f} /\ f[1] = sess[s].lock
    BY <1>1, <2>1 DEF LockInv
  <2> QED BY <1>3, <2>1, <2>2
<1> QED BY <1>2, <1>3

\* lock_thread of a session keeps two calls from using it at once, across the
\* waits of tee_ta_get_session() and the closes that overtake them.
THEOREM SessionUsedByOne ==
  ASSUME Orderly
  PROVE  Spec => []OneCallPerSession
BY Invariant, InvImpliesOneCall, PTL

\* So does the busy flag.
LEMMA InvImpliesOneInTa == IInv => OneCallPerTa
<1> SUFFICES ASSUME IInv, NEW c \in CtxIds, ctxs[c].live
             PROVE  Count(LAMBDA fr : fr.c = c /\ InTa(fr)) = IF ctxs[c].busy THEN 1 ELSE 0
  BY DEF OneCallPerTa
<1> DEFINE inside == {f \in Frames : Frame(f).c = c /\ InTa(Frame(f))}
<1>1. Count(LAMBDA fr : fr.c = c /\ InTa(fr)) = Cardinality(inside)
  BY DEF Count
<1>2. BusyInv
  BY DEF IInv, TaInv
<1>3. CASE ctxs[c].busy
  <2>1. PICK f \in inside : TRUE
    BY <1>2, <1>3 DEF BusyInv
  <2>2. inside = {f}
    BY <1>2, <2>1 DEF BusyInv
  <2>3. Cardinality(inside) = 1
    BY <2>2, FS_Singleton
  <2> QED BY <1>1, <1>3, <2>3
<1>4. CASE ~ctxs[c].busy
  <2>1. inside = {}
    BY <1>2, <1>4 DEF BusyInv
  <2>2. Cardinality(inside) = 0
    BY <2>1, FS_EmptySet
  <2> QED BY <1>1, <1>4, <2>2
<1> QED BY <1>3, <1>4

\* ctx->busy keeps two calls from being in an instance of a TA at once, also
\* when a call fails, a TA panics or a context is freed and loaded again.
THEOREM TaUsedByOne ==
  ASSUME Orderly
  PROVE  Spec => []OneCallPerTa
BY Invariant, InvImpliesOneInTa, PTL

\* The count of the single-instance lock is a part of it.
LEMMA InvImpliesSingle == IInv => SingleLockCounted
BY DEF IInv, TaInv, SingleInv

\* tee_ta_single_instance_count is the number of single-instance TAs that
\* tee_ta_single_instance_thread is in, nested calls included, and no other
\* thread is in one.
THEOREM SingleLockAlwaysCounted ==
  ASSUME Orderly
  PROVE  Spec => []SingleLockCounted
BY Invariant, InvImpliesSingle, PTL

\* The counts of contexts come from it.
LEMMA InvImpliesContextRefs == IInv => ContextRefsCounted
<1> SUFFICES ASSUME IInv, NEW c \in Range(tee_ctxes)
             PROVE  ctxs[c].refs = Cardinality({s \in SessIds : sess[s].live /\ sess[s].ctx = c})
                      + Count(LAMBDA fr : /\ fr.op = "close" /\ fr.c = c
                                          /\ fr.pc \in {"leave", "dec"})
  BY DEF ContextRefsCounted
<1>1. ctxs[c].refs = Cardinality(Members(c)) + Cardinality(Leavers(c))
  BY DEF IInv, ContextInv, ListInv, ListOf
<1>2. Count(LAMBDA fr : /\ fr.op = "close" /\ fr.c = c /\ fr.pc \in {"leave", "dec"})
        = Cardinality(Leavers(c))
  BY DEF Count, Leavers
<1> QED BY <1>1, <1>2 DEF Members

\* ctx->ref_count is the number of sessions in the context and of closes between
\* tee_ta_unlink_session() and the lowering of the count.
THEOREM ContextRefsAlwaysCounted ==
  ASSUME Orderly
  PROVE  Spec => []ContextRefsCounted
BY Invariant, InvImpliesContextRefs, PTL

\* A context that a session or a call names is loaded.
LEMMA InvImpliesNoStale == IInv => NoStaleContext
<1> SUFFICES ASSUME IInv
             PROVE  NoStaleContext
  OBVIOUS
<1>1. Types /\ ContextInv
  BY DEF IInv
<1>2. \A f \in Frames : Frame(f).c # NoCtx => ctxs[Frame(f).c].live
  BY <1>1, NamedLoaded
<1>3. ASSUME NEW s \in SessIds, sess[s].live, sess[s].ctx # NoCtx
      PROVE  ctxs[sess[s].ctx].live
  <2>1. CASE sess[s].ctx \in Range(tee_ctxes)
    BY <1>1, <2>1 DEF ContextInv, ListInv, ListOf
  <2>2. CASE sess[s].ctx \notin Range(tee_ctxes)
    <3>1. PICK f \in Frames : Frame(f).c = sess[s].ctx
      BY <1>1, <1>3, <2>2 DEF ContextInv, CtxInv, SessCtx
    <3> QED BY <1>2, <1>3, <3>1
  <2> QED BY <2>1, <2>2
<1> QED BY <1>2, <1>3 DEF NoStaleContext

\* No session and no call names a context that has been freed: what a call read
\* of sess->ts_sess.ctx still exists after tee_ta_mutex was dropped.
THEOREM NeverStaleContext ==
  ASSUME Orderly
  PROVE  Spec => []NoStaleContext
BY Invariant, InvImpliesNoStale, PTL

\* What a call has seen of panicked still holds when it enters the TA.
LEMMA InvAllowsEntry ==
  ASSUME IInv
  PROVE  \A t \in Threads : SetBusy(t) => ~ctxs[Top(t).c].panicked
<1> SUFFICES ASSUME NEW t \in Threads, SetBusy(t)
             PROVE  ~ctxs[Top(t).c].panicked
  OBVIOUS
<1> PICK x : x = Pos(t)
  OBVIOUS
<1>1. Top(t).pc = "busy" /\ x \in Frames /\ Frame(x) = Top(t) /\ CtxOf(x)
  BY AtStep DEF SetBusy
<1> QED BY <1>1 DEF CtxOf

\* tee_ta_try_set_busy() never enters a TA that has panicked, although callers
\* read ctx->panicked without tee_ta_mutex and may wait for the TA after that.
THEOREM PanickedNeverEntered ==
  ASSUME Orderly
  PROVE  Spec => NoEntryAfterPanic
<1>1. IInv => [\A t \in Threads : SetBusy(t) => ~ctxs[Top(t).c].panicked]_vars
  BY InvAllowsEntry
<1> QED BY <1>1, Invariant, PTL DEF NoEntryAfterPanic

\* No TA opens one that has, directly or through others, opened it.  A TA that
\* does finds itself busy while its own thread holds the single-instance lock,
\* which set_busy() takes for a panic.
Layered == \E rank \in [Tas -> Nat] : \A e \in Opens : rank[e[2]] < rank[e[1]]

\* A thread that waits for a TA is at tee_ta_try_set_busy() with it.
BusyWaiters ==
  \A c \in CtxIds : \A t \in Range(waitq[BusyCv(c)]) :
    stack[t] # << >> /\ Top(t).pc = "busy" /\ Top(t).c = c
\* The wait queue, and what the waits for a TA are.
WaitInv == waitq \in [Condvars -> Seq(Threads)] /\ BusyWaiters

\* A session of a TA is with one that it opens.
SessOpensAt(s) ==
  sess[s].live /\ sess[s].own # Nsec =>
    /\ ctxs[sess[s].own].live
    /\ sess[s].ctx # NoCtx => << ctxs[sess[s].own].ta, ctxs[sess[s].ctx].ta >> \in Opens
\* So is a call that a TA makes; a TA that is being loaded has no session yet.
OpensOf(f) ==
  LET fr == Frame(f) IN
  /\ fr.own # Nsec =>
       /\ fr.pc \in {"lookup", "load"} => << ctxs[fr.own].ta, fr.ta >> \in Opens
       /\ fr.c # NoCtx => << ctxs[fr.own].ta, ctxs[fr.c].ta >> \in Opens
  /\ fr.pc = "loading" => \A s \in SessIds : ~Listed(s, fr.c)
\* TAs use the sessions and are in the calls that Opens says.
OpensInv == (\A s \in SessIds : SessOpensAt(s)) /\ \A f \in Frames : OpensOf(f)
\* The single-instance lock is held for a call at least.
HeldInv == single.thread # NoThread => single.count # 0
\* What a core panic would contradict, beside IInv.
CoreInv == WaitInv /\ OpensInv /\ HeldInv

-----------------------------------------------------------------------------
(* Waits for a TA.                                                         *)

\* The condition variables are different ones.
LEMMA CondvarsAre ==
  /\ InitCv \in Condvars /\ SingleCv \in Condvars
  /\ \A c \in CtxIds : /\ BusyCv(c) \in Condvars /\ BusyCv(c) # InitCv /\ BusyCv(c) # SingleCv
                       /\ \A d \in CtxIds : d # c => BusyCv(c) # BusyCv(d)
  /\ \A s \in SessIds : LockCv(s) \in Condvars /\ RefcCv(s) \in Condvars
  /\ \A c \in CtxIds, s \in SessIds : BusyCv(c) # LockCv(s) /\ BusyCv(c) # RefcCv(s)
BY DEF Condvars, InitCv, SingleCv, BusyCv, LockCv, RefcCv

\* At most some of those that waited for a TA still do.
Fewer(q, r) ==
  /\ r \in [Condvars -> Seq(Threads)]
  /\ \A c \in CtxIds : Range(r[BusyCv(c)]) \subseteq Range(q[BusyCv(c)])

\* Signals and broadcasts wake threads; a wait for something else than a TA
\* does not matter.
LEMMA QueueIs ==
  ASSUME NEW q \in [Condvars -> Seq(Threads)], NEW cv \in Condvars, NEW t \in Threads
  PROVE  /\ Fewer(q, Signal(q, cv)) /\ Fewer(q, Broadcast(q, cv))
         /\ (\A c \in CtxIds : BusyCv(c) # cv) => Fewer(q, Enqueue(q, t, cv))
<1>1. q[cv] \in Seq(Threads)
  OBVIOUS
<1>2. Fewer(q, Signal(q, cv))
  <2> DEFINE z == IF q[cv] = << >> THEN q[cv] ELSE Tail(q[cv])
  <2>1. z \in Seq(Threads) /\ Range(z) \subseteq Range(q[cv])
    <3>1. CASE q[cv] = << >>
      BY <1>1, <3>1
    <3>2. CASE q[cv] # << >>
      <4>1. /\ z \in Seq(Threads) /\ Len(z) = Len(q[cv]) - 1
            /\ \A i \in 1..Len(z) : z[i] = q[cv][i + 1] /\ i + 1 \in 1..Len(q[cv])
        BY <1>1, <3>2
      <4>2. DOMAIN z = 1..Len(z) /\ DOMAIN q[cv] = 1..Len(q[cv])
        BY <1>1, <4>1
      <4> HIDE DEF z
      <4>3. \A i \in DOMAIN z : \E j \in DOMAIN q[cv] : z[i] = q[cv][j]
        BY <4>1, <4>2
      <4> QED BY <4>1, <4>3 DEF Range
    <3> QED BY <3>1, <3>2
  <2>2. Signal(q, cv) = [q EXCEPT ![cv] = z]
    BY DEF Signal
  <2> HIDE DEF z
  <2> QED BY <2>1, <2>2, CondvarsAre DEF Fewer
<1>3. Fewer(q, Broadcast(q, cv))
  <2>1. << >> \in Seq(Threads) /\ Range(<< >>) = {}
    BY DEF Range
  <2> QED BY <2>1, CondvarsAre DEF Fewer, Broadcast
<1>4. ASSUME \A c \in CtxIds : BusyCv(c) # cv
      PROVE  Fewer(q, Enqueue(q, t, cv))
  BY <1>1, <1>4, CondvarsAre DEF Fewer, Enqueue
<1> QED BY <1>2, <1>3, <1>4

\* One after the other.
LEMMA FewerStill ==
  ASSUME NEW q, NEW r, NEW z, Fewer(q, r), Fewer(r, z)
  PROVE  Fewer(q, z)
BY DEF Fewer

\* A step of a thread that does not wait for a TA.
LEMMA WaitStep ==
  ASSUME WaitInv, NEW t \in Threads, \A c \in CtxIds : t \notin Range(waitq[BusyCv(c)]),
         \A u \in Threads : u # t => stack'[u] = stack[u], Fewer(waitq, waitq')
  PROVE  WaitInv'
<1> SUFFICES ASSUME NEW c \in CtxIds, NEW u \in Range(waitq'[BusyCv(c)])
             PROVE  stack'[u] # << >> /\ Last(stack'[u]).pc = "busy" /\ Last(stack'[u]).c = c
  BY DEF WaitInv, BusyWaiters, Fewer, Top
<1>1. u \in Range(waitq[BusyCv(c)])
  BY DEF Fewer
<1>2. u \in Threads
  BY <1>1, CondvarsAre DEF WaitInv, Range
<1> QED BY <1>1, <1>2 DEF WaitInv, BusyWaiters, Top

\* A thread that takes a step does not wait, and one that runs a TA or is in no
\* call does not wait for a TA.
LEMMA Awake ==
  ASSUME WaitInv, NEW t \in Threads, MayCall(t) \/ \E loc : At(t, loc)
  PROVE  \A c \in CtxIds : t \notin Range(waitq[BusyCv(c)])
<1>1. CASE MayCall(t)
  BY <1>1 DEF MayCall, WaitInv, BusyWaiters
<1>2. CASE \E loc : At(t, loc)
  BY <1>2, CondvarsAre DEF At, Waiting
<1> QED BY <1>1, <1>2

\* A step changes the calls of one thread.
LEMMA OneStack ==
  ASSUME StackOK, NEW t \in Threads
  PROVE  /\ \A fr : Become(t, fr) \/ Push(t, fr) => \A u \in Threads : u # t => stack'[u] = stack[u]
         /\ Return(t) => \A u \in Threads : u # t => stack'[u] = stack[u]
         /\ \A loc : Goto(t, loc) => \A u \in Threads : u # t => stack'[u] = stack[u]
         /\ \A base, fr, ss :
              Lookup(t, base, fr, ss) => \A u \in Threads : u # t => stack'[u] = stack[u]
BY DEF Become, Push, Return, Goto, Lookup, StackOK

\* Append() adds one element.
LEMMA AppendRange ==
  ASSUME NEW S, NEW q \in Seq(S), NEW e \in S
  PROVE  Append(q, e) \in Seq(S) /\ Range(Append(q, e)) \subseteq Range(q) \cup {e}
BY DEF Range

\* The waits for a TA after any step.
LEMMA WaitNext ==
  ASSUME IInv, WaitInv, Next
  PROVE  WaitInv'
<1>0. StackOK /\ waitq \in [Condvars -> Seq(Threads)] /\ Types
  BY DEF IInv, Types, WaitInv
<1> PICK t \in Threads : NewCall(t) \/ Step(t)
  BY DEF Next
<1> DEFINE others == \A u \in Threads : u # t => stack'[u] = stack[u]
<1>1. Fewer(waitq, waitq)
  BY <1>0 DEF Fewer
<1>2. ASSUME stack[t] # << >>
      PROVE  Top(t).s \in SessIds /\ (Top(t).c # NoCtx => Top(t).c \in CtxIds)
  <2> PICK x : x = Pos(t)
    OBVIOUS
  <2> QED BY <1>0, <1>2, Here DEF Call
<1>3. ASSUME NEW base, NEW fr, NEW ss, Lookup(t, base, fr, ss)
      PROVE  others /\ Fewer(waitq, waitq')
  <2>1. waitq' = waitq \/ waitq' = Enqueue(waitq, t, InitCv)
    BY <1>3 DEF Lookup
  <2>2. Fewer(waitq, Enqueue(waitq, t, InitCv))
    BY <1>0, CondvarsAre, QueueIs
  <2> QED BY <1>0, <1>1, <1>3, <2>1, <2>2, OneStack
<1>4. CASE NewCall(t)
  <2>1. others /\ Fewer(waitq, waitq') /\ MayCall(t)
    <3>1. CASE \E ta \in Tas : Open(t, ta)
      BY <1>3, <3>1 DEF Open
    <3>2. CASE OpenNoMemory(t)
      BY <1>1, <3>2 DEF OpenNoMemory
    <3>3. CASE \E s \in SessIds, op \in {"invoke", "close", "cancel"} : Use(t, op, s)
      BY <1>0, <1>1, <3>3, OneStack DEF Use
    <3> QED BY <1>4, <3>1, <3>2, <3>3 DEF NewCall
  <2> QED BY <1>0, <2>1, Awake, WaitStep
<1>5. CASE OpenStep(t)
  <2>1. Fewer(waitq, Broadcast(waitq, InitCv))
    BY <1>0, CondvarsAre, QueueIs
  <2>2. others /\ Fewer(waitq, waitq') /\ \E loc : At(t, loc)
    <3>1. CASE LookupAgain(t)
      BY <1>3, <3>1 DEF LookupAgain
    <3>2. CASE Load(t)
      BY <1>0, <1>1, <3>2, OneStack DEF Load
    <3>3. CASE LoadNoMemory(t)
      BY <1>0, <1>1, <3>3, OneStack DEF LoadNoMemory
    <3>4. CASE Loaded(t)
      BY <1>0, <2>1, <3>4, OneStack DEF Loaded
    <3>5. CASE LoadFails(t)
      BY <1>0, <2>1, <3>5, OneStack DEF LoadFails
    <3>6. CASE OpenFails(t)
      BY <1>0, <1>1, <3>6, OneStack DEF OpenFails
    <3>7. CASE Opened(t)
      BY <1>0, <1>1, <3>7, OneStack DEF Opened
    <3> QED BY <1>5, <3>1, <3>2, <3>3, <3>4, <3>5, <3>6, <3>7 DEF OpenStep
  <2> QED BY <1>0, <2>2, Awake, WaitStep
<1>6. CASE EnterStep(t) /\ ~SetBusyWait(t)
  <2>1. Fewer(waitq, Signal(waitq, SingleCv))
    BY <1>0, CondvarsAre, QueueIs
  <2>2. others /\ Fewer(waitq, waitq') /\ \E loc : At(t, loc)
    <3>1. CASE SetBusy(t)
      BY <1>0, <1>1, <3>1, OneStack DEF SetBusy
    <3>2. CASE SetBusyRefuses(t)
      BY <1>0, <1>1, <2>1, <3>2, OneStack DEF SetBusyRefuses
    <3>3. CASE TaReturns(t)
      BY <1>0, <1>1, <3>3, OneStack DEF TaReturns
    <3>4. CASE TaPanics(t)
      BY <1>0, <1>1, <3>4, OneStack DEF TaPanics
    <3>5. CASE ClearBusy(t)
      <4>1. Top(t).c \in CtxIds
        <5> PICK x : x = Pos(t)
          OBVIOUS
        <5>1. stack[t] # << >> /\ Top(t).pc = "leave" /\ ShapeOf(Top(t))
          BY <3>5, AtStep DEF ClearBusy
        <5> QED BY <1>2, <5>1 DEF ShapeOf
      <4> DEFINE q == Signal(waitq, BusyCv(Top(t).c))
      <4>2. Fewer(waitq, q) /\ q \in [Condvars -> Seq(Threads)]
        BY <1>0, <4>1, CondvarsAre, QueueIs DEF Fewer
      <4>3. waitq' = q \/ waitq' = Signal(q, SingleCv)
        BY <3>5 DEF ClearBusy
      <4> HIDE DEF q
      <4>4. Fewer(q, Signal(q, SingleCv))
        BY <4>2, CondvarsAre, QueueIs
      <4>5. Fewer(waitq, waitq')
        BY <4>2, <4>3, <4>4, FewerStill
      <4> QED BY <1>0, <3>5, <4>5, OneStack DEF ClearBusy
    <3>6. CASE Left(t)
      BY <1>0, <1>1, <3>6, OneStack DEF Left
    <3> QED BY <1>6, <3>1, <3>2, <3>3, <3>4, <3>5, <3>6 DEF EnterStep
  <2> QED BY <1>0, <2>2, Awake, WaitStep
<1>7. CASE SetBusyWait(t)
  <2>1. /\ stack' = stack /\ stack[t] # << >> /\ Top(t).pc = "busy"
        /\ \/ waitq' = Enqueue(waitq, t, SingleCv)
           \/ waitq' = Enqueue(waitq, t, BusyCv(Top(t).c))
    BY <1>7 DEF SetBusyWait, At
  <2>2. CASE waitq' = Enqueue(waitq, t, SingleCv)
    <3>1. Fewer(waitq, waitq')
      BY <1>0, <2>2, CondvarsAre, QueueIs
    <3>2. \E loc : At(t, loc)
      BY <1>7 DEF SetBusyWait
    <3> QED BY <2>1, <3>1, <3>2, Awake, WaitStep
  <2>3. CASE waitq' = Enqueue(waitq, t, BusyCv(Top(t).c))
    <3>1. Top(t).c \in CtxIds
      <4> PICK x : x = Pos(t)
        OBVIOUS
      <4>1. ShapeOf(Top(t))
        BY <1>7, AtStep DEF SetBusyWait
      <4> QED BY <1>2, <2>1, <4>1 DEF ShapeOf
    <3> DEFINE cv == BusyCv(Top(t).c)
    <3>2. cv \in Condvars /\ \A c \in CtxIds : c # Top(t).c => BusyCv(c) # cv
      BY <3>1, CondvarsAre
    <3>3. waitq' = [waitq EXCEPT ![cv] = Append(waitq[cv], t)]
      BY <2>3 DEF Enqueue
    <3>4. waitq[cv] \in Seq(Threads)
      BY <1>0, <3>2
    <3>5. Append(waitq[cv], t) \in Seq(Threads)
          /\ Range(Append(waitq[cv], t)) \subseteq Range(waitq[cv]) \cup {t}
      BY <3>4, AppendRange
    <3> HIDE DEF cv
    <3>6. waitq' \in [Condvars -> Seq(Threads)] /\ waitq'[cv] = Append(waitq[cv], t)
          /\ \A c \in CtxIds : c # Top(t).c => waitq'[BusyCv(c)] = waitq[BusyCv(c)]
      BY <1>0, <3>2, <3>3, <3>5, CondvarsAre
    <3> SUFFICES ASSUME NEW c \in CtxIds, NEW u \in Range(waitq'[BusyCv(c)])
                 PROVE  stack[u] # << >> /\ Top(u).pc = "busy" /\ Top(u).c = c
      BY <2>1, <3>6 DEF WaitInv, BusyWaiters, Top
    <3>7. CASE u \in Range(waitq[BusyCv(c)])
      BY <3>7 DEF WaitInv, BusyWaiters
    <3>8. CASE u \notin Range(waitq[BusyCv(c)])
      <4>1. c = Top(t).c /\ u = t
        BY <3>5, <3>6, <3>8 DEF cv
      <4> QED BY <2>1, <4>1
    <3> QED BY <3>7, <3>8
  <2> QED BY <2>1, <2>2, <2>3
<1>8. CASE SessionStep(t)
  <2>0. ASSUME stack[t] # << >>
        PROVE  LockCv(Top(t).s) \in Condvars /\ RefcCv(Top(t).s) \in Condvars
               /\ \A c \in CtxIds : BusyCv(c) # LockCv(Top(t).s) /\ BusyCv(c) # RefcCv(Top(t).s)
    BY <1>2, <2>0, CondvarsAre
  <2> DEFINE lock == LockCv(Top(t).s)
             refc == RefcCv(Top(t).s)
  <2>1. ASSUME stack[t] # << >>, NEW q, Fewer(waitq, q)
        PROVE  /\ Fewer(waitq, Signal(q, lock)) /\ Fewer(waitq, Broadcast(q, lock))
               /\ Fewer(waitq, Enqueue(q, t, lock))
               /\ Fewer(waitq, Signal(q, refc)) /\ Fewer(waitq, Enqueue(q, t, refc))
    <3>1. q \in [Condvars -> Seq(Threads)]
      BY <2>1 DEF Fewer
    <3>2. /\ Fewer(q, Signal(q, lock)) /\ Fewer(q, Broadcast(q, lock))
          /\ Fewer(q, Enqueue(q, t, lock))
          /\ Fewer(q, Signal(q, refc)) /\ Fewer(q, Enqueue(q, t, refc))
      BY <2>0, <2>1, <3>1, QueueIs
    <3> HIDE DEF lock, refc
    <3> QED BY <2>1, <3>2, FewerStill
  <2>2. ASSUME \E loc : At(t, loc)
        PROVE  stack[t] # << >>
    BY <2>2 DEF At
  <2>3. others /\ Fewer(waitq, waitq') /\ \E loc : At(t, loc)
    <3>1. CASE GetNothing(t)
      BY <1>0, <1>1, <3>1, OneStack DEF GetNothing
    <3>2. CASE Get(t)
      <4>1. (waitq' = waitq \/ waitq' = Enqueue(waitq, t, lock)) /\ \E loc : Goto(t, loc)
        BY <3>2 DEF Get
      <4>2. \E loc : At(t, loc)
        BY <3>2 DEF Get
      <4> HIDE DEF lock, refc
      <4> QED BY <1>0, <1>1, <2>1, <2>2, <4>1, <4>2, OneStack
    <3>3. CASE GetAgain(t)
      <4>1. /\ waitq' = waitq \/ waitq' = Signal(waitq, refc) \/ waitq' = Enqueue(waitq, t, lock)
            /\ Return(t) \/ (\E loc : Goto(t, loc)) \/ stack' = stack
        BY <3>3 DEF GetAgain, SignalRefc
      <4>2. \E loc : At(t, loc)
        BY <3>3 DEF GetAgain
      <4> HIDE DEF lock, refc
      <4> QED BY <1>0, <1>1, <2>1, <2>2, <4>1, <4>2, OneStack
    <3>4. CASE Got(t)
      BY <1>0, <1>1, <3>4, OneStack DEF Got
    <3>5. CASE Put(t)
      <4>1. /\ \E q \in {waitq, Signal(waitq, lock)} : waitq' = q \/ waitq' = Signal(q, refc)
            /\ Return(t) \/ (\E fr : Become(t, fr))
        BY <3>5 DEF Put, SignalRefc
      <4>2. \E loc : At(t, loc)
        BY <3>5 DEF Put
      <4> HIDE DEF lock, refc
      <4>3. Fewer(waitq, Signal(waitq, lock))
        BY <1>1, <2>1, <2>2, <4>2
      <4>4. Fewer(waitq, waitq')
        BY <1>1, <2>1, <2>2, <4>1, <4>2, <4>3
      <4> QED BY <1>0, <4>1, <4>2, <4>4, OneStack
    <3>6. CASE Unlink(t)
      <4> DEFINE q == Broadcast(waitq, lock)
      <4>1. /\ waitq' = q \/ waitq' = Enqueue(q, t, refc)
            /\ Return(t) \/ (\E loc : Goto(t, loc))
        BY <3>6 DEF Unlink, Removed
      <4>2. \E loc : At(t, loc)
        BY <3>6 DEF Unlink
      <4> HIDE DEF lock, refc
      <4>3. Fewer(waitq, q)
        BY <1>1, <2>1, <2>2, <4>2
      <4> HIDE DEF q
      <4>4. Fewer(waitq, waitq')
        BY <2>1, <2>2, <4>1, <4>2, <4>3
      <4> QED BY <1>0, <4>1, <4>2, <4>4, OneStack
    <3>7. CASE UnlinkAgain(t)
      <4>1. /\ waitq' = waitq \/ waitq' = Enqueue(waitq, t, refc)
            /\ Return(t) \/ (\E loc : Goto(t, loc)) \/ stack' = stack
        BY <3>7 DEF UnlinkAgain, Removed
      <4>2. \E loc : At(t, loc)
        BY <3>7 DEF UnlinkAgain
      <4> HIDE DEF lock, refc
      <4> QED BY <1>0, <1>1, <2>1, <2>2, <4>1, <4>2, OneStack
    <3> QED BY <1>8, <3>1, <3>2, <3>3, <3>4, <3>5, <3>6, <3>7 DEF SessionStep
  <2> QED BY <1>0, <2>3, Awake, WaitStep
<1>9. CASE ContextStep(t)
  <2>1. others /\ waitq' = waitq /\ \E loc : At(t, loc)
    <3>1. CASE DropContext(t)
      BY <1>0, <3>1, OneStack DEF DropContext
    <3>2. CASE DestroyContext(t)
      BY <1>0, <3>2, OneStack DEF DestroyContext
    <3>3. CASE DestroyCondvar(t)
      BY <1>0, <3>3, OneStack DEF DestroyCondvar
    <3>4. CASE FreeCloses(t)
      BY <1>0, <3>4, OneStack DEF FreeCloses
    <3>5. CASE FreeContext(t)
      BY <1>0, <3>5, OneStack DEF FreeContext
    <3> QED BY <1>9, <3>1, <3>2, <3>3, <3>4, <3>5 DEF ContextStep
  <2> QED BY <1>0, <1>1, <2>1, Awake, WaitStep
<1> QED BY <1>4, <1>5, <1>6, <1>7, <1>8, <1>9 DEF Step

-----------------------------------------------------------------------------
(* Who opens whom.                                                         *)

\* The TA that makes a call is loaded.
LEMMA OwnerLoaded ==
  ASSUME Types, ContextInv, NEW f \in Frames, Frame(f).own # Nsec
  PROVE  Frame(f).own \in CtxIds /\ ctxs[Frame(f).own].live
<1>1. PICK g \in Frames : Frame(g).c = Frame(f).own
  BY Beneath DEF Types
<1>2. Frame(g).c # NoCtx
  BY <1>1 DEF Nsec, NoCtx
<1> QED BY <1>1, <1>2, NamedLoaded

\* The TA that a session is on the list of and the one it is with.
LEMMA SessionNames ==
  ASSUME IInv, NEW s \in SessIds, sess[s].live
  PROVE  /\ sess[s].own \in CtxIds \cup {Nsec}
         /\ sess[s].ctx # NoCtx => sess[s].ctx \in CtxIds /\ ctxs[sess[s].ctx].live
BY InvImpliesNoStale DEF IInv, Types, Tables, Session, NoStaleContext

\* Contexts in use keep their TA, and sessions at most go or lose their
\* context, but for new ones.
LEMMA OpensStep ==
  ASSUME IInv, IInv', OpensInv, NEW x, Moves(x),
         \A c \in CtxIds : ctxs[c].live => ctxs'[c].ta = ctxs[c].ta,
         \A s \in SessIds : sess'[s].live /\ sess'[s].own # Nsec =>
           \/ /\ sess[s].live /\ sess'[s].own = sess[s].own
              /\ sess'[s].ctx \in {sess[s].ctx, NoCtx} /\ ctxs'[sess[s].own].live
           \/ /\ SessOpensAt(s)'
              /\ \A f \in Frames : f # x /\ Frame(f).pc = "loading" =>
                   ~(sess'[s].live /\ sess'[s].own = Frame(f).c),
         x \in Frames' => OpensOf(x)'
  PROVE  OpensInv'
<1>0. Types /\ ContextInv
  BY DEF IInv
<1>1. ASSUME NEW s \in SessIds
      PROVE  SessOpensAt(s)'
  <2> SUFFICES ASSUME sess'[s].live, sess'[s].own # Nsec,
                      sess[s].live, sess'[s].own = sess[s].own,
                      sess'[s].ctx \in {sess[s].ctx, NoCtx}, ctxs'[sess[s].own].live
               PROVE  SessOpensAt(s)'
    BY DEF SessOpensAt
  <2>1. SessOpensAt(s) /\ sess[s].own \in CtxIds
    BY SessionNames DEF OpensInv
  <2>2. CASE sess'[s].ctx = NoCtx
    BY <2>2 DEF SessOpensAt
  <2>3. CASE sess'[s].ctx # NoCtx
    <3>1. sess'[s].ctx = sess[s].ctx /\ sess[s].ctx \in CtxIds /\ ctxs[sess[s].ctx].live
      BY <2>3, SessionNames
    <3> QED BY <2>1, <3>1 DEF SessOpensAt
  <2> QED BY <2>2, <2>3
<1>2. ASSUME NEW f \in Frames'
      PROVE  OpensOf(f)'
  <2>1. CASE f = x
    BY <2>1
  <2>2. CASE f # x
    <3>1. f \in Frames /\ Frame(f)' = Frame(f) /\ OpensOf(f) /\ ShapeOf(Frame(f))
      BY <1>0, <2>2 DEF Moves, OpensInv, Types
    <3>2. Frame(f).own # Nsec => ctxs'[Frame(f).own].ta = ctxs[Frame(f).own].ta
      BY <1>0, <3>1, OwnerLoaded
    <3>3. Frame(f).c # NoCtx => ctxs'[Frame(f).c].ta = ctxs[Frame(f).c].ta
      BY <1>0, <3>1, NamedLoaded
    <3>4. ASSUME Frame(f).pc = "loading", NEW s \in SessIds
          PROVE  ~(sess'[s].live /\ sess'[s].own = Frame(f).c)
      <4>1. Frame(f).c # Nsec
        BY <3>1, <3>4 DEF ShapeOf, Nsec, NoCtx
      <4>2. ~(sess[s].live /\ sess[s].own = Frame(f).c)
        BY <3>1, <3>4 DEF OpensOf, Listed
      <4> QED BY <2>2, <3>1, <3>4, <4>1, <4>2
    <3> QED BY <3>1, <3>2, <3>3, <3>4 DEF OpensOf, Listed
  <2> QED BY <2>1, <2>2
<1> QED BY <1>1, <1>2 DEF OpensInv

\* The call of a thread goes on or ends, and turns at most to what its session
\* is in.
Onward(t) ==
  \/ UNCHANGED stack
  \/ stack[t] # << >> /\ Return(t)
  \/ /\ stack[t] # << >>
     /\ \E fr \in Call :
          /\ Become(t, fr) /\ fr.own = Top(t).own
          /\ fr.pc \notin {"lookup", "load", "loading"}
          /\ \/ fr.c \in {NoCtx, Top(t).c}
             \/ HoldsRef(Top(t)) /\ fr.c = sess[Top(t).s].ctx
\* Sessions at most go or lose their context, and TAs that have some stay.
Fades ==
  /\ \A s \in SessIds : sess'[s].live =>
       /\ sess[s].live /\ sess'[s].own = sess[s].own
       /\ sess'[s].ctx \in {sess[s].ctx, NoCtx}
       /\ sess[s].own # Nsec => ctxs'[sess[s].own].live
  /\ \A c \in CtxIds : ctxs'[c].ta = ctxs[c].ta

\* Such a step opens nothing.
LEMMA OpensPlain ==
  ASSUME IInv, IInv', OpensInv, NEW t \in Threads, Onward(t), Fades
  PROVE  OpensInv'
<1>0. Types /\ ContextInv /\ StackOK /\ SessInv
  BY DEF IInv, Types
<1>1. \A s \in SessIds : sess'[s].live /\ sess'[s].own # Nsec =>
           /\ sess[s].live /\ sess'[s].own = sess[s].own
           /\ sess'[s].ctx \in {sess[s].ctx, NoCtx} /\ ctxs'[sess[s].own].live
  BY DEF Fades
<1>2. \A c \in CtxIds : ctxs[c].live => ctxs'[c].ta = ctxs[c].ta
  BY DEF Fades
<1>3. ASSUME NEW x, Moves(x), x \in Frames' => OpensOf(x)'
      PROVE  OpensInv'
  BY <1>1, <1>2, <1>3, OpensStep
<1>4. CASE UNCHANGED stack
  <2> PICK x : x = << t, 0 >>
    OBVIOUS
  <2>1. Frames' = Frames /\ \A f : Frame(f)' = Frame(f)
    BY <1>4 DEF Frames, Frame
  <2>2. x \notin Frames
    <3>1. FramesByPlace
      BY <1>0, FramesOf DEF StackOK, StackType
    <3> QED BY <3>1 DEF FramesByPlace
  <2> QED BY <1>3, <2>1, <2>2 DEF Moves
<1> PICK x : x = Pos(t)
  OBVIOUS
<1>5. CASE stack[t] # << >> /\ Return(t)
  <2>1. Moves(x) /\ x \notin Frames'
    BY <1>0, <1>5, ReturnStep
  <2> QED BY <1>3, <2>1
<1>6. ASSUME stack[t] # << >>, NEW fr \in Call, Become(t, fr), fr.own = Top(t).own,
             fr.pc \notin {"lookup", "load", "loading"},
             \/ fr.c \in {NoCtx, Top(t).c}
             \/ HoldsRef(Top(t)) /\ fr.c = sess[Top(t).s].ctx
      PROVE  OpensInv'
  <2>1. x \in Frames /\ Frame(x) = Top(t) /\ x \in Frames' /\ Frame(x)' = fr /\ Moves(x)
        /\ Top(t) \in Call
    BY <1>0, <1>6, BecomeStep
  <2>2. ASSUME fr.own # Nsec, fr.c # NoCtx
        PROVE  << ctxs'[fr.own].ta, ctxs'[fr.c].ta >> \in Opens
    <3>1. fr.own \in CtxIds /\ ctxs[fr.own].live /\ OpensOf(x)
      BY <1>0, <1>6, <2>1, <2>2, OwnerLoaded DEF OpensInv
    <3>2. CASE fr.c = Top(t).c
      <4>1. fr.c \in CtxIds
        BY <1>0, <2>1, <2>2, <3>2, NamedLoaded
      <4> QED BY <1>6, <2>1, <2>2, <3>1, <3>2, <4>1 DEF OpensOf, Fades
    <3>3. CASE HoldsRef(Top(t)) /\ fr.c = sess[Top(t).s].ctx
      <4> PICK s \in SessIds : s = Top(t).s
        BY <2>1 DEF Call
      <4>1. sess[s].live /\ sess[s].own = fr.own /\ SessOpensAt(s)
        BY <1>0, <1>6, <2>1, <3>3 DEF SessInv, RefInv, Listed, OpensInv
      <4>2. fr.c \in CtxIds
        BY <2>2, <3>3, <4>1, SessionNames
      <4> QED BY <2>2, <3>1, <3>3, <4>1, <4>2 DEF SessOpensAt, Fades
    <3> QED BY <1>6, <2>2, <3>2, <3>3
  <2>3. OpensOf(x)'
    BY <1>6, <2>1, <2>2 DEF OpensOf
  <2> QED BY <1>3, <2>1, <2>3
<1> QED BY <1>4, <1>5, <1>6 DEF Onward

\* Sessions at most go or lose their context.
SessionsFade ==
  \A s \in SessIds : sess'[s].live =>
    /\ sess[s].live /\ sess'[s].own = sess[s].own
    /\ sess'[s].ctx \in {sess[s].ctx, NoCtx}
\* The loaded TAs stay.
TasStay ==
  \A c \in CtxIds : ctxs'[c].ta = ctxs[c].ta /\ ctxs'[c].live = ctxs[c].live

\* Then so do those that have sessions.
LEMMA FadesIf ==
  ASSUME IInv, OpensInv, SessionsFade, TasStay
  PROVE  Fades
<1>1. ASSUME NEW s \in SessIds, sess'[s].live, sess[s].own # Nsec
      PROVE  ctxs'[sess[s].own].live
  <2>1. sess[s].live /\ SessOpensAt(s)
    BY <1>1 DEF SessionsFade, OpensInv
  <2>2. sess[s].own \in CtxIds
    BY <1>1, <2>1, SessionNames
  <2> QED BY <1>1, <2>1, <2>2 DEF SessOpensAt, TasStay
<1> QED BY <1>1 DEF Fades, SessionsFade, TasStay

\* One session changes in the rest.
LEMMA OneFades ==
  ASSUME Types, NEW s \in SessIds, NEW r, sess' = [sess EXCEPT ![s] = r],
         r.live => sess[s].live /\ r.own = sess[s].own /\ r.ctx \in {sess[s].ctx, NoCtx}
  PROVE  SessionsFade
BY DEF Types, Tables, SessionsFade

\* One context is marked.
LEMMA OneStays ==
  ASSUME Types, NEW c \in CtxIds, NEW r, ctxs' = [ctxs EXCEPT ![c] = r],
         r.live = ctxs[c].live, r.ta = ctxs[c].ta
  PROVE  TasStay
BY DEF Types, Tables, TasStay

\* A call goes to another place.
LEMMA GoesOn ==
  ASSUME NEW t \in Threads, stack[t] # << >>, Top(t) \in Call,
         NEW loc \in Locs \ {"lookup", "load", "loading"}
  PROVE  /\ Goto(t, loc) => Onward(t)
         /\ \A res \in {"ok", "err", "dead"} :
              Become(t, [Top(t) EXCEPT !.pc = loc, !.res = res]) => Onward(t)
<1>1. ASSUME NEW fr \in Call, Become(t, fr), fr.own = Top(t).own, fr.pc = loc, fr.c = Top(t).c
      PROVE  Onward(t)
  BY <1>1 DEF Onward
<1>2. ASSUME Goto(t, loc)
      PROVE  Onward(t)
  <2> DEFINE fr == [Top(t) EXCEPT !.pc = loc]
  <2>1. fr \in Call /\ fr.own = Top(t).own /\ fr.pc = loc /\ fr.c = Top(t).c
    BY MovedCall DEF Call
  <2>2. Become(t, fr)
    BY <1>2 DEF Goto
  <2> HIDE DEF fr
  <2> QED BY <1>1, <2>1, <2>2
<1>3. ASSUME NEW res \in {"ok", "err", "dead"},
             Become(t, [Top(t) EXCEPT !.pc = loc, !.res = res])
      PROVE  Onward(t)
  <2> DEFINE fr == [Top(t) EXCEPT !.pc = loc, !.res = res]
  <2>1. fr \in Call /\ fr.own = Top(t).own /\ fr.pc = loc /\ fr.c = Top(t).c
    BY MovedCall DEF Call
  <2>2. Become(t, fr)
    BY <1>3
  <2> HIDE DEF fr
  <2> QED BY <1>1, <2>1, <2>2
<1> QED BY <1>2, <1>3

\* The steps that open nothing: on the way into a session that is being opened,
LEMMA OpenStepFades ==
  ASSUME IInv, OpensInv, NEW t \in Threads,
         LoadNoMemory(t) \/ Loaded(t) \/ LoadFails(t) \/ OpenFails(t) \/ Opened(t)
  PROVE  Onward(t) /\ Fades
<1> PICK x : x = Pos(t)
  OBVIOUS
<1>0. Types /\ sess \in [SessIds -> Session] /\ ctxs \in [CtxIds -> Context]
  BY DEF IInv, Types, Tables
<1>1. /\ stack[t] # << >> /\ Top(t) \in Call /\ ShapeOf(Top(t)) /\ x \in Frames
      /\ Frame(x) = Top(t) /\ Top(t).s \in SessIds
      /\ Top(t).pc \in {"load", "loading", "fail", "opened"} /\ Top(t).op = "open"
  <2>1. /\ stack[t] # << >> /\ Top(t) \in Call /\ ShapeOf(Top(t)) /\ x \in Frames
        /\ Frame(x) = Top(t)
        /\ Top(t).pc \in {"load", "loading", "fail", "opened"}
    BY AtStep DEF LoadNoMemory, Loaded, LoadFails, OpenFails, Opened
  <2> QED BY <2>1, OpAt DEF Call
<1>2. {"fail", "opened", "busy", "get"} \subseteq Locs \ {"lookup", "load", "loading"}
  BY LocsAre
<1>3. UNCHANGED sess => SessionsFade
  BY DEF SessionsFade
<1>4. UNCHANGED ctxs => TasStay
  BY DEF TasStay
<1>5. CASE LoadNoMemory(t)
  <2>1. Onward(t)
    BY <1>1, <1>2, <1>5, GoesOn DEF LoadNoMemory
  <2> QED BY <1>3, <1>4, <1>5, <2>1, FadesIf DEF LoadNoMemory, tables
<1>6. CASE Loaded(t)
  <2>1. Onward(t)
    BY <1>1, <1>2, <1>6, GoesOn DEF Loaded
  <2> PICK c \in CtxIds : c = Top(t).c
    BY <1>1, <1>6 DEF Loaded, At, ShapeOf, Call
  <2> DEFINE r == [ctxs[c] EXCEPT !.init = FALSE]
  <2>2. r.live = ctxs[c].live /\ r.ta = ctxs[c].ta
    BY <1>0 DEF Context
  <2>3. ctxs' = [ctxs EXCEPT ![c] = r]
    BY <1>6 DEF Loaded
  <2> HIDE DEF r
  <2>4. TasStay
    BY <1>0, <2>2, <2>3, OneStays
  <2> QED BY <1>3, <1>6, <2>1, <2>4, FadesIf DEF Loaded
<1>7. CASE LoadFails(t)
  <2> PICK c \in CtxIds : c = Top(t).c
    BY <1>1, <1>7 DEF LoadFails, At, ShapeOf, Call
  <2> PICK s \in SessIds : s = Top(t).s
    BY <1>1
  <2>0. Top(t).pc = "loading" /\ OpensOf(x)
    BY <1>1, <1>7 DEF LoadFails, At, OpensInv
  <2>1. Onward(t)
    <3> DEFINE fr == [Top(t) EXCEPT !.pc = "fail", !.c = NoCtx]
    <3>1. fr \in Call /\ fr.own = Top(t).own /\ fr.pc = "fail" /\ fr.c = NoCtx
      BY <1>1, <1>2, MovedCall DEF Call
    <3>2. Become(t, fr)
      BY <1>7 DEF LoadFails
    <3> HIDE DEF fr
    <3> QED BY <1>1, <3>1, <3>2 DEF Onward
  <2> DEFINE r == [sess[s] EXCEPT !.ctx = NoCtx]
             z == [ctxs[c] EXCEPT !.live = FALSE]
  <2>2. r.live = sess[s].live /\ r.own = sess[s].own /\ r.ctx = NoCtx /\ z.ta = ctxs[c].ta
    BY <1>0 DEF Context, Session
  <2>3. sess' = [sess EXCEPT ![s] = r] /\ ctxs' = [ctxs EXCEPT ![c] = z]
    BY <1>7 DEF LoadFails
  <2> HIDE DEF r, z
  <2>4. SessionsFade
    BY <1>0, <2>2, <2>3, OneFades
  <2>5. \A d \in CtxIds : ctxs'[d].ta = ctxs[d].ta /\ (d # c => ctxs'[d].live = ctxs[d].live)
    BY <1>0, <2>2, <2>3
  <2>6. ASSUME NEW o \in SessIds, sess'[o].live, sess[o].own # Nsec
        PROVE  ctxs'[sess[o].own].live
    <3>1. sess[o].live /\ SessOpensAt(o)
      BY <2>4, <2>6 DEF SessionsFade, OpensInv
    <3>2. sess[o].own \in CtxIds /\ sess[o].own # c
      BY <1>1, <2>0, <2>6, <3>1, SessionNames DEF OpensOf, Listed
    <3> QED BY <2>5, <2>6, <3>1, <3>2 DEF SessOpensAt
  <2> QED BY <2>1, <2>4, <2>5, <2>6 DEF Fades, SessionsFade
<1>8. CASE OpenFails(t)
  <2>1. Onward(t)
    BY <1>1, <1>8 DEF OpenFails, Onward
  <2>2. SessionsFade
    BY <1>0, <1>1, <1>8, OneFades DEF OpenFails, FreeSession
  <2> QED BY <1>4, <1>8, <2>1, <2>2, FadesIf DEF OpenFails
<1>9. CASE Opened(t)
  <2>1. Onward(t)
    <3> DEFINE c == sess[Top(t).s].ctx
               fr1 == [Top(t) EXCEPT !.op = "close", !.pc = "get", !.c = NoCtx]
               fr2 == [Top(t) EXCEPT !.pc = "busy", !.c = c]
    <3>1. c \in CtxIds \cup {NoCtx} /\ "close" \in DOMAIN Places
      BY <1>0, <1>1 DEF Session, Places
    <3>2. fr1 \in Call /\ fr1.own = Top(t).own /\ fr1.pc = "get" /\ fr1.c = NoCtx
      BY <1>1, <1>2, <3>1 DEF Call
    <3>3. fr2 \in Call /\ fr2.own = Top(t).own /\ fr2.pc = "busy" /\ fr2.c = c
      BY <1>1, <1>2, <3>1 DEF Call
    <3>4. HoldsRef(Top(t))
      BY <1>1 DEF HoldsRef
    <3>5. Become(t, fr1) \/ Become(t, fr2)
      BY <1>9 DEF Opened
    <3> HIDE DEF fr1, fr2
    <3> QED BY <1>1, <3>2, <3>3, <3>4, <3>5 DEF Onward
  <2> QED BY <1>3, <1>4, <1>9, <2>1, FadesIf DEF Opened, tables
<1> QED BY <1>5, <1>6, <1>7, <1>8, <1>9

\* into a TA and out of it,
LEMMA EnterStepFades ==
  ASSUME IInv, OpensInv, NEW t \in Threads, EnterStep(t)
  PROVE  Onward(t) /\ Fades
<1> PICK x : x = Pos(t)
  OBVIOUS
<1>0. Types /\ sess \in [SessIds -> Session] /\ ctxs \in [CtxIds -> Context]
  BY DEF IInv, Types, Tables
<1>1. /\ stack[t] # << >> /\ Top(t) \in Call /\ Top(t).c \in CtxIds
      /\ Top(t).op \in {"open", "invoke", "close"}
      /\ Top(t).pc = "left" => Top(t).op \in {"open", "invoke"}
  <2>1. /\ stack[t] # << >> /\ Top(t) \in Call /\ ShapeOf(Top(t))
        /\ Top(t).pc \in {"busy", "run", "leave", "left"}
    BY AtStep DEF EnterStep, SetBusyWait, SetBusy, SetBusyRefuses, TaReturns, TaPanics,
                  ClearBusy, Left
  <2>2. Top(t).c # NoCtx
    BY <2>1 DEF ShapeOf
  <2> QED BY <2>1, <2>2, OpAt DEF Call
<1> PICK c \in CtxIds : c = Top(t).c
  BY <1>1
<1>2. {"busy", "run", "leave", "left", "unlink", "dec", "put", "destroy"}
        \subseteq Locs \ {"lookup", "load", "loading"}
  BY LocsAre
<1>3. UNCHANGED sess => SessionsFade
  BY DEF SessionsFade
<1>4. UNCHANGED ctxs => TasStay
  BY DEF TasStay
<1>5. UNCHANGED stack => Onward(t)
  BY DEF Onward
<1>6. \A b \in BOOLEAN : /\ ctxs' = [ctxs EXCEPT ![c].busy = b] => TasStay
                         /\ ctxs' = [ctxs EXCEPT ![c].panicked = b] => TasStay
  <2> TAKE b \in BOOLEAN
  <2> DEFINE r == [ctxs[c] EXCEPT !.busy = b]
             z == [ctxs[c] EXCEPT !.panicked = b]
  <2>1. r.live = ctxs[c].live /\ r.ta = ctxs[c].ta /\ z.live = ctxs[c].live /\ z.ta = ctxs[c].ta
    BY <1>0 DEF Context
  <2>2. /\ ctxs' = [ctxs EXCEPT ![c].busy = b] => ctxs' = [ctxs EXCEPT ![c] = r]
        /\ ctxs' = [ctxs EXCEPT ![c].panicked = b] => ctxs' = [ctxs EXCEPT ![c] = z]
    OBVIOUS
  <2> HIDE DEF r, z
  <2> QED BY <1>0, <2>1, <2>2, OneStays
<1>7. ASSUME Onward(t), UNCHANGED sess,
             UNCHANGED ctxs \/ \E b \in BOOLEAN : \/ ctxs' = [ctxs EXCEPT ![c].busy = b]
                                                  \/ ctxs' = [ctxs EXCEPT ![c].panicked = b]
      PROVE  Onward(t) /\ Fades
  BY <1>3, <1>4, <1>6, <1>7, FadesIf
<1>8. CASE SetBusyWait(t)
  BY <1>5, <1>7, <1>8 DEF SetBusyWait, tables
<1>9. CASE SetBusy(t)
  <2>1. Onward(t)
    BY <1>1, <1>2, <1>9, GoesOn DEF SetBusy
  <2> QED BY <1>7, <1>9, <2>1 DEF SetBusy
<1>10. CASE SetBusyRefuses(t)
  <2>1. Onward(t)
    BY <1>1, <1>2, <1>5, <1>10, GoesOn DEF SetBusyRefuses
  <2> QED BY <1>7, <1>10, <2>1 DEF SetBusyRefuses, tables
<1>11. CASE TaReturns(t)
  <2>1. Onward(t)
    BY <1>1, <1>2, <1>11, GoesOn DEF TaReturns, AfterRun
  <2> QED BY <1>7, <1>11, <2>1 DEF TaReturns, tables
<1>12. CASE TaPanics(t)
  <2>1. Onward(t)
    BY <1>1, <1>2, <1>12, GoesOn DEF TaPanics, AfterRun
  <2> QED BY <1>7, <1>12, <2>1 DEF TaPanics
<1>13. CASE ClearBusy(t)
  <2>1. Onward(t)
    BY <1>1, <1>2, <1>13, GoesOn DEF ClearBusy
  <2> QED BY <1>7, <1>13, <2>1 DEF ClearBusy
<1>14. CASE Left(t)
  <2>1. Onward(t)
    <3>1. CASE Top(t).op = "open"
      <4>1. PICK res \in {"ok", "err", "dead"} :
              Become(t, [Top(t) EXCEPT !.pc = "put", !.res = res])
        BY <1>1, <1>14, <3>1 DEF Left, Call
      <4> QED BY <1>1, <1>2, <4>1, GoesOn
    <3>2. CASE Top(t).op # "open"
      BY <1>1, <1>2, <1>14, <3>2, GoesOn DEF Left
    <3> QED BY <3>1, <3>2
  <2> QED BY <1>7, <1>14, <2>1 DEF Left, tables
<1> QED BY <1>8, <1>9, <1>10, <1>11, <1>12, <1>13, <1>14 DEF EnterStep

\* around the references and the lock of a session,
LEMMA SessionStepFades ==
  ASSUME IInv, OpensInv, NEW t \in Threads, SessionStep(t)
  PROVE  Onward(t) /\ Fades
<1> PICK x : x = Pos(t)
  OBVIOUS
<1>0. Types /\ sess \in [SessIds -> Session]
  BY DEF IInv, Types, Tables
<1>1. /\ stack[t] # << >> /\ Top(t) \in Call /\ Top(t).s \in SessIds /\ ShapeOf(Top(t))
      /\ Top(t).op \in DOMAIN Places
  <2>1. stack[t] # << >> /\ Top(t) \in Call /\ ShapeOf(Top(t))
    BY AtStep DEF SessionStep, GetNothing, Get, GetAgain, Got, Put, Unlink, UnlinkAgain
  <2> QED BY <2>1 DEF Call
<1> PICK s \in SessIds : s = Top(t).s
  BY <1>1
<1>2. {"getwait", "got", "get", "put", "busy", "unlink", "destroy", "unlinkwait", "dec", "leave"}
        \subseteq Locs \ {"lookup", "load", "loading"}
  BY LocsAre
<1>3. UNCHANGED sess => SessionsFade
  BY DEF SessionsFade
<1>4. UNCHANGED ctxs => TasStay
  BY DEF TasStay
<1>5. UNCHANGED stack => Onward(t)
  BY DEF Onward
<1>6. stack[t] # << >> /\ Return(t) => Onward(t)
  BY DEF Onward
<1>8. CASE GetNothing(t)
  BY <1>1, <1>3, <1>4, <1>6, <1>8, FadesIf DEF GetNothing, tables
<1>9. /\ \A v : sess' = [sess EXCEPT ![s].refs = v] => SessionsFade
      /\ \A v : sess' = [sess EXCEPT ![s].lock = v] => SessionsFade
      /\ \A v : sess' = [sess EXCEPT ![s].unlink = v] => SessionsFade
  BY <1>0 DEF Session, SessionsFade
<1>10. \A v, z : sess' = [[sess EXCEPT ![s].refs = v] EXCEPT ![s].lock = z] => SessionsFade
  BY <1>0 DEF Session, SessionsFade
<1>11. CASE Get(t)
  <2>1. Onward(t)
    BY <1>1, <1>2, <1>11, GoesOn DEF Get
  <2>2. SessionsFade
    BY <1>9, <1>10, <1>11 DEF Get
  <2> QED BY <1>4, <1>11, <2>1, <2>2, FadesIf DEF Get
<1>12. CASE GetAgain(t)
  <2>1. Onward(t)
    BY <1>1, <1>2, <1>5, <1>6, <1>12, GoesOn DEF GetAgain
  <2>2. SessionsFade
    BY <1>3, <1>9, <1>12 DEF GetAgain, DecRef
  <2> QED BY <1>4, <1>12, <2>1, <2>2, FadesIf DEF GetAgain
<1>13. CASE Got(t)
  <2>1. Onward(t)
    <3> DEFINE c == sess[s].ctx
    <3>1. c \in CtxIds \cup {NoCtx}
      BY <1>0 DEF Session
    <3>2. PICK loc \in {"unlink", "put", "destroy", "busy"} :
            Become(t, [Top(t) EXCEPT !.c = c, !.res = "dead", !.pc = loc])
      BY <1>13 DEF Got
    <3> DEFINE fr == [Top(t) EXCEPT !.c = c, !.res = "dead", !.pc = loc]
    <3>3. fr \in Call /\ fr.own = Top(t).own /\ fr.pc = loc /\ fr.c = c
      BY <1>1, <1>2, <3>1 DEF Call
    <3>4. HoldsRef(Top(t))
      BY <1>1, <1>13, OpAt DEF Got, At, HoldsRef
    <3>5. Become(t, fr)
      BY <3>2
    <3> HIDE DEF fr
    <3> QED BY <1>1, <3>3, <3>4, <3>5 DEF Onward
  <2> QED BY <1>3, <1>4, <1>13, <2>1, FadesIf DEF Got, tables
<1>14. CASE Put(t)
  <2>1. Onward(t)
    <3> DEFINE fr == [Top(t) EXCEPT !.op = "close", !.pc = "get", !.c = NoCtx]
    <3>1. "close" \in DOMAIN Places
      BY DEF Places
    <3>2. fr \in Call /\ fr.own = Top(t).own /\ fr.pc = "get" /\ fr.c = NoCtx
      BY <1>1, <1>2, <3>1 DEF Call
    <3>3. Become(t, fr) \/ Return(t)
      BY <1>14 DEF Put
    <3> HIDE DEF fr
    <3> QED BY <1>1, <1>6, <3>2, <3>3 DEF Onward
  <2>2. SessionsFade
    <3> DEFINE base == IF sess[s].lock = t THEN [sess EXCEPT ![s].lock = NoThread] ELSE sess
    <3>1. /\ base \in [SessIds -> Session]
          /\ \A o \in SessIds : /\ base[o].live = sess[o].live /\ base[o].own = sess[o].own
                                /\ base[o].ctx = sess[o].ctx
      BY <1>0 DEF Session
    <3>2. PICK v, z : sess' = [[base EXCEPT ![s].refs = v] EXCEPT ![s].handed = z]
      BY <1>14 DEF Put, DecRef
    <3> HIDE DEF base
    <3> QED BY <3>1, <3>2 DEF Session, SessionsFade
  <2> QED BY <1>4, <1>14, <2>1, <2>2, FadesIf DEF Put
<1>15. ASSUME NEW ss, Removed(t, ss), ss \in [SessIds -> Session],
              \A o \in SessIds : /\ ss[o].live = sess[o].live /\ ss[o].own = sess[o].own
                                 /\ ss[o].ctx = sess[o].ctx
       PROVE  Onward(t) /\ SessionsFade
  <2>1. Onward(t)
    BY <1>1, <1>2, <1>6, <1>15, GoesOn DEF Removed
  <2>2. sess' = [ss EXCEPT ![s] = FreeSession]
    BY <1>15 DEF Removed
  <2>3. SessionsFade
    BY <1>15, <2>2 DEF SessionsFade, FreeSession
  <2> QED BY <2>1, <2>3
<1>16. CASE Unlink(t)
  <2> DEFINE ss == [sess EXCEPT ![s].unlink = TRUE]
  <2>1. /\ ss \in [SessIds -> Session]
        /\ \A o \in SessIds : /\ ss[o].live = sess[o].live /\ ss[o].own = sess[o].own
                              /\ ss[o].ctx = sess[o].ctx
    <3> DEFINE r == [sess[s] EXCEPT !.unlink = TRUE]
    <3>1. r \in Session /\ r.live = sess[s].live /\ r.own = sess[s].own /\ r.ctx = sess[s].ctx
      BY <1>0 DEF Session
    <3>2. ss = [sess EXCEPT ![s] = r]
      OBVIOUS
    <3> HIDE DEF r
    <3> QED BY <1>0, <3>1, <3>2
  <2>2. Removed(t, ss) \/ (sess' = ss /\ Goto(t, "unlinkwait"))
    BY <1>16 DEF Unlink
  <2>3. Onward(t) /\ SessionsFade
    <3>1. CASE Removed(t, ss)
      <4> HIDE DEF ss
      <4> QED BY <1>15, <2>1, <3>1
    <3>2. CASE sess' = ss /\ Goto(t, "unlinkwait")
      BY <1>1, <1>2, <1>9, <3>2, GoesOn
    <3> QED BY <2>2, <3>1, <3>2
  <2> QED BY <1>4, <1>16, <2>3, FadesIf DEF Unlink
<1>17. CASE UnlinkAgain(t)
  <2>1. Removed(t, sess) \/ UNCHANGED << sess, stack >>
    BY <1>17 DEF UnlinkAgain
  <2>2. Onward(t) /\ SessionsFade
    BY <1>0, <1>3, <1>5, <1>15, <2>1
  <2> QED BY <1>4, <1>17, <2>2, FadesIf DEF UnlinkAgain
<1> QED BY <1>8, <1>11, <1>12, <1>13, <1>14, <1>16, <1>17 DEF SessionStep

\* and around the count of a context and its end.
LEMMA ContextStepFades ==
  ASSUME IInv, OpensInv, NEW t \in Threads,
         DropContext(t) \/ DestroyContext(t) \/ DestroyCondvar(t) \/ FreeContext(t)
  PROVE  Onward(t) /\ Fades
<1> PICK x : x = Pos(t)
  OBVIOUS
<1>0. Types /\ sess \in [SessIds -> Session] /\ ctxs \in [CtxIds -> Context]
  BY DEF IInv, Types, Tables
<1>1. /\ stack[t] # << >> /\ Top(t) \in Call /\ Top(t).s \in SessIds
      /\ Top(t).c \in CtxIds
      /\ Top(t).pc \in {"dec", "destroy", "destroycv", "free"}
      /\ Top(t).pc = "destroy" => Top(t).op = "invoke"
  <2>1. /\ stack[t] # << >> /\ Top(t) \in Call /\ ShapeOf(Top(t))
        /\ Top(t).pc \in {"dec", "destroy", "destroycv", "free"}
    BY AtStep DEF DropContext, DestroyContext, DestroyCondvar, FreeContext
  <2>2. Top(t).c # NoCtx
    BY <2>1 DEF ShapeOf
  <2> QED BY <2>1, <2>2, OpAt DEF Call
<1> PICK s \in SessIds : s = Top(t).s
  BY <1>1
<1> PICK c \in CtxIds : c = Top(t).c
  BY <1>1
<1>2. {"destroycv", "free", "put"} \subseteq Locs \ {"lookup", "load", "loading"}
  BY LocsAre
<1>3. UNCHANGED sess => SessionsFade
  BY DEF SessionsFade
<1>4. UNCHANGED ctxs => TasStay
  BY DEF TasStay
<1>5. UNCHANGED stack => Onward(t)
  BY DEF Onward
<1>6. stack[t] # << >> /\ Return(t) => Onward(t)
  BY DEF Onward
<1>7. CASE DropContext(t)
  <2>1. Onward(t)
    BY <1>1, <1>2, <1>5, <1>6, <1>7, GoesOn DEF DropContext
  <2>2. TasStay
    <3> DEFINE r == [ctxs[c] EXCEPT !.refs = @ - 1]
    <3>1. r.live = ctxs[c].live /\ r.ta = ctxs[c].ta
      BY <1>0 DEF Context
    <3>2. ctxs' = ctxs \/ ctxs' = [ctxs EXCEPT ![c] = r]
      BY <1>7 DEF DropContext
    <3> HIDE DEF r
    <3> QED BY <1>0, <1>4, <3>1, <3>2, OneStays
  <2> QED BY <1>3, <1>7, <2>1, <2>2, FadesIf DEF DropContext
<1>8. CASE DestroyContext(t)
  <2>1. Onward(t)
    <3> DEFINE fr == [Top(t) EXCEPT !.pc = "destroycv", !.c = sess[s].ctx]
    <3>1. UNCHANGED stack \/ Become(t, fr)
      BY <1>8 DEF DestroyContext
    <3>2. sess[s].ctx \in CtxIds \cup {NoCtx}
      BY <1>0 DEF Session
    <3>3. fr \in Call /\ fr.own = Top(t).own /\ fr.pc = "destroycv" /\ fr.c = sess[s].ctx
      BY <1>1, <1>2, <3>2, MovedCall DEF Call
    <3>4. HoldsRef(Top(t))
      BY <1>1, <1>8 DEF HoldsRef, DestroyContext, At
    <3> HIDE DEF fr
    <3> QED BY <1>1, <1>5, <3>1, <3>3, <3>4 DEF Onward
  <2>2. SessionsFade
    <3>1. \/ UNCHANGED sess
          \/ \E others : sess' = [o \in SessIds |->
                           IF o \in others THEN [sess[o] EXCEPT !.ctx = NoCtx] ELSE sess[o]]
      BY <1>8 DEF DestroyContext
    <3>2. ASSUME NEW others,
                 sess' = [o \in SessIds |->
                           IF o \in others THEN [sess[o] EXCEPT !.ctx = NoCtx] ELSE sess[o]],
                 NEW o \in SessIds
          PROVE  /\ sess'[o].live = sess[o].live /\ sess'[o].own = sess[o].own
                 /\ sess'[o].ctx \in {sess[o].ctx, NoCtx}
      <4>1. sess[o] \in Session
        BY <1>0
      <4> QED BY <3>2, <4>1 DEF Session
    <3> QED BY <1>3, <3>1, <3>2 DEF SessionsFade
  <2> QED BY <1>4, <1>8, <2>1, <2>2, FadesIf DEF DestroyContext
<1>9. CASE DestroyCondvar(t)
  <2>1. Onward(t)
    BY <1>1, <1>2, <1>5, <1>9, GoesOn DEF DestroyCondvar
  <2> QED BY <1>3, <1>4, <1>9, <2>1, FadesIf DEF DestroyCondvar, tables
<1>10. CASE FreeContext(t)
  <2>1. Onward(t)
    <3> DEFINE fr == [Top(t) EXCEPT !.pc = "put", !.c = NoCtx]
    <3>1. Return(t) \/ Become(t, fr)
      BY <1>10 DEF FreeContext
    <3>2. fr \in Call /\ fr.own = Top(t).own /\ fr.pc = "put" /\ fr.c = NoCtx
      BY <1>1, <1>2, MovedCall DEF Call
    <3> HIDE DEF fr
    <3> QED BY <1>1, <1>6, <3>1, <3>2 DEF Onward
  <2> DEFINE r == [sess[s] EXCEPT !.ctx = NoCtx]
             z == [ctxs[c] EXCEPT !.live = FALSE]
  <2>2. r.live = sess[s].live /\ r.own = sess[s].own /\ r.ctx = NoCtx /\ z.ta = ctxs[c].ta
    BY <1>0 DEF Context, Session
  <2>3. /\ UNCHANGED sess \/ sess' = [sess EXCEPT ![s] = r]
        /\ ctxs' = [ctxs EXCEPT ![c] = z]
        /\ \A o \in SessIds : ~Listed(o, c)
    BY <1>10 DEF FreeContext
  <2> HIDE DEF r, z
  <2>4. SessionsFade
    BY <1>0, <1>3, <2>2, <2>3, OneFades
  <2>5. \A d \in CtxIds : ctxs'[d].ta = ctxs[d].ta /\ (d # c => ctxs'[d].live = ctxs[d].live)
    BY <1>0, <2>2, <2>3
  <2>6. ASSUME NEW o \in SessIds, sess'[o].live, sess[o].own # Nsec
        PROVE  ctxs'[sess[o].own].live
    <3>1. sess[o].live /\ SessOpensAt(o)
      BY <2>4, <2>6 DEF SessionsFade, OpensInv
    <3>2. sess[o].own \in CtxIds /\ sess[o].own # c
      BY <2>3, <2>6, <3>1, SessionNames DEF Listed
    <3> QED BY <2>5, <2>6, <3>1, <3>2 DEF SessOpensAt
  <2> QED BY <2>1, <2>4, <2>5, <2>6 DEF Fades, SessionsFade
<1> QED BY <1>7, <1>8, <1>9, <1>10

\* A call that is started with a session that is there opens nothing.
LEMMA UseOpens ==
  ASSUME IInv, IInv', OpensInv, NEW t \in Threads,
         FreeCloses(t) \/ \E s \in SessIds, op \in {"invoke", "close", "cancel"} : Use(t, op, s)
  PROVE  OpensInv'
<1> PICK x : x = Above(t)
  OBVIOUS
<1>0. Types /\ StackOK /\ sess \in [SessIds -> Session] /\ ctxs \in [CtxIds -> Context]
  BY DEF IInv, Types, Tables
<1>1. stack[t] # << >> =>
        /\ Top(t) \in Call /\ ShapeOf(Top(t)) /\ Top(t).pc \in {"run", "free"}
  <2> PICK y : y = Pos(t)
    OBVIOUS
  <2>1. stack[t] # << >> => Top(t) \in Call /\ ShapeOf(Top(t))
    BY <1>0, Here
  <2> QED BY <2>1 DEF Use, MayCall, FreeCloses, At
<1> DEFINE Started(s, fr) ==
        /\ Push(t, fr) /\ fr.own = Caller(t) /\ fr.pc = "get" /\ fr.c = NoCtx
        /\ fr = [op |-> fr.op, pc |-> "get", s |-> s, c |-> NoCtx, ta |-> fr.ta,
                 own |-> Caller(t), res |-> "ok"]
        /\ fr.op \in {"invoke", "close", "cancel"} /\ fr.ta \in Tas
        /\ UNCHANGED sess \/ sess' = [sess EXCEPT ![s].handed = FALSE]
        /\ UNCHANGED ctxs
<1>started. PICK s \in SessIds : \E fr : Started(s, fr)
  <2>1. CASE FreeCloses(t)
    <3> PICK s \in SessIds :
          /\ sess' = [sess EXCEPT ![s].handed = FALSE]
          /\ Push(t, [op |-> "close", pc |-> "get", s |-> s, c |-> NoCtx,
                      ta |-> ctxs[Top(t).c].ta, own |-> Top(t).c, res |-> "ok"])
      BY <2>1 DEF FreeCloses
    <3>1. stack[t] # << >> /\ Top(t).pc = "free"
      BY <2>1 DEF FreeCloses, At
    <3>2. Top(t).c \in CtxIds /\ Caller(t) = Top(t).c
      BY <1>1, <3>1 DEF ShapeOf, Call, Caller
    <3>3. ctxs[Top(t).c].ta \in Tas
      BY <1>0, <3>2 DEF Context
    <3> DEFINE fr == [op |-> "close", pc |-> "get", s |-> s, c |-> NoCtx,
                      ta |-> ctxs[Top(t).c].ta, own |-> Top(t).c, res |-> "ok"]
    <3> WITNESS s \in SessIds
    <3> WITNESS fr
    <3> QED BY <2>1, <3>2, <3>3 DEF FreeCloses
  <2>2. CASE \E s \in SessIds, op \in {"invoke", "close", "cancel"} : Use(t, op, s)
    <3> PICK s \in SessIds, op \in {"invoke", "close", "cancel"} : Use(t, op, s)
      BY <2>2
    <3>1. (CHOOSE ta \in Tas : TRUE) \in Tas
      BY SessionsAssumption
    <3> DEFINE fr == [op |-> op, pc |-> "get", s |-> s, c |-> NoCtx,
                      ta |-> CHOOSE ta \in Tas : TRUE, own |-> Caller(t), res |-> "ok"]
    <3> WITNESS s \in SessIds
    <3> WITNESS fr
    <3> QED BY <3>1 DEF Use
  <2> QED BY <2>1, <2>2
<1>2. PICK fr : Started(s, fr)
  BY <1>started
<1>3. fr \in Call
  <2>1. Caller(t) \in CtxIds \cup {Nsec}
    BY <1>1 DEF Caller, Call, Nsec, NoCtx
  <2>2. fr.op \in DOMAIN Places /\ "get" \in Locs
    BY <1>2, LocsAre DEF Places
  <2> QED BY <1>2, <2>1, <2>2 DEF Call
<1>4. x \in Frames' /\ Frame(x)' = fr /\ Moves(x)
  BY <1>0, <1>1, <1>2, <1>3, PushStep
<1>5. OpensOf(x)'
  BY <1>2, <1>4 DEF OpensOf
<1>6. \A o \in SessIds : /\ sess'[o].live = sess[o].live /\ sess'[o].own = sess[o].own
                         /\ sess'[o].ctx = sess[o].ctx
  BY <1>0, <1>2 DEF Session
<1>7. SessionsFade /\ TasStay
  BY <1>2, <1>6 DEF SessionsFade, TasStay
<1>8. Fades
  BY <1>7, FadesIf
<1> QED BY <1>4, <1>5, <1>8, OpensStep DEF Fades

\* A context that is joined is still that of its TA.
LEMMA JoinedStays ==
  ASSUME Types, NEW d \in CtxIds, ctxs' = Joined(d)
  PROVE  TasStay
<1> DEFINE r == [ctxs[d] EXCEPT !.refs = @ + 1]
<1>1. r.live = ctxs[d].live /\ r.ta = ctxs[d].ta
  BY DEF Types, Tables, Context
<1>2. ctxs' = [ctxs EXCEPT ![d] = r]
  BY DEF Joined
<1> HIDE DEF r
<1> QED BY <1>1, <1>2, OneStays

\* A TA that is being loaded makes no call.
LEMMA LoadingRunsNot ==
  ASSUME IInv, NEW f \in Frames, Frame(f).pc = "loading",
         NEW g \in Frames, Frame(g).pc # "loading"
  PROVE  Frame(f).c # Frame(g).c
<1>0. Types /\ SessInv /\ ContextInv
  BY DEF IInv
<1>1. ShapeOf(Frame(f)) /\ CtxOf(f) /\ CtxOf(g) /\ Frame(f) \in Call
  BY <1>0, FramesTypedNow DEF FramesTyped, ContextInv, CtxInv
<1>2. Frame(f).c # NoCtx /\ ~Frees(Frame(f))
  BY <1>1 DEF ShapeOf, Frees
<1>3. Frame(f).c \in Range(tee_ctxes) /\ ctxs[Frame(f).c].refs = 1
  BY <1>1, <1>2 DEF CtxOf
<1> SUFFICES ASSUME Frame(f).c = Frame(g).c
             PROVE  FALSE
  OBVIOUS
<1>4. f = g
  BY <1>0, <1>3, Alone DEF Uses
<1> QED BY <1>4

\* tee_ta_init_user_ta_session() and a session that waited for a load: the
\* context is that of the TA asked for.
LEMMA LoadOpens ==
  ASSUME IInv, IInv', OpensInv, NEW t \in Threads, Load(t)
  PROVE  OpensInv'
<1> PICK x : x = Pos(t)
  OBVIOUS
<1>0. /\ Types /\ SessInv /\ ContextInv /\ StackOK
      /\ sess \in [SessIds -> Session] /\ ctxs \in [CtxIds -> Context]
  BY DEF IInv, Types, Tables
<1>1. /\ stack[t] # << >> /\ Top(t).pc = "load" /\ Top(t) \in Call /\ Top(t).op = "open"
      /\ x \in Frames /\ Frame(x) = Top(t) /\ OpensOf(x)
  BY AtStep, OpAt DEF Load, OpensInv
<1> PICK s \in SessIds : s = Top(t).s
  BY <1>1 DEF Call
<1>2. PICK d \in CtxIds : d = Least({c \in CtxIds : ~ctxs[c].live}) /\ ~ctxs[d].live
  <2>1. {c \in CtxIds : ~ctxs[c].live} # {} /\ {c \in CtxIds : ~ctxs[c].live} \subseteq Nat
    BY DEF Load, CtxIds
  <2> QED BY <2>1, LeastIn
<1>3. /\ ctxs' = [ctxs EXCEPT ![d] = [live |-> TRUE, ta |-> Top(t).ta, refs |-> 1,
                       busy |-> FALSE, panicked |-> FALSE, init |-> TRUE]]
      /\ sess' = [sess EXCEPT ![s].ctx = d]
      /\ Become(t, [Top(t) EXCEPT !.pc = "loading", !.c = d])
  BY <1>2 DEF Load
<1>4. /\ ctxs'[d].live /\ ctxs'[d].ta = Top(t).ta
      /\ \A c \in CtxIds : c # d => ctxs'[c] = ctxs[c]
      /\ \A o \in SessIds : sess'[o].live = sess[o].live /\ sess'[o].own = sess[o].own
                            /\ (o # s => sess'[o].ctx = sess[o].ctx)
      /\ sess'[s].ctx = d
  BY <1>0, <1>3 DEF Session
<1>5. PICK fr \in Call : Become(t, fr) /\ fr.own = Top(t).own /\ fr.c = d /\ fr.pc = "loading"
  <2> DEFINE fr == [Top(t) EXCEPT !.pc = "loading", !.c = d]
  <2>1. fr \in Call
    BY <1>1, MovedCall, LocsAre
  <2>2. fr.own = Top(t).own /\ fr.c = d /\ fr.pc = "loading"
    BY <1>1 DEF Call
  <2> QED BY <1>3, <2>1, <2>2
<1>6. x \in Frames' /\ Frame(x)' = fr /\ Moves(x)
  BY <1>0, <1>1, <1>5, BecomeStep
<1>7. ASSUME NEW o \in SessIds, sess[o].live, sess[o].own # Nsec
      PROVE  sess[o].own \in CtxIds \ {d} /\ ctxs[sess[o].own].live
  BY <1>2, <1>7, SessionNames DEF OpensInv, SessOpensAt
<1>8. Top(t).own # Nsec =>
        /\ Top(t).own \in CtxIds \ {d} /\ ctxs[Top(t).own].live
        /\ << ctxs[Top(t).own].ta, Top(t).ta >> \in Opens
  BY <1>0, <1>1, <1>2, OwnerLoaded DEF OpensOf
<1>9. OpensOf(x)'
  <2>1. \A o \in SessIds : ~(sess'[o].live /\ sess'[o].own = d)
    BY <1>4, <1>7 DEF CtxIds, Nsec
  <2> QED BY <1>4, <1>5, <1>6, <1>8, <2>1 DEF OpensOf, Listed
<1>10. HoldsRef(Top(t)) /\ Listed(s, Top(t).own)
  <2>1. HoldsRef(Top(t))
    BY <1>1 DEF HoldsRef
  <2> QED BY <1>0, <1>1, <2>1 DEF SessInv, RefInv
<1>11. SessOpensAt(s)'
  BY <1>4, <1>8, <1>10 DEF SessOpensAt, Listed
<1>12. \A f \in Frames : f # x /\ Frame(f).pc = "loading" =>
         ~(sess'[s].live /\ sess'[s].own = Frame(f).c)
  BY <1>4 DEF OpensInv, OpensOf, Listed
<1>13. \A c \in CtxIds : ctxs[c].live => ctxs'[c].ta = ctxs[c].ta
  BY <1>2, <1>4
<1>14. \A o \in SessIds \ {s} : sess'[o].live /\ sess'[o].own # Nsec =>
         /\ sess[o].live /\ sess'[o].own = sess[o].own
         /\ sess'[o].ctx \in {sess[o].ctx, NoCtx} /\ ctxs'[sess[o].own].live
  BY <1>4, <1>7
<1> QED BY <1>6, <1>9, <1>11, <1>12, <1>13, <1>14, OpensStep

\* tee_ta_init_session_with_context() for a session that waited for a load.
LEMMA LookupAgainOpens ==
  ASSUME IInv, IInv', OpensInv, NEW t \in Threads, LookupAgain(t)
  PROVE  OpensInv'
<1> PICK x : x = Pos(t)
  OBVIOUS
<1>0. /\ Types /\ SessInv /\ ContextInv /\ StackOK
      /\ sess \in [SessIds -> Session] /\ ctxs \in [CtxIds -> Context]
  BY DEF IInv, Types, Tables
<1>1. /\ stack[t] # << >> /\ Top(t).pc = "lookup" /\ Top(t) \in Call /\ Top(t).op = "open"
      /\ Top(t).c = NoCtx /\ x \in Frames /\ Frame(x) = Top(t) /\ OpensOf(x)
  BY AtStep, OpAt DEF LookupAgain, OpensInv, ShapeOf
<1> PICK s \in SessIds : s = Top(t).s
  BY <1>1 DEF Call
<1>2. ASSUME NEW loc \in {"load", "lookup", "fail", "opened"},
             Become(t, [Top(t) EXCEPT !.pc = loc]), TasStay
      PROVE  Moves(x) /\ OpensOf(x)'
  <2> DEFINE fr == [Top(t) EXCEPT !.pc = loc]
  <2>1. fr \in Call
    BY <1>1, MovedCall, LocsAre
  <2>2. fr.own = Top(t).own /\ fr.c = NoCtx /\ fr.pc = loc /\ fr.ta = Top(t).ta
    BY <1>1 DEF Call
  <2>3. Become(t, fr)
    BY <1>2
  <2> HIDE DEF fr
  <2>4. x \in Frames' /\ Frame(x)' = fr /\ Moves(x)
    BY <1>0, <1>1, <2>1, <2>2, <2>3, BecomeStep
  <2>5. fr.own # Nsec => << ctxs'[fr.own].ta, fr.ta >> \in Opens
    BY <1>0, <1>1, <1>2, <2>2, OwnerLoaded DEF OpensOf, TasStay
  <2> QED BY <2>2, <2>4, <2>5 DEF OpensOf
<1>3. CASE Misses(t, Front(stack[t]), Top(t), sess)
  <2> PICK loc \in {"load", "lookup", "fail"} :
        Become(t, [Top(t) EXCEPT !.pc = loc]) /\ sess' = sess /\ ctxs' = ctxs
    BY <1>3 DEF Misses, Become
  <2>1. TasStay /\ SessionsFade
    BY DEF TasStay, SessionsFade
  <2> QED BY <1>2, <2>1, FadesIf, OpensStep DEF Fades
<1>4. CASE Joins(t, Front(stack[t]), Top(t), sess)
  <2>1. PICK d \in Range(tee_ctxes) :
        /\ ctxs[d].ta = Top(t).ta /\ ctxs' = Joined(d) /\ sess' = [sess EXCEPT ![s].ctx = d]
        /\ Become(t, [Top(t) EXCEPT !.pc = "opened"])
    BY <1>4 DEF Joins, Become
  <2>2. d \in CtxIds
    BY <1>0 DEF Types, Tables, Range
  <2>3. TasStay
    BY <1>0, <2>1, <2>2, JoinedStays
  <2>4. Moves(x) /\ OpensOf(x)'
    BY <1>2, <2>1, <2>3
  <2>5. /\ \A o \in SessIds : sess'[o].live = sess[o].live /\ sess'[o].own = sess[o].own
                              /\ (o # s => sess'[o].ctx = sess[o].ctx)
        /\ sess'[s].ctx = d
    BY <1>0, <2>1 DEF Session
  <2>6. Listed(s, Top(t).own)
    <3>1. HoldsRef(Top(t))
      BY <1>1 DEF HoldsRef
    <3> QED BY <1>0, <1>1, <3>1 DEF SessInv, RefInv
  <2>7. SessOpensAt(s)'
    <3>1. Top(t).own # Nsec =>
            /\ Top(t).own \in CtxIds /\ ctxs[Top(t).own].live
            /\ << ctxs[Top(t).own].ta, Top(t).ta >> \in Opens
      BY <1>0, <1>1, OwnerLoaded DEF OpensOf
    <3> QED BY <2>1, <2>2, <2>3, <2>5, <2>6, <3>1 DEF SessOpensAt, Listed, TasStay
  <2>8. \A f \in Frames : f # x /\ Frame(f).pc = "loading" =>
           ~(sess'[s].live /\ sess'[s].own = Frame(f).c)
    BY <2>5 DEF OpensInv, OpensOf, Listed
  <2>9. \A o \in SessIds \ {s} : sess'[o].live /\ sess'[o].own # Nsec =>
           /\ sess[o].live /\ sess'[o].own = sess[o].own
           /\ sess'[o].ctx \in {sess[o].ctx, NoCtx} /\ ctxs'[sess[o].own].live
    <3> SUFFICES ASSUME NEW o \in SessIds \ {s}, sess'[o].live, sess'[o].own # Nsec
                 PROVE  /\ sess[o].live /\ sess'[o].own = sess[o].own
                        /\ sess'[o].ctx \in {sess[o].ctx, NoCtx} /\ ctxs'[sess[o].own].live
      OBVIOUS
    <3>1. sess[o].live /\ sess[o].own \in CtxIds /\ ctxs[sess[o].own].live
      BY <2>5, SessionNames DEF OpensInv, SessOpensAt
    <3> QED BY <2>3, <2>5, <3>1 DEF TasStay
  <2> QED BY <2>3, <2>4, <2>7, <2>8, <2>9, OpensStep DEF TasStay
<1>5. Lookup(t, Front(stack[t]), Top(t), sess)
  BY DEF LookupAgain
<1> QED BY <1>0, <1>3, <1>4, <1>5, LookupIs

\* tee_ta_open_session(): a TA that opens a session runs, and opens what it may.
LEMMA OpenOpens ==
  ASSUME IInv, IInv', OpensInv, NEW t \in Threads, NEW ta \in Tas, Open(t, ta)
  PROVE  OpensInv'
<1> PICK x : x = Above(t)
  OBVIOUS
<1> PICK y : y = Pos(t)
  OBVIOUS
<1>0. /\ Types /\ SessInv /\ ContextInv /\ StackOK
      /\ sess \in [SessIds -> Session] /\ ctxs \in [CtxIds -> Context]
  BY DEF IInv, Types, Tables
<1>1. stack[t] # << >> =>
        /\ Top(t).pc = "run" /\ Top(t) \in Call /\ ShapeOf(Top(t))
        /\ y \in Frames /\ Frame(y) = Top(t) /\ Top(t).c # NoCtx
  <2>1. stack[t] # << >> => /\ Top(t) \in Call /\ ShapeOf(Top(t))
                            /\ y \in Frames /\ Frame(y) = Top(t)
    BY <1>0, Here
  <2> QED BY <2>1 DEF Open, MayCall, ShapeOf
<1>2. PICK s \in SessIds : s = Least(FreeSlots) /\ ~sess[s].live
  <2>1. FreeSlots # {} /\ FreeSlots \subseteq Nat /\ FreeSlots \subseteq SessIds
    BY DEF Open, FreeSlots, SessIds
  <2>2. Least(FreeSlots) \in FreeSlots
    BY <2>1, LeastIn
  <2> QED BY <2>1, <2>2 DEF FreeSlots
<1>3. Caller(t) \in CtxIds \cup {Nsec} /\ Caller(t) # Nsec =>
        /\ stack[t] # << >> /\ Caller(t) = Top(t).c
        /\ Caller(t) \in CtxIds /\ ctxs[Caller(t)].live /\ << ctxs[Caller(t)].ta, ta >> \in Opens
  <2>1. Caller(t) # Nsec => stack[t] # << >> /\ Caller(t) = Top(t).c
    BY DEF Caller
  <2> QED BY <1>0, <1>1, <2>1, NamedLoaded DEF Open
<1>4. Caller(t) \in CtxIds \cup {Nsec}
  BY <1>1 DEF Caller, Call, Nsec, NoCtx
<1> DEFINE new == [FreeSession EXCEPT !.live = TRUE, !.own = Caller(t), !.refs = 1]
           ss == [sess EXCEPT ![s] = new]
           call == [op |-> "open", pc |-> "lookup", s |-> s, c |-> NoCtx,
                    ta |-> ta, own |-> Caller(t), res |-> "ok"]
<1>5. Lookup(t, stack[t], call, ss)
  BY <1>2 DEF Open
<1>6. new \in Session /\ new.live /\ new.own = Caller(t) /\ new.ctx = NoCtx
  BY <1>4 DEF FreeSession, Session
<1>7. ASSUME NEW loc \in {"load", "lookup", "fail", "opened"},
             Push(t, [call EXCEPT !.pc = loc]), TasStay
      PROVE  Moves(x) /\ OpensOf(x)'
  <2> DEFINE fr == [call EXCEPT !.pc = loc]
  <2>1. "open" \in DOMAIN Places
    BY DEF Places
  <2>2. fr \in Call /\ fr.own = Caller(t) /\ fr.c = NoCtx /\ fr.pc = loc /\ fr.ta = ta
    BY <1>4, <2>1, LocsAre DEF Call
  <2>3. Push(t, fr)
    BY <1>7
  <2> HIDE DEF fr, call
  <2>4. x \in Frames' /\ Frame(x)' = fr /\ Moves(x)
    BY <1>0, <1>1, <2>2, <2>3, PushStep
  <2> QED BY <1>3, <1>4, <1>7, <2>2, <2>4 DEF OpensOf, TasStay
<1>8. call.s = s /\ call.ta = ta
  OBVIOUS
<1> HIDE DEF new, call
<1>9. ASSUME TasStay, Moves(x), OpensOf(x)', NEW r, sess' = [sess EXCEPT ![s] = r],
             r.own = Caller(t),
             r.ctx = NoCtx \/ (r.ctx \in CtxIds /\ ctxs[r.ctx].ta = ta)
      PROVE  OpensInv'
  <2>1. sess'[s] = r /\ \A o \in SessIds \ {s} : sess'[o] = sess[o]
    BY <1>0, <1>9
  <2>2. SessOpensAt(s)'
    BY <1>3, <1>4, <1>9, <2>1 DEF SessOpensAt, TasStay
  <2>3. \A f \in Frames : f # x /\ Frame(f).pc = "loading" =>
           ~(sess'[s].live /\ sess'[s].own = Frame(f).c)
    <3> SUFFICES ASSUME NEW f \in Frames, Frame(f).pc = "loading"
                 PROVE  Caller(t) # Frame(f).c
      BY <1>9, <2>1
    <3>1. ShapeOf(Frame(f))
      BY <1>0 DEF Types
    <3>2. Frame(f).c # Nsec
      BY <3>1 DEF ShapeOf, Nsec, NoCtx
    <3>3. CASE stack[t] = << >>
      BY <3>2, <3>3 DEF Caller
    <3>4. CASE stack[t] # << >>
      BY <1>1, <3>4, LoadingRunsNot DEF Caller
    <3> QED BY <3>3, <3>4
  <2>4. \A o \in SessIds \ {s} : sess'[o].live /\ sess'[o].own # Nsec =>
           /\ sess[o].live /\ sess'[o].own = sess[o].own
           /\ sess'[o].ctx \in {sess[o].ctx, NoCtx} /\ ctxs'[sess[o].own].live
    <3> SUFFICES ASSUME NEW o \in SessIds \ {s}, sess[o].live, sess[o].own # Nsec
                 PROVE  ctxs'[sess[o].own].live
      BY <2>1
    <3>1. sess[o].own \in CtxIds /\ ctxs[sess[o].own].live
      BY SessionNames DEF OpensInv, SessOpensAt
    <3> QED BY <1>9, <3>1 DEF TasStay
  <2> QED BY <1>9, <2>2, <2>3, <2>4, OpensStep DEF TasStay
<1>10. CASE Misses(t, stack[t], call, ss)
  <2> PICK loc \in {"load", "lookup", "fail"} :
        Push(t, [call EXCEPT !.pc = loc]) /\ sess' = ss /\ ctxs' = ctxs
    BY <1>10 DEF Misses, Push
  <2>1. TasStay
    BY DEF TasStay
  <2>2. Moves(x) /\ OpensOf(x)'
    BY <1>7, <2>1
  <2> QED BY <1>6, <1>9, <2>1, <2>2
<1>11. CASE Joins(t, stack[t], call, ss)
  <2>1. PICK d \in Range(tee_ctxes) :
        /\ ctxs[d].ta = ta /\ ctxs' = Joined(d) /\ sess' = [ss EXCEPT ![s].ctx = d]
        /\ Push(t, [call EXCEPT !.pc = "opened"])
    BY <1>8, <1>11 DEF Joins, Push
  <2>2. d \in CtxIds
    BY <1>0 DEF Types, Tables, Range
  <2>3. TasStay
    BY <1>0, <2>1, <2>2, JoinedStays
  <2>4. Moves(x) /\ OpensOf(x)'
    BY <1>7, <2>1, <2>3
  <2> DEFINE r == [new EXCEPT !.ctx = d]
  <2>5. r.own = Caller(t) /\ r.ctx = d
    BY <1>6 DEF Session
  <2>6. sess' = [sess EXCEPT ![s] = r]
    BY <1>0, <2>1
  <2> HIDE DEF r, ss
  <2> QED BY <1>9, <2>1, <2>2, <2>3, <2>4, <2>5, <2>6
<1> QED BY <1>0, <1>5, <1>10, <1>11, LookupIs

\* Every step keeps it.
LEMMA OpensNext ==
  ASSUME IInv, IInv', OpensInv, Next
  PROVE  OpensInv'
<1> PICK t \in Threads : NewCall(t) \/ Step(t)
  BY DEF Next
<1>1. CASE NewCall(t)
  <2>1. CASE OpenNoMemory(t)
    <3>1. Onward(t) /\ SessionsFade /\ TasStay
      BY <2>1 DEF OpenNoMemory, Onward, SessionsFade, TasStay, tables
    <3> QED BY <3>1, FadesIf, OpensPlain
  <2> QED BY <1>1, <2>1, OpenOpens, UseOpens DEF NewCall
<1>2. CASE OpenStep(t)
  BY <1>2, LookupAgainOpens, LoadOpens, OpenStepFades, OpensPlain DEF OpenStep
<1>3. CASE EnterStep(t)
  BY <1>3, EnterStepFades, OpensPlain
<1>4. CASE SessionStep(t)
  BY <1>4, SessionStepFades, OpensPlain
<1>5. CASE ContextStep(t)
  BY <1>5, ContextStepFades, UseOpens, OpensPlain DEF ContextStep
<1> QED BY <1>1, <1>2, <1>3, <1>4, <1>5 DEF Step

-----------------------------------------------------------------------------
(* The assertions and panics of the core.                                  *)

\* The single-instance lock is held for a call.
LEMMA HeldNext ==
  ASSUME IInv, HeldInv, Next
  PROVE  HeldInv'
<1>0. single \in [thread : Threads \cup {NoThread}, count : Nat]
      /\ (single.thread = NoThread => single.count = 0)
  BY DEF IInv, Types, Tables, TaInv, SingleInv
<1> PICK t \in Threads : NewCall(t) \/ Step(t)
  BY DEF Next
<1>1. CASE UNCHANGED single
  BY <1>1 DEF HeldInv
<1>2. CASE SetBusy(t)
  <2>1. UNCHANGED single \/ single' = [thread |-> t, count |-> single.count + 1]
    BY <1>2 DEF SetBusy
  <2> QED BY <1>0, <1>1, <2>1 DEF HeldInv
<1>3. CASE ClearBusy(t)
  <2> DEFINE r == [single EXCEPT !.count = @ - 1]
  <2>1. \/ UNCHANGED single \/ single' = SingleFree
        \/ single.count # 1 /\ single' = r
    BY <1>3 DEF ClearBusy, UnlockSingle
  <2>2. r.thread = single.thread /\ r.count = single.count - 1
    BY <1>0
  <2> HIDE DEF r
  <2> QED BY <1>0, <1>1, <2>1, <2>2 DEF HeldInv, SingleFree
<1>4. CASE NewCall(t)
  <2>1. UNCHANGED single
    BY <1>4 DEF NewCall, Open, OpenNoMemory, Use, tables
  <2> QED BY <1>1, <2>1
<1>5. CASE OpenStep(t)
  <2>1. UNCHANGED single
    BY <1>5 DEF OpenStep, LookupAgain, Load, LoadNoMemory, Loaded, LoadFails, OpenFails, Opened,
                tables
  <2> QED BY <1>1, <2>1
<1>6. CASE EnterStep(t) /\ ~SetBusy(t) /\ ~ClearBusy(t)
  <2>1. UNCHANGED single
    BY <1>6 DEF EnterStep, SetBusyWait, SetBusyRefuses, TaReturns, TaPanics, Left, tables
  <2> QED BY <1>1, <2>1
<1>7. CASE SessionStep(t)
  <2>1. UNCHANGED single
    BY <1>7 DEF SessionStep, GetNothing, Get, GetAgain, Got, Put, Unlink, UnlinkAgain, tables
  <2> QED BY <1>1, <2>1
<1>8. CASE ContextStep(t)
  <2>1. UNCHANGED single
    BY <1>8 DEF ContextStep, DropContext, DestroyContext, DestroyCondvar, FreeCloses, FreeContext,
                tables
  <2> QED BY <1>1, <2>1
<1> QED BY <1>2, <1>3, <1>4, <1>5, <1>6, <1>7, <1>8 DEF Step

\* close_session() finds the reference that it drops.
LEMMA DropFinds ==
  ASSUME IInv, NEW t \in Threads, DropContext(t)
  PROVE  UNCHANGED halted
<1> PICK x : x = Pos(t)
  OBVIOUS
<1>0. Types /\ ContextInv
  BY DEF IInv
<1>1. /\ Top(t).pc = "dec" /\ Top(t) \in Call /\ ShapeOf(Top(t)) /\ x \in Frames
      /\ Frame(x) = Top(t) /\ CtxOf(x) /\ Top(t).op = "close"
  BY AtStep, OpAt DEF DropContext
<1> PICK c \in CtxIds : c = Top(t).c
  BY <1>1 DEF ShapeOf, Call
<1>2. c \in Range(tee_ctxes) /\ x \in Leavers(c)
  BY <1>1 DEF CtxOf, Frees, CtxIds, NoCtx, Leavers
<1>3. ctxs[c].refs = Cardinality(Members(c)) + Cardinality(Leavers(c))
  BY <1>0, <1>2 DEF ContextInv, ListInv, ListOf
<1>4. Cardinality(Leavers(c)) # 0
  BY <1>0, <1>2, SetsFinite, FS_EmptySet
<1>5. ctxs[c].refs # 0
  BY <1>0, <1>3, <1>4, SetsFinite
<1> QED BY <1>5 DEF DropContext

\* destroy_ta_ctx_from_session() finds the sessions that the count stands for: a
\* TA that panics has one.
LEMMA DestroyFinds ==
  ASSUME Orderly, IInv, NEW t \in Threads, DestroyContext(t)
  PROVE  UNCHANGED halted
<1> PICK x : x = Pos(t)
  OBVIOUS
<1>0. Types /\ SessInv /\ ContextInv
  BY DEF IInv
<1>1. /\ Top(t).pc = "destroy" /\ Top(t) \in Call /\ ShapeOf(Top(t)) /\ x \in Frames
      /\ Frame(x) = Top(t) /\ CtxOf(x) /\ Top(t).op = "invoke"
  BY AtStep, OpAt DEF DestroyContext
<1> PICK s \in SessIds : s = Top(t).s
  BY <1>1 DEF Call
<1> PICK c \in CtxIds : c = Top(t).c
  BY <1>1 DEF ShapeOf, Call
<1>2. /\ sess[s].ctx = c /\ c # NoCtx /\ c \in Range(tee_ctxes) /\ ctxs[c].panicked
      /\ s \in Members(c)
  BY <1>0, <1>1, TouchesLive
  DEF CtxOf, InSession, Frees, CtxIds, NoCtx, Touches, Members
<1>3. /\ ctxs[c].refs = Cardinality(Members(c)) + Cardinality(Leavers(c))
      /\ ctxs[c].refs <= 1
  <2>1. ListOf(c)
    BY <1>0, <1>2 DEF ContextInv, ListInv
  <2> QED BY <1>2, <2>1 DEF ListOf, Orderly
<1>4. Cardinality(Members(c)) = 1 /\ ctxs[c].refs = 1
  <2>1. Cardinality(Members(c)) # 0
    BY <1>0, <1>2, SetsFinite, FS_EmptySet
  <2> QED BY <1>0, <1>3, <2>1, SetsFinite
<1> DEFINE others == {o \in SessIds \ {s} :
                        /\ sess[o].live /\ sess[o].ctx = c
                        /\ sess[o].own \in {Nsec} \cup Range(tee_ctxes)}
<1>5. others = {}
  <2> SUFFICES ASSUME NEW o \in others
               PROVE  FALSE
    OBVIOUS
  <2>1. o \in Members(c) /\ o # s
    BY DEF Members
  <2> HIDE DEF others
  <2>2. Cardinality(Members(c)) >= 2
    BY <1>0, <1>2, <2>1, SetsFinite, One
  <2> QED BY <1>4, <2>2
<1>6. Cardinality(others) + 1 = ctxs[c].refs
  <2> HIDE DEF others
  <2> QED BY <1>4, <1>5, FS_EmptySet
<1> QED BY <1>1, <1>2, <1>6 DEF DestroyContext

\* destroy_context() finds no thread in the wait for the TA: it is the only one
\* that knows of it.
LEMMA CondvarUnused ==
  ASSUME IInv, WaitInv, NEW t \in Threads, DestroyCondvar(t)
  PROVE  UNCHANGED halted
<1> PICK x : x = Pos(t)
  OBVIOUS
<1>0. Types /\ ContextInv
  BY DEF IInv
<1>1. /\ Top(t).pc = "destroycv" /\ Top(t) \in Call /\ ShapeOf(Top(t)) /\ x \in Frames
      /\ Frame(x) = Top(t) /\ CtxOf(x)
  BY AtStep DEF DestroyCondvar
<1> PICK c \in CtxIds : c = Top(t).c
  BY <1>1 DEF ShapeOf, Call
<1>2. ASSUME waitq[BusyCv(c)] # << >>
      PROVE  FALSE
  <2>1. waitq[BusyCv(c)] \in Seq(Threads)
    BY CondvarsAre DEF WaitInv
  <2>2. PICK u \in Threads : u \in Range(waitq[BusyCv(c)])
    BY <1>2, <2>1 DEF Range
  <2>3. stack[u] # << >> /\ Top(u).pc = "busy" /\ Top(u).c = c
    BY <2>2 DEF WaitInv, BusyWaiters
  <2> PICK y : y = Pos(u)
    OBVIOUS
  <2>4. y \in Frames /\ Frame(y) = Top(u)
    BY <1>0, <2>3, Here
  <2>5. y = x
    BY <1>1, <2>3, <2>4 DEF CtxOf, Frees
  <2> QED BY <1>1, <2>3, <2>4, <2>5
<1> QED BY <1>2 DEF DestroyCondvar

\* A sequence of numbers that falls from each to the next ends below all.
LEMMA Falls ==
  ASSUME NEW n \in Nat, NEW R, \A i \in 1..n : R[i] \in Nat,
         \A i \in 1..n : i # n => R[i + 1] < R[i], NEW m \in 1..n, m # n
  PROVE  R[n] < R[m]
<1> DEFINE W == {k \in Nat : k # 0 /\ n - k \in 1..n /\ ~(R[n] < R[n - k])}
<1> SUFFICES ASSUME W # {}
             PROVE  FALSE
  <2>1. n - m \in Nat /\ n - m # 0 /\ n - (n - m) = m
    OBVIOUS
  <2> QED BY <2>1
<1>1. PICK k \in W : \A j \in W : k <= j
  <2>1. W \subseteq Nat
    OBVIOUS
  <2> HIDE DEF W
  <2> QED BY <2>1, HasLeast
<1>2. R[n - k + 1] < R[n - k] /\ n - k \in 1..n /\ n - k + 1 \in 1..n
  BY <1>1
<1>3. CASE k = 1
  BY <1>1, <1>2, <1>3
<1>4. CASE k # 1
  <2>1. k - 1 \notin W
    <3>1. k \in Nat
      BY <1>1
    <3> HIDE DEF W
    <3> QED BY <1>1, <3>1
  <2>2. k - 1 \in Nat /\ k - 1 # 0 /\ n - (k - 1) = n - k + 1
    BY <1>1, <1>4
  <2>3. R[n] < R[n - k + 1]
    BY <1>2, <2>1, <2>2
  <2>4. R[n] \in Nat /\ R[n - k] \in Nat /\ R[n - k + 1] \in Nat
    BY <1>2
  <2> QED BY <1>1, <1>2, <2>3, <2>4
<1> QED BY <1>3, <1>4

\* A TA that a thread is in is not the one that it asks for: that one is opened,
\* directly or through others, by the first.
LEMMA NotTwice ==
  ASSUME Layered, IInv, OpensInv, NEW t \in Threads, stack[t] # << >>, Top(t).c # NoCtx,
         NEW g \in Frames, g[1] = t, g # Pos(t)
  PROVE  ctxs[Frame(g).c].ta # ctxs[Top(t).c].ta
<1>0. Types /\ ContextInv /\ StackOK
  BY DEF IInv, Types
<1>1. FramesByPlace
  BY <1>0, FramesOf DEF StackOK, StackType
<1> DEFINE q == stack[t]
           n == Len(q)
<1>2. q \in Seq(Call) /\ n \in Nat /\ n # 0 /\ Top(t) = q[n] /\ DOMAIN q = 1..n
  BY <1>0, <1>1 DEF StackOK, FramesByPlace, Top, Last
<1>3. PICK m \in 1..n : g = << t, m >> /\ Frame(g) = q[m]
  <2>1. PICK u \in Threads, i \in Nat : i \in 1..Len(stack[u]) /\ g = << u, i >>
    BY <1>1 DEF FramesByPlace
  <2> QED BY <2>1 DEF Frame
<1>4. m # n
  BY <1>3 DEF Pos
<1>5. ASSUME NEW i \in 1..n
      PROVE  /\ << t, i >> \in Frames /\ Frame(<< t, i >>) = q[i]
             /\ q[i].c \in CtxIds /\ q[i].c # NoCtx
  <2>1. << t, i >> \in Frames /\ Frame(<< t, i >>) = q[i]
    BY <1>1, <1>2 DEF FramesByPlace, Frame
  <2>2. q[i].c # NoCtx
    <3>1. CASE i = n
      BY <1>2, <3>1
    <3>2. CASE i # n
      <4>1. q[i].pc \in {"run", "free"}
        BY <1>0, <1>2, <3>2 DEF StackOK, Deep
      <4>2. ShapeOf(q[i])
        BY <1>0, <2>1 DEF Types
      <4> QED BY <4>1, <4>2 DEF ShapeOf
    <3> QED BY <3>1, <3>2
  <2> QED BY <1>0, <2>1, <2>2, NamedLoaded
<1>6. PICK rank \in [Tas -> Nat] : \A e \in Opens : rank[e[2]] < rank[e[1]]
  BY DEF Layered
<1> DEFINE R == [i \in 1..n |-> rank[ctxs[q[i].c].ta]]
<1>7. \A i \in 1..n : R[i] = rank[ctxs[q[i].c].ta] /\ R[i] \in Nat
  <2>1. \A c \in CtxIds : ctxs[c].ta \in Tas
    BY <1>0 DEF Types, Tables, Context
  <2> QED BY <1>5, <1>6, <2>1
<1>8. ASSUME NEW i \in 1..n, i # n
      PROVE  R[i + 1] < R[i]
  <2>1. i + 1 \in 1..n /\ i + 1 # 1 /\ i + 1 - 1 = i
    BY <1>2, <1>8
  <2>2. q[i + 1].own = q[i].c
    BY <1>0, <1>2, <2>1 DEF StackOK, Nested, NestedAt
  <2>3. OpensOf(<< t, i + 1 >>) /\ Frame(<< t, i + 1 >>) = q[i + 1] /\ q[i + 1].c # NoCtx
    BY <1>5, <2>1 DEF OpensInv
  <2>4. q[i].c # Nsec
    BY <1>5 DEF Nsec, NoCtx
  <2>5. << ctxs[q[i].c].ta, ctxs[q[i + 1].c].ta >> \in Opens
    BY <2>2, <2>3, <2>4 DEF OpensOf
  <2> HIDE DEF R
  <2>6. rank[ctxs[q[i + 1].c].ta] < rank[ctxs[q[i].c].ta]
    BY <1>6, <2>5
  <2> QED BY <1>7, <2>1, <2>6
<1>9. R[n] < R[m]
  <2> HIDE DEF R, n
  <2> QED BY <1>2, <1>4, <1>7, <1>8, Falls
<1>10. R[n] # R[m]
  <2> HIDE DEF R, n
  <2> QED BY <1>2, <1>7, <1>9
<1>11. n \in 1..n /\ Frame(g) = q[m] /\ Top(t) = q[n]
  BY <1>2, <1>3
<1> HIDE DEF R, n, q
<1> QED BY <1>7, <1>10, <1>11

\* tee_ta_set_busy() is not refused: the one call that may be in the TA is that
\* of another thread, which then is waited for.
LEMMA BusyWaits ==
  ASSUME Orderly, Layered, IInv, CoreInv, NEW t \in Threads, SetBusyRefuses(t)
  PROVE  FALSE
<1> PICK x : x = Pos(t)
  OBVIOUS
<1>0. Types /\ SessInv /\ TaInv /\ ContextInv
  BY DEF IInv
<1>1. /\ stack[t] # << >> /\ Top(t).pc = "busy" /\ Top(t) \in Call /\ ShapeOf(Top(t))
      /\ x \in Frames /\ Frame(x) = Top(t) /\ CtxOf(x)
  BY AtStep DEF SetBusyRefuses
<1>2. Top(t).c # NoCtx
  BY <1>1 DEF ShapeOf
<1> PICK c \in CtxIds : c = Top(t).c
  BY <1>1, <1>2 DEF Call
<1>3. c \in Range(tee_ctxes) /\ ctxs[c].live /\ ctxs[c].busy
      /\ HasLock(t, c) /\ ~SingleLockTaken(t, c)
  <2>1. c \in Range(tee_ctxes)
    BY <1>1, <1>2 DEF CtxOf, Frees
  <2>2. ctxs[c].live
    BY <1>0, <1>1, <1>2, NamedLoaded
  <2> QED BY <2>1, <2>2 DEF SetBusyRefuses
<1>4. PICK g \in Frames : Frame(g).c = c /\ InTa(Frame(g))
  BY <1>0, <1>3 DEF TaInv, BusyInv
<1>5. g # x
  BY <1>1, <1>4 DEF InTa
<1>6. ctxs[c].ta \in SingleInstance
  <2> SUFFICES ASSUME ctxs[c].ta \notin SingleInstance
               PROVE  FALSE
    OBVIOUS
  <2>1. ctxs[c].refs <= 1
    BY <1>0, <1>3 DEF ContextInv, ListInv, ListOf
  <2> QED BY <1>0, <1>1, <1>3, <1>4, <1>5, <2>1, Alone DEF Uses
<1>7. SingleLockCounted /\ (single.thread = NoThread => single.count = 0) /\ HeldInv
  BY <1>0 DEF TaInv, SingleInv, CoreInv
<1>8. CASE ConcurrentSingle
  <2>1. single.thread = t /\ single.count # 0
    BY <1>3, <1>7, <1>8, SessionsAssumption DEF HasLock, Single, HeldInv
  <2>2. SingleCalls(t) = {}
    BY <1>8 DEF SingleCalls, Single
  <2>3. Cardinality(SingleCalls(t)) = 0
    BY <2>2, FS_EmptySet
  <2> QED BY <1>7, <2>1, <2>3, SingleCounts DEF SingleCount
<1>9. CASE ~ConcurrentSingle
  <2>1. Single(c) /\ single.thread \in {NoThread, t}
    BY <1>3, <1>6, <1>9 DEF Single, SingleLockTaken
  <2>2. g[1] \in Threads /\ g \in SingleCalls(g[1])
    BY <1>0, <1>4, <2>1, FramesTypedNow DEF FramesTyped, SingleCalls
  <2>3. Cardinality(SingleCalls(g[1])) # 0
    <3>1. IsFiniteSet(SingleCalls(g[1]))
      <4>1. SingleCalls(g[1]) \subseteq Frames
        BY DEF SingleCalls
      <4> QED BY <1>0, <4>1, FramesFinite, FS_Subset
    <3> QED BY <2>2, <3>1, FS_EmptySet
  <2>4. single.thread = g[1]
    BY <1>7, <2>2, <2>3, SingleCounts DEF SingleCount
  <2>5. g[1] = t
    BY <2>1, <2>2, <2>4, SessionsAssumption
  <2> QED BY <1>1, <1>2, <1>4, <1>5, <2>5, NotTwice DEF CoreInv
<1> QED BY <1>8, <1>9

\* Nothing stops the core.
LEMMA CoreGoesOn ==
  ASSUME Orderly, Layered, IInv, CoreInv, Next
  PROVE  UNCHANGED halted
<1> PICK t \in Threads : NewCall(t) \/ Step(t)
  BY DEF Next
<1>1. CASE NewCall(t)
  BY <1>1 DEF NewCall, Open, OpenNoMemory, Use
<1>2. CASE OpenStep(t)
  BY <1>2 DEF OpenStep, LookupAgain, Load, LoadNoMemory, Loaded, LoadFails, OpenFails, Opened
<1>3. CASE EnterStep(t)
  BY <1>3, BusyWaits DEF EnterStep, SetBusyWait, SetBusy, TaReturns, TaPanics, ClearBusy, Left
<1>4. CASE SessionStep(t)
  BY <1>4 DEF SessionStep, GetNothing, Get, GetAgain, Got, Put, Unlink, UnlinkAgain
<1>5. CASE ContextStep(t)
  BY <1>5, DropFinds, DestroyFinds, CondvarUnused
  DEF ContextStep, FreeCloses, FreeContext, CoreInv
<1> QED BY <1>1, <1>2, <1>3, <1>4, <1>5 DEF Step

\* The rest of what is needed holds at the start.
LEMMA InitCore == Init => CoreInv
<1> SUFFICES ASSUME Init
             PROVE  CoreInv
  OBVIOUS
<1>1. Frames = {}
  BY DEF Init, Frames
<1>2. \A s \in SessIds : SessOpensAt(s)
  BY DEF Init, SessOpensAt, FreeSession
<1>3. WaitInv
  <2>1. << >> \in Seq(Threads) /\ Range(<< >>) = {}
    BY DEF Range
  <2> QED BY <2>1, CondvarsAre DEF Init, WaitInv, BusyWaiters
<1> QED BY <1>1, <1>2, <1>3 DEF CoreInv, OpensInv, HeldInv, Init, SingleFree

\* Where no step is taken nothing of it changes.
LEMMA CoreIdle ==
  ASSUME CoreInv, UNCHANGED vars
  PROVE  CoreInv'
<1>1. Frames' = Frames /\ \A f : Frame(f)' = Frame(f)
  BY DEF vars, Frames, Frame
<1>2. WaitInv'
  BY DEF vars, CoreInv, WaitInv, BusyWaiters, Top
<1>3. \A s \in SessIds : SessOpensAt(s)'
  BY DEF vars, CoreInv, OpensInv, SessOpensAt
<1>4. \A f \in Frames : OpensOf(f)'
  BY <1>1 DEF vars, CoreInv, OpensInv, OpensOf, Listed
<1> QED BY <1>1, <1>2, <1>3, <1>4 DEF vars, CoreInv, OpensInv, HeldInv

\* set_busy() is not refused, the count that destroy_ta_ctx_from_session() checks
\* is that of the sessions it finds, close_session() finds the context it drops
\* counted, and condvar_destroy() finds nobody who waits: the core does not panic,
\* whatever the threads, TAs, sessions and contexts.  CoreInv holds with IInv,
\* and from them each of these goes on.
THEOREM CoreNeverPanics ==
  ASSUME Orderly, Layered
  PROVE  Spec => []NoCorePanic
<1>1. Init => CoreInv /\ NoCorePanic
  BY InitCore DEF Init, NoCorePanic
<1>2. IInv /\ IInv' /\ CoreInv /\ NoCorePanic /\ [Next]_vars => CoreInv' /\ NoCorePanic'
  <2> SUFFICES ASSUME IInv, IInv', CoreInv, NoCorePanic, [Next]_vars
               PROVE  CoreInv' /\ NoCorePanic'
    OBVIOUS
  <2>1. CASE UNCHANGED vars
    BY <2>1, CoreIdle DEF vars, NoCorePanic
  <2>2. CASE Next
    BY <2>2, WaitNext, OpensNext, HeldNext, CoreGoesOn DEF CoreInv, NoCorePanic
  <2> QED BY <2>1, <2>2
<1>3. Spec => []IInv
  BY Invariant
<1> QED BY <1>1, <1>2, <1>3, PTL DEF Spec

=============================================================================
