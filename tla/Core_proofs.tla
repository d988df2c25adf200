----------------------------- MODULE Core_proofs -----------------------------
(* Proofs about fanest.core: Container, Lifecycle, ApplicationContext and       *)
(* ProviderScope.                                                               *)
(*                                                                              *)
(* Container: the calls in progress are a stack of tokens each asked for by the *)
(* one before, and the tokens in progress of a context are those of its tasks'  *)
(* stacks (StackInv); an instance that a frame waits for is in no cache yet,    *)
(* and what a task got is what the caches hold (InstanceInv).                   *)
(*                                                                              *)
(* Hooks: the calls of a life are those of the passes that are over and of the  *)
(* first instances of the one under way (CameTo), wherever an application       *)
(* (LifecycleKept) or a context (ContextKept) has come.                         *)
(*                                                                              *)
(* Modules: a search ends in a provider or has seen, without one, all it could  *)
(* see (FoundRight); a visit that does not answer "request" leaves behind only  *)
(* singletons that need nothing else (VisitRight); the caches hold what either  *)
(* would answer (ScopeInv).                                                     *)
(* Without re-exports in cycles a token comes from where the first import that  *)
(* exports it has it from (ComesTo), whatever modules are added.                *)
EXTENDS Container, Lifecycle, ApplicationContext, ProviderScope, FiniteSetTheorems, SequenceTheorems,
        WellFoundedInduction, TLAPS

-----------------------------------------------------------------------------
(* Stacks of calls *)

\* A frame asks for token k: its next dependency is k, and no forward reference.
Asks(f, k) ==
  /\ f.next \in DOMAIN Deps[f.tok] /\ Deps[f.tok][f.next].to = k
  /\ Deps[f.tok][f.next].via # "forward"

ToksOf(s) == {s[i].tok : i \in DOMAIN s}

\* Calls in progress: no token twice, every one asked for by the one before it,
\* so that those before a token need it.
Stacked(s) ==
  /\ s \in Seq(Frames)
  /\ \A i, j \in DOMAIN s : s[i].tok = s[j].tok => i = j
  /\ \A i \in DOMAIN s : i + 1 \in DOMAIN s => Asks(s[i], s[i + 1].tok)
  /\ \A i, j \in DOMAIN s : i < j => s[j].tok \in Needs[s[i].tok]

\* What a frame asks for is needed by it, and by all that need it.
LEMMA NeedsClosed ==
  ASSUME NEW f \in Frames, NEW k \in Tokens, Asks(f, k)
  PROVE  k \in Needs[f.tok] /\ \A j \in Tokens : f.tok \in Needs[j] => k \in Needs[j]
  <1>1. f.tok \in Tokens /\ k \in NeedsFirst(f.tok) BY DEF Asks, Frames, NeedsFirst
  <1>2. ASSUME NEW j \in Tokens, NEW S \in SUBSET Tokens, NeedsFirst(j) \subseteq S,
               \A i \in S : NeedsFirst(i) \subseteq S, j = f.tok \/ f.tok \in Needs[j]
        PROVE  k \in S
    <2>1. j # f.tok => f.tok \in S BY <1>2 DEF Needs
    <2> QED BY <1>1, <1>2, <2>1
  <1> QED BY <1>1, <1>2 DEF Needs

LEMMA Push ==
  ASSUME NEW s, Stacked(s), NEW f \in Frames, f.tok \notin ToksOf(s), s # <<>> => Asks(s[Len(s)], f.tok)
  PROVE  LET p == Append(s, f)
         IN /\ Stacked(p) /\ ToksOf(p) = ToksOf(s) \cup {f.tok}
            /\ p # <<>> /\ p[Len(p)] = f /\ p[1].tok = IF s = <<>> THEN f.tok ELSE s[1].tok
  <1> DEFINE p == Append(s, f)
  <1>1. /\ s \in Seq(Frames) /\ p \in Seq(Frames) /\ Len(p) = Len(s) + 1 /\ p[Len(s) + 1] = f
        /\ \A i \in DOMAIN s : p[i] = s[i]
        /\ DOMAIN p = DOMAIN s \cup {Len(s) + 1} /\ Len(s) \in Nat /\ DOMAIN s = 1..Len(s)
    BY DEF Stacked
  <1>2. f.tok \in Tokens /\ \A i \in DOMAIN s : s[i] \in Frames /\ s[i].tok \in Tokens
    <2>1. \A i \in DOMAIN s : s[i] \in Frames BY <1>1
    <2> QED BY <2>1 DEF Frames
  <1> HIDE DEF p
  <1>3. ToksOf(p) = ToksOf(s) \cup {f.tok} BY <1>1 DEF ToksOf
  <1>4. \A i, j \in DOMAIN p : p[i].tok = p[j].tok => i = j BY <1>1 DEF Stacked, ToksOf
  <1>5. \A i \in DOMAIN p : i + 1 \in DOMAIN p => Asks(p[i], p[i + 1].tok)
    <2> SUFFICES ASSUME NEW i \in DOMAIN p, i + 1 \in DOMAIN p PROVE Asks(p[i], p[i + 1].tok) OBVIOUS
    <2>1. i \in DOMAIN s /\ p[i] = s[i] BY <1>1
    <2>2. CASE i + 1 \in DOMAIN s BY <1>1, <2>1, <2>2 DEF Stacked
    <2>3. CASE i + 1 \notin DOMAIN s
      <3>1. i = Len(s) /\ s # <<>> BY <1>1, <2>1, <2>3
      <3> QED BY <1>1, <2>1, <3>1
    <2> QED BY <2>2, <2>3
  <1>6. \A i, j \in DOMAIN p : i < j => p[j].tok \in Needs[p[i].tok]
    <2> SUFFICES ASSUME NEW i \in DOMAIN p, NEW j \in DOMAIN p, i < j PROVE p[j].tok \in Needs[p[i].tok]
      OBVIOUS
    <2>1. i \in DOMAIN s /\ p[i] = s[i] BY <1>1
    <2>2. CASE j \in DOMAIN s BY <1>1, <2>1, <2>2 DEF Stacked
    <2>3. CASE j \notin DOMAIN s
      <3>1. p[j] = f /\ s # <<>> /\ Len(s) \in DOMAIN s BY <1>1, <2>1, <2>3
      <3>2. i = Len(s) \/ s[Len(s)].tok \in Needs[s[i].tok] BY <1>1, <2>1, <3>1 DEF Stacked
      <3>3. s[Len(s)] \in Frames /\ s[i].tok \in Tokens /\ Asks(s[Len(s)], f.tok) BY <1>2, <2>1, <3>1
      <3> QED BY <1>2, <2>1, <3>1, <3>2, <3>3, NeedsClosed
    <2> QED BY <2>2, <2>3
  <1>7. p # <<>> /\ p[1].tok = IF s = <<>> THEN f.tok ELSE s[1].tok BY <1>1
  <1> QED BY <1>1, <1>3, <1>4, <1>5, <1>6, <1>7 DEF Stacked, p

LEMMA Pop ==
  ASSUME NEW s, Stacked(s), s # <<>>
  PROVE  LET p == SubSeq(s, 1, Len(s) - 1)
         IN /\ Stacked(p) /\ ToksOf(p) = ToksOf(s) \ {s[Len(s)].tok} /\ s[Len(s)] \in Frames
            /\ p # <<>> => Asks(p[Len(p)], s[Len(s)].tok) /\ p[1] = s[1]
            /\ p = <<>> => s[1] = s[Len(s)]
            /\ \A i \in DOMAIN p : i \in DOMAIN s /\ p[i] = s[i]
  <1> DEFINE p == SubSeq(s, 1, Len(s) - 1)
  <1>1. s \in Seq(Frames) /\ Len(s) \in Nat \ {0} /\ DOMAIN s = 1..Len(s) BY DEF Stacked
  <1>2. /\ p \in Seq(Frames) /\ Len(p) = Len(s) - 1 /\ \A i \in DOMAIN p : p[i] = s[i]
        /\ DOMAIN p = 1..(Len(s) - 1)
    BY <1>1
  <1>3. DOMAIN s = DOMAIN p \cup {Len(s)} /\ Len(s) \notin DOMAIN p BY <1>1, <1>2
  <1> HIDE DEF p
  <1>4. ToksOf(p) = ToksOf(s) \ {s[Len(s)].tok} BY <1>2, <1>3 DEF Stacked, ToksOf
  <1>5. Stacked(p)
    <2>1. \A i, j \in DOMAIN p : p[i].tok = p[j].tok => i = j BY <1>2, <1>3 DEF Stacked
    <2>2. \A i \in DOMAIN p : i + 1 \in DOMAIN p => Asks(p[i], p[i + 1].tok) BY <1>2, <1>3 DEF Stacked
    <2>3. \A i, j \in DOMAIN p : i < j => p[j].tok \in Needs[p[i].tok] BY <1>2, <1>3 DEF Stacked
    <2> QED BY <1>2, <2>1, <2>2, <2>3 DEF Stacked
  <1>6. ASSUME p # <<>> PROVE Asks(p[Len(p)], s[Len(s)].tok) /\ p[1] = s[1]
    <2>1. Len(p) \in DOMAIN p /\ Len(p) + 1 = Len(s) /\ 1 \in DOMAIN p BY <1>1, <1>2, <1>6
    <2>2. Len(p) \in DOMAIN s /\ Len(p) + 1 \in DOMAIN s BY <1>1, <1>2, <2>1
    <2> QED BY <1>2, <2>1, <2>2 DEF Stacked
  <1>7. p = <<>> => Len(s) = 1 BY <1>1, <1>2
  <1>8. s[Len(s)] \in Frames BY <1>1
  <1> QED BY <1>2, <1>3, <1>4, <1>5, <1>6, <1>7, <1>8 DEF p

\* The innermost frame changes, but for its token.
LEMMA Bump ==
  ASSUME NEW s, Stacked(s), s # <<>>, NEW f \in Frames, f.tok = s[Len(s)].tok
  PROVE  LET p == [s EXCEPT ![Len(s)] = f]
         IN /\ Stacked(p) /\ ToksOf(p) = ToksOf(s) /\ p # <<>> /\ p[Len(p)] = f /\ p[1].tok = s[1].tok
            /\ \A i \in DOMAIN p : i \in DOMAIN s /\ (p[i] = s[i] \/ p[i] = f)
  <1> DEFINE p == [s EXCEPT ![Len(s)] = f]
  <1>1. s \in Seq(Frames) /\ Len(s) \in Nat \ {0} /\ DOMAIN s = 1..Len(s) BY DEF Stacked
  <1>2. /\ p \in Seq(Frames) /\ Len(p) = Len(s) /\ DOMAIN p = DOMAIN s /\ p[Len(s)] = f
        /\ \A i \in DOMAIN s : i # Len(s) => p[i] = s[i]
    BY <1>1
  <1> HIDE DEF p
  <1>3. \A i \in DOMAIN p : p[i].tok = s[i].tok BY <1>2
  <1>4. ToksOf(p) = ToksOf(s) BY <1>2, <1>3 DEF ToksOf
  <1>5. \A i, j \in DOMAIN p : p[i].tok = p[j].tok => i = j BY <1>2, <1>3 DEF Stacked
  <1>6. \A i \in DOMAIN p : i + 1 \in DOMAIN p => Asks(p[i], p[i + 1].tok)
    <2> SUFFICES ASSUME NEW i \in DOMAIN p, i + 1 \in DOMAIN p PROVE Asks(p[i], p[i + 1].tok) OBVIOUS
    <2>1. i # Len(s) BY <1>1, <1>2
    <2> QED BY <1>2, <1>3, <2>1 DEF Stacked
  <1>7. \A i, j \in DOMAIN p : i < j => p[j].tok \in Needs[p[i].tok] BY <1>2, <1>3 DEF Stacked
  <1>8. p # <<>> /\ 1 \in DOMAIN p BY <1>1, <1>2
  <1> QED BY <1>2, <1>3, <1>4, <1>5, <1>6, <1>7, <1>8 DEF Stacked, p

-----------------------------------------------------------------------------
(* Types, and the calls in progress *)

\* The token a task waits for: its next goal, or the next dependency.
Wanted(t) == IF frames[t] = <<>> THEN goals[t][Len(given[t]) + 1] ELSE NextDep(t).to

\* The outermost call is for the task's next goal.
Working(t) ==
  /\ op[t] = "idle" => given[t] = <<>>
  /\ op[t] # "idle" => goals[t] \in Goals[t]
  /\ op[t] \in {"idle", "ended"} => frames[t] = <<>>
  /\ op[t] \notin {"idle", "ended"} => Len(given[t]) < Len(goals[t])
  /\ Stacked(frames[t])
  /\ frames[t] # <<>> => frames[t][1].tok = goals[t][Len(given[t]) + 1]
  /\ op[t] \in {"call", "value"} /\ frames[t] # <<>> => Asks(Top(t), Wanted(t))
  /\ op[t] = "call" => arg[t] = Wanted(t)

\* The tokens in progress are those of the frames of the context, each of one task.
Framed ==
  /\ \A c \in Tasks : \A k : k \in resolving[c] <=> \E t \in Tasks : Context(t) = c /\ k \in ToksOf(frames[t])
  /\ \A t, u \in Tasks : t # u /\ Context(t) = Context(u) => ToksOf(frames[t]) \cap ToksOf(frames[u]) = {}

StackInv == ContainerTypeOK /\ (\A t \in Tasks : Working(t)) /\ Framed

LEMMA CachedTyped ==
  ASSUME ContainerTypeOK, NEW t \in Tasks, NEW k \in Tokens
  PROVE  Cached(t, k) \in Inst
  <1>1. Nothing \in Inst BY DEF Nothing, Inst
  <1> QED BY <1>1, ContainerAssumption DEF ContainerTypeOK, Cached, InRequest

LEMMA DepTyped ==
  ASSUME NEW f \in Frames, f.next <= Len(Deps[f.tok])
  PROVE  /\ f.next \in DOMAIN Deps[f.tok] /\ Deps[f.tok][f.next].to \in Tokens
  <1>1. Deps[f.tok] \in Seq([to: Tokens, via: DepKinds]) /\ f.next \in Nat \ {0}
    BY ContainerAssumption DEF Frames
  <1>2. f.next \in DOMAIN Deps[f.tok] BY <1>1
  <1>3. \A X : Deps[f.tok] \in Seq(X) => Deps[f.tok][f.next] \in X BY <1>2
  <1>4. Deps[f.tok][f.next] \in [to: Tokens, via: DepKinds] BY <1>1, <1>3
  <1> QED BY <1>2, <1>4

\* A step is one task's.
Only(t) ==
  \A u \in Tasks \ {t} : /\ op'[u] = op[u] /\ arg'[u] = arg[u] /\ frames'[u] = frames[u]
                         /\ value'[u] = value[u] /\ goals'[u] = goals[u] /\ given'[u] = given[u]

LEMMA StepOnly == ASSUME ContainerTypeOK, NEW t \in Tasks, Step(t) PROVE Only(t)
  BY DEF ContainerTypeOK, Only, Step, Start, Call, Dependency, Construct, Resume, Store, Return, Unwind

LEMMA WorkingOthers ==
  ASSUME NEW t \in Tasks, Only(t), NEW u \in Tasks \ {t}, Working(u)
  PROVE  Working(u)'
  BY DEF Only, Working, Wanted, Top, NextDep

\* The effect of a step on the calls in progress of t.
Pushes(t) ==
  /\ arg[t] \notin resolving[Context(t)]
  /\ frames' = [frames EXCEPT ![t] = Append(@, [tok |-> arg[t], next |-> 1, reqs |-> {}])]
  /\ resolving' = [resolving EXCEPT ![Context(t)] = @ \cup {arg[t]}]
Pops(t) ==
  /\ frames[t] # <<>>
  /\ frames' = [frames EXCEPT ![t] = SubSeq(@, 1, Len(@) - 1)]
  /\ resolving' = [resolving EXCEPT ![Context(t)] = @ \ {frames[t][Len(frames[t])].tok}]
Bumps(t) ==
  /\ frames[t] # <<>> /\ resolving' = resolving
  /\ \E f \in Frames : f.tok = frames[t][Len(frames[t])].tok
                       /\ frames' = [frames EXCEPT ![t] = [frames[t] EXCEPT ![Len(frames[t])] = f]]

LEMMA FramedKept ==
  ASSUME ContainerTypeOK, NEW t \in Tasks, Stacked(frames[t]), Framed,
         UNCHANGED <<frames, resolving>> \/ Pushes(t) \/ Pops(t) \/ Bumps(t)
  PROVE  Framed'
  <1>0. Context(t) \in Tasks /\ frames \in [Tasks -> Seq(Frames)] /\ resolving \in [Tasks -> SUBSET Tokens]
    BY ContainerAssumption DEF ContainerTypeOK, Context
  <1>1. CASE UNCHANGED <<frames, resolving>> BY <1>1 DEF Framed
  <1>2. CASE Pushes(t)
    <2>1. /\ ToksOf(frames'[t]) = ToksOf(frames[t]) \cup {arg[t]} /\ \A u \in Tasks \ {t} : frames'[u] = frames[u]
          /\ \A u \in Tasks : Context(u) = Context(t) => arg[t] \notin ToksOf(frames[u])
      <3>1. \A s \in Seq(Frames) : \A f : ToksOf(Append(s, f)) = ToksOf(s) \cup {f.tok}
        <4> TAKE s \in Seq(Frames)
        <4> TAKE f
        <4>1. /\ DOMAIN Append(s, f) = DOMAIN s \cup {Len(s) + 1} /\ Append(s, f)[Len(s) + 1] = f
              /\ \A i \in DOMAIN s : Append(s, f)[i] = s[i]
          OBVIOUS
        <4> QED BY <4>1 DEF ToksOf
      <3>2. frames'[t] = Append(frames[t], [tok |-> arg[t], next |-> 1, reqs |-> {}]) BY <1>0, <1>2 DEF Pushes
      <3> QED BY <1>0, <1>2, <3>1, <3>2 DEF Pushes, Framed
    <2>2. resolving'[Context(t)] = resolving[Context(t)] \cup {arg[t]}
          /\ \A c \in Tasks \ {Context(t)} : resolving'[c] = resolving[c]
      BY <1>0, <1>2 DEF Pushes
    <2>3. ASSUME NEW c \in Tasks, NEW k
          PROVE  k \in resolving'[c] <=> \E u \in Tasks : Context(u) = c /\ k \in ToksOf(frames'[u])
      <3>1. k \in resolving[c] <=> \E u \in Tasks : Context(u) = c /\ k \in ToksOf(frames[u]) BY DEF Framed
      <3>2. CASE c = Context(t) BY <1>0, <2>1, <2>2, <3>1, <3>2
      <3>3. CASE c # Context(t) BY <1>0, <2>1, <2>2, <3>1, <3>3
      <3> QED BY <3>2, <3>3
    <2>4. ASSUME NEW u \in Tasks, NEW v \in Tasks, u # v, Context(u) = Context(v)
          PROVE  ToksOf(frames'[u]) \cap ToksOf(frames'[v]) = {}
      <3>1. ToksOf(frames[u]) \cap ToksOf(frames[v]) = {} BY <2>4 DEF Framed
      <3> QED BY <2>1, <2>4, <3>1
    <2> QED BY <2>3, <2>4 DEF Framed, Context
  <1>3. CASE Pops(t)
    <2>1. PICK k : k = frames[t][Len(frames[t])].tok OBVIOUS
    <2>2. /\ ToksOf(frames'[t]) = ToksOf(frames[t]) \ {k} /\ \A u \in Tasks \ {t} : frames'[u] = frames[u]
          /\ k \in ToksOf(frames[t])
      <3>1. frames'[t] = SubSeq(frames[t], 1, Len(frames[t]) - 1) BY <1>0, <1>3 DEF Pops
      <3>2. frames[t] # <<>> BY <1>3 DEF Pops
      <3>3. Len(frames[t]) \in DOMAIN frames[t] BY <1>0, <3>2
      <3>4. ToksOf(frames'[t]) = ToksOf(frames[t]) \ {k} BY <2>1, <3>1, <3>2, Pop
      <3> QED BY <1>0, <1>3, <2>1, <3>3, <3>4 DEF Pops, ToksOf
    <2>3. resolving'[Context(t)] = resolving[Context(t)] \ {k}
          /\ \A c \in Tasks \ {Context(t)} : resolving'[c] = resolving[c]
      BY <1>0, <1>3, <2>1 DEF Pops
    <2>4. ASSUME NEW c \in Tasks, NEW n
          PROVE  n \in resolving'[c] <=> \E u \in Tasks : Context(u) = c /\ n \in ToksOf(frames'[u])
      <3>1. n \in resolving[c] <=> \E u \in Tasks : Context(u) = c /\ n \in ToksOf(frames[u]) BY DEF Framed
      <3>2. \A u \in Tasks \ {t} : Context(u) = Context(t) => k \notin ToksOf(frames[u]) BY <2>2 DEF Framed
      <3>3. CASE c = Context(t)
        <4>1. n \in resolving'[c] <=> n \in resolving[c] /\ n # k BY <2>3, <3>3
        <4>2. ASSUME n \in resolving'[c] PROVE \E u \in Tasks : Context(u) = c /\ n \in ToksOf(frames'[u])
          <5>1. PICK u \in Tasks : Context(u) = c /\ n \in ToksOf(frames[u]) BY <3>1, <4>1, <4>2
          <5>2. n \in ToksOf(frames'[u]) BY <2>2, <4>1, <4>2, <5>1
          <5> QED BY <5>1, <5>2
        <4>3. ASSUME NEW u \in Tasks, Context(u) = c, n \in ToksOf(frames'[u]) PROVE n \in resolving'[c]
          <5>1. n \in ToksOf(frames[u]) /\ n # k BY <2>2, <3>2, <3>3, <4>3
          <5> QED BY <3>1, <4>1, <4>3, <5>1
        <4> QED BY <4>2, <4>3
      <3>4. CASE c # Context(t) BY <1>0, <2>2, <2>3, <3>1, <3>4
      <3> QED BY <3>3, <3>4
    <2>5. ASSUME NEW u \in Tasks, NEW v \in Tasks, u # v, Context(u) = Context(v)
          PROVE  ToksOf(frames'[u]) \cap ToksOf(frames'[v]) = {}
      <3>1. ToksOf(frames[u]) \cap ToksOf(frames[v]) = {} BY <2>5 DEF Framed
      <3> QED BY <2>2, <2>5, <3>1
    <2> QED BY <2>4, <2>5 DEF Framed, Context
  <1>4. CASE Bumps(t)
    <2>1. PICK f \in Frames : f.tok = frames[t][Len(frames[t])].tok
                       /\ frames' = [frames EXCEPT ![t] = [frames[t] EXCEPT ![Len(frames[t])] = f]]
      BY <1>4 DEF Bumps
    <2>2. ToksOf(frames'[t]) = ToksOf(frames[t])
      <3>1. frames'[t] = [frames[t] EXCEPT ![Len(frames[t])] = f] /\ frames[t] # <<>> BY <1>0, <1>4, <2>1 DEF Bumps
      <3> QED BY <2>1, <3>1, Bump
    <2>3. \A u \in Tasks : ToksOf(frames'[u]) = ToksOf(frames[u]) BY <1>0, <2>1, <2>2
    <2> QED BY <1>4, <2>3 DEF Framed, Bumps, Context
  <1> QED BY <1>1, <1>2, <1>3, <1>4

Effect(t) == UNCHANGED <<frames, resolving>> \/ Pushes(t) \/ Pops(t) \/ Bumps(t)

\* What holds of t after any step of t.
Stepped(t) == ContainerTypeOK' /\ Working(t)' /\ Effect(t)

LEMMA StartStep == ASSUME StackInv, NEW t \in Tasks, Start(t) PROVE Stepped(t)
  <1> USE DEF StackInv
  <1>0. ContainerTypeOK /\ Working(t) /\ op[t] = "idle" /\ frames[t] = <<>> /\ given[t] = <<>>
    BY DEF Start, Working
  <1>1. PICK g \in Goals[t] : goals' = [goals EXCEPT ![t] = g] /\ arg' = [arg EXCEPT ![t] = g[1]] BY DEF Start
  <1>2. g \in Seq(Tokens) /\ g # <<>> BY ContainerAssumption
  <1>3. g[1] \in Tokens /\ Len(g) > 0 BY <1>2
  <1>4. /\ op' = [op EXCEPT ![t] = "call"] /\ current = {} /\ current' = {t}
        /\ UNCHANGED <<frames, value, resolving, instances, cache, made, given, failures>>
    BY DEF Start
  <1>5. ContainerTypeOK' BY <1>0, <1>1, <1>2, <1>3, <1>4 DEF ContainerTypeOK, Ops
  <1>6. op'[t] = "call" /\ arg'[t] = g[1] /\ goals'[t] = g BY <1>0, <1>1, <1>4 DEF ContainerTypeOK
  <1>7. Working(t)' BY <1>0, <1>3, <1>4, <1>6 DEF Working, Wanted
  <1> QED BY <1>4, <1>5, <1>7 DEF Stepped, Effect

LEMMA CallStep == ASSUME StackInv, NEW t \in Tasks, Call(t) PROVE Stepped(t)
  <1> USE DEF StackInv
  <1>0. /\ ContainerTypeOK /\ Working(t) /\ op[t] = "call" /\ current = {t} /\ arg[t] = Wanted(t) /\ arg[t] \in Tokens
        /\ UNCHANGED <<current, arg, instances, cache, made, goals, given>>
    BY DEF Call, Working, ContainerTypeOK
  <1>1. CASE /\ op' = [op EXCEPT ![t] = "value"] /\ value' = [value EXCEPT ![t] = Cached(t, arg[t])]
             /\ UNCHANGED <<frames, resolving>>
    <2>1. Cached(t, arg[t]) \in Inst BY <1>0, CachedTyped
    <2>2. ContainerTypeOK' BY <1>0, <1>1, <2>1 DEF ContainerTypeOK, Ops
    <2>3. op'[t] = "value" BY <1>0, <1>1 DEF ContainerTypeOK
    <2>4. Working(t)' BY <1>0, <1>1, <2>3 DEF Working, Wanted, Top, NextDep
    <2> QED BY <1>1, <2>2, <2>4 DEF Stepped, Effect
  <1>2. CASE op' = [op EXCEPT ![t] = "raise"] /\ UNCHANGED <<frames, resolving, value>>
    <2>1. ContainerTypeOK' BY <1>0, <1>2 DEF ContainerTypeOK, Ops
    <2>2. op'[t] = "raise" BY <1>0, <1>2 DEF ContainerTypeOK
    <2>3. Working(t)' BY <1>0, <1>2, <2>2 DEF Working
    <2> QED BY <1>2, <2>1, <2>3 DEF Stepped, Effect
  <1>3. CASE /\ op' = [op EXCEPT ![t] = "build"] /\ UNCHANGED value /\ Pushes(t)
    <2> DEFINE f == [tok |-> arg[t], next |-> 1, reqs |-> {}]
    <2>1. f \in Frames BY <1>0 DEF Frames
    <2>2. frames'[t] = Append(frames[t], f) /\ \A u \in Tasks \ {t} : frames'[u] = frames[u]
          /\ DOMAIN frames' = Tasks
      BY <1>0, <1>3 DEF Pushes, ContainerTypeOK
    <2>3. f.tok \notin ToksOf(frames[t])
      <3>1. Context(t) \in Tasks BY ContainerAssumption DEF Context
      <3>2. arg[t] \notin ToksOf(frames[t]) BY <1>3, <3>1 DEF Pushes, Framed
      <3> QED BY <3>2
    <2>4. frames[t] # <<>> => Asks(frames[t][Len(frames[t])], f.tok) BY <1>0 DEF Working, Top
    <2>5. /\ Stacked(frames'[t]) /\ frames'[t] # <<>>
          /\ frames'[t][1].tok = IF frames[t] = <<>> THEN f.tok ELSE frames[t][1].tok
      <3> HIDE DEF f
      <3>1. Stacked(frames[t]) BY <1>0 DEF Working
      <3> QED BY <2>1, <2>2, <2>3, <2>4, <3>1, Push
    <2>6. op'[t] = "build" BY <1>0, <1>3 DEF ContainerTypeOK
    <2>7. ContainerTypeOK'
      <3>1. frames' \in [Tasks -> Seq(Frames)]
        <4>1. \A u \in Tasks : frames'[u] \in Seq(Frames) BY <1>0, <2>2, <2>5 DEF ContainerTypeOK, Stacked
        <4>2. frames' = [u \in Tasks |-> frames'[u]] BY <1>0, <1>3 DEF Pushes, ContainerTypeOK
        <4> QED BY <4>1, <4>2
      <3>2. resolving' \in [Tasks -> SUBSET Tokens] BY <1>0, <1>3 DEF Pushes, ContainerTypeOK
      <3>3. \A u \in Tasks : op'[u] \in {"build", "await", "made"} => frames'[u] # <<>>
        BY <1>0, <1>3, <2>2, <2>5 DEF ContainerTypeOK
      <3>4. op' \in [Tasks -> Ops] /\ \A u \in Tasks : op'[u] \in {"idle", "await", "ended"} <=> u \notin current
        BY <1>0, <1>3 DEF ContainerTypeOK, Ops
      <3> QED BY <1>0, <1>3, <3>1, <3>2, <3>3, <3>4 DEF ContainerTypeOK
    <2>8. Working(t)' BY <1>0, <2>5, <2>6 DEF Working, Wanted
    <2> QED BY <1>3, <2>7, <2>8 DEF Stepped, Effect
  <1>4. ~InProgress(t, arg[t]) <=> arg[t] \notin resolving[Context(t)] BY DEF InProgress
  <1> QED BY <1>1, <1>2, <1>3, <1>4 DEF Call, Pushes

\* The frame of t is not left, but its place among the dependencies may change.
LEMMA BumpStep ==
  ASSUME StackInv, NEW t \in Tasks, op[t] \in {"build", "value"}, frames[t] # <<>>, NEW f \in Frames,
         f.tok = Top(t).tok, frames' = [frames EXCEPT ![t] = [frames[t] EXCEPT ![Len(frames[t])] = f]],
         op' = [op EXCEPT ![t] = "build"],
         UNCHANGED <<current, arg, value, resolving, instances, cache, made, goals, given>>
  PROVE  Stepped(t)
  <1> USE DEF StackInv
  <1>0. ContainerTypeOK /\ Working(t) OBVIOUS
  <1>1. /\ frames'[t] = [frames[t] EXCEPT ![Len(frames[t])] = f] /\ \A u \in Tasks \ {t} : frames'[u] = frames[u]
        /\ op'[t] = "build"
    BY DEF ContainerTypeOK
  <1>2. f.tok = frames[t][Len(frames[t])].tok BY DEF Top
  <1>3. Stacked(frames'[t]) /\ frames'[t] # <<>> /\ frames'[t][1].tok = frames[t][1].tok
    <2>1. Stacked(frames[t]) BY DEF Working
    <2> QED BY <1>1, <1>2, <2>1, Bump
  <1>4. ContainerTypeOK'
    <2>1. frames' \in [Tasks -> Seq(Frames)]
      <3>1. \A u \in Tasks : frames'[u] \in Seq(Frames) BY <1>1, <1>3 DEF ContainerTypeOK, Stacked
      <3>2. frames' = [u \in Tasks |-> frames'[u]] BY DEF ContainerTypeOK
      <3> QED BY <3>1, <3>2
    <2>2. \A u \in Tasks : op'[u] \in {"build", "await", "made"} => frames'[u] # <<>> BY <1>1, <1>3 DEF ContainerTypeOK
    <2>3. op' \in [Tasks -> Ops] /\ \A u \in Tasks : op'[u] \in {"idle", "await", "ended"} <=> u \notin current
      BY DEF ContainerTypeOK, Ops
    <2> QED BY <2>1, <2>2, <2>3 DEF ContainerTypeOK
  <1>5. Working(t)' BY <1>0, <1>1, <1>3 DEF Working
  <1>6. Bumps(t) BY <1>2 DEF Bumps
  <1> QED BY <1>4, <1>5, <1>6 DEF Stepped, Effect

LEMMA TopTyped ==
  ASSUME StackInv, NEW t \in Tasks, frames[t] # <<>>
  PROVE  Top(t) \in Frames /\ Top(t).tok \in Tokens
  <1>1. frames[t] \in Seq(Frames) BY DEF StackInv, ContainerTypeOK
  <1>2. Top(t) \in Frames BY <1>1 DEF Top
  <1> QED BY <1>2 DEF Frames

LEMMA DependencyStep == ASSUME StackInv, NEW t \in Tasks, Dependency(t) PROVE Stepped(t)
  <1>0. /\ ContainerTypeOK /\ Working(t) /\ op[t] = "build" /\ current = {t} /\ MoreDeps(t) /\ frames[t] # <<>>
        /\ UNCHANGED <<current, value, resolving, instances, cache, made, goals, given>>
    BY DEF StackInv, Dependency, ContainerTypeOK
  <1>1. Top(t) \in Frames /\ Top(t).next \in Nat \ {0} BY <1>0, TopTyped DEF Frames
  <1>2. Top(t).next \in DOMAIN Deps[Top(t).tok] /\ NextDep(t).to \in Tokens
    BY <1>0, <1>1, DepTyped DEF MoreDeps, NextDep
  <1>3. CASE IsProxy(t, NextDep(t))
    <2> DEFINE f == [Top(t) EXCEPT !.next = @ + 1]
    <2>1. f \in Frames /\ f.tok = Top(t).tok BY <1>1 DEF Frames
    <2>2. frames' = [frames EXCEPT ![t] = [frames[t] EXCEPT ![Len(frames[t])] = f]] /\ op' = op /\ arg' = arg
      BY <1>0, <1>3 DEF Dependency, Top, ContainerTypeOK
    <2>3. op' = [op EXCEPT ![t] = "build"] BY <1>0, <2>2 DEF ContainerTypeOK
    <2> HIDE DEF f
    <2> QED BY <1>0, <2>1, <2>2, <2>3, BumpStep
  <1>4. CASE ~IsProxy(t, NextDep(t))
    <2>1. op' = [op EXCEPT ![t] = "call"] /\ arg' = [arg EXCEPT ![t] = NextDep(t).to] /\ frames' = frames
      BY <1>4 DEF Dependency
    <2>2. ContainerTypeOK' BY <1>0, <1>2, <2>1 DEF ContainerTypeOK, Ops
    <2>3. op'[t] = "call" /\ arg'[t] = NextDep(t).to BY <1>0, <2>1 DEF ContainerTypeOK
    <2>4. Asks(Top(t), NextDep(t).to) BY <1>2, <1>4 DEF IsProxy, Asks, NextDep
    <2>5. Working(t)' BY <1>0, <2>1, <2>3, <2>4 DEF Working, Wanted, Top, NextDep
    <2> QED BY <1>0, <2>1, <2>2, <2>5 DEF Stepped, Effect
  <1> QED BY <1>3, <1>4

LEMMA ConstructStep == ASSUME StackInv, NEW t \in Tasks, Construct(t) \/ Resume(t) PROVE Stepped(t)
  <1>0. /\ ContainerTypeOK /\ Working(t) /\ op[t] \in {"build", "await"} /\ frames[t] # <<>>
        /\ UNCHANGED <<arg, frames, value, resolving, instances, cache, made, goals, given>>
    BY DEF StackInv, Construct, Resume, ContainerTypeOK
  <1>1. \/ /\ op' = [op EXCEPT ![t] = "await"] /\ current = {t} /\ current' = {}
        \/ /\ op' = [op EXCEPT ![t] = "made"] \/ op' = [op EXCEPT ![t] = "raise"]
           /\ (current = {t} /\ current' = {t}) \/ (current = {} /\ current' = {t})
    BY DEF Construct, Resume, Suspend
  <1>2. ContainerTypeOK' BY <1>0, <1>1 DEF ContainerTypeOK, Ops
  <1>3. op'[t] \in {"await", "made", "raise"} BY <1>0, <1>1 DEF ContainerTypeOK
  <1>4. Working(t)' BY <1>0, <1>3 DEF Working
  <1> QED BY <1>0, <1>2, <1>4 DEF Stepped, Effect

\* A frame is left, with a value or an exception.
LEMMA PopStep ==
  ASSUME StackInv, NEW t \in Tasks, op[t] \in {"made", "raise"}, frames[t] # <<>>,
         frames' = [frames EXCEPT ![t] = Popped(t)], resolving' = InProgressAfter(t),
         op'[t] \in {"value", "raise"}, UNCHANGED <<goals, given>>
  PROVE  /\ Pops(t) /\ Working(t)' /\ Wanted(t)' = Top(t).tok
         /\ frames' \in [Tasks -> Seq(Frames)] /\ resolving' \in [Tasks -> SUBSET Tokens]
  <1>0. ContainerTypeOK /\ Working(t) /\ Stacked(frames[t]) BY DEF StackInv, Working
  <1>1. frames'[t] = SubSeq(frames[t], 1, Len(frames[t]) - 1) /\ \A u \in Tasks \ {t} : frames'[u] = frames[u]
    BY <1>0 DEF Popped, ContainerTypeOK
  <1>2. /\ Stacked(frames'[t]) /\ Top(t) \in Frames
        /\ frames'[t] # <<>> => Asks(frames'[t][Len(frames'[t])], Top(t).tok) /\ frames'[t][1] = frames[t][1]
        /\ frames'[t] = <<>> => frames[t][1] = Top(t)
    <2>1. PICK s : s = frames[t] OBVIOUS
    <2>2. Stacked(s) /\ s # <<>> /\ frames'[t] = SubSeq(s, 1, Len(s) - 1) /\ Top(t) = s[Len(s)]
      BY <1>0, <1>1, <2>1 DEF Top
    <2>3. LET p == SubSeq(s, 1, Len(s) - 1)
          IN /\ Stacked(p) /\ s[Len(s)] \in Frames
             /\ p # <<>> => Asks(p[Len(p)], s[Len(s)].tok) /\ p[1] = s[1]
             /\ p = <<>> => s[1] = s[Len(s)]
      BY <2>2, Pop
    <2> QED BY <2>1, <2>2, <2>3
  <1>3. Pops(t) BY <1>0 DEF Pops, Popped, InProgressAfter, Top, ContainerTypeOK
  <1>4. Wanted(t)' = Top(t).tok
    <2>1. CASE frames'[t] = <<>> BY <1>0, <1>2, <2>1 DEF Wanted, Working
    <2>2. CASE frames'[t] # <<>> BY <1>2, <2>2 DEF Wanted, NextDep, Top, Asks
    <2> QED BY <2>1, <2>2
  <1>5. Working(t)'
    <2>1. op'[t] \notin {"call", "idle", "ended"} /\ op[t] \notin {"idle", "ended"} OBVIOUS
    <2>2. frames'[t] # <<>> => Asks(Top(t)', Wanted(t)') BY <1>2, <1>4 DEF Top
    <2> QED BY <1>0, <1>2, <2>1, <2>2 DEF Working
  <1>6. frames' \in [Tasks -> Seq(Frames)]
    <2>1. \A u \in Tasks : frames'[u] \in Seq(Frames) BY <1>0, <1>1, <1>2 DEF ContainerTypeOK, Stacked
    <2>2. frames' = [u \in Tasks |-> frames'[u]] BY <1>0 DEF ContainerTypeOK
    <2> QED BY <2>1, <2>2
  <1>7. resolving' \in [Tasks -> SUBSET Tokens] BY <1>0 DEF InProgressAfter, ContainerTypeOK
  <1> QED BY <1>3, <1>4, <1>5, <1>6, <1>7

\* A frame's instance is bound to requests.
LEMMA InstTyped ==
  ASSUME StackInv, NEW t \in Tasks, frames[t] # <<>>
  PROVE  [no |-> made[Top(t).tok] + 1, reqs |-> HeldBy(t)] \in Inst
  <1>1. Top(t) \in Frames /\ Top(t).tok \in Tokens /\ Top(t).reqs \subseteq Contexts BY TopTyped DEF Frames
  <1>2. ReqOf[t] \in Contexts BY ContainerAssumption DEF Contexts
  <1>3. HeldBy(t) \subseteq Contexts BY <1>1, <1>2 DEF HeldBy
  <1>4. made[Top(t).tok] + 1 \in Nat BY <1>1 DEF StackInv, ContainerTypeOK
  <1> QED BY <1>3, <1>4 DEF Inst

LEMMA StoreStep == ASSUME StackInv, NEW t \in Tasks, Store(t) PROVE Stepped(t)
  <1>0. ContainerTypeOK /\ op[t] = "made" /\ frames[t] # <<>> /\ current = {t} BY DEF StackInv, Store, ContainerTypeOK
  <1>1. PICK k \in Tokens, inst \in Inst : k = Top(t).tok /\ inst = [no |-> made[k] + 1, reqs |-> HeldBy(t)]
    BY <1>0, TopTyped, InstTyped
  <1>2. /\ made' = [made EXCEPT ![k] = @ + 1] /\ instances' = SingletonsAfter(k, inst)
        /\ cache' = IF Scope(k) = "request" /\ InRequest(t) THEN [cache EXCEPT ![ReqOf[t]][k] = inst] ELSE cache
        /\ value' = [value EXCEPT ![t] = inst] /\ frames' = [frames EXCEPT ![t] = Popped(t)]
        /\ resolving' = InProgressAfter(t) /\ op' = [op EXCEPT ![t] = "value"]
        /\ UNCHANGED <<current, arg, goals, given>>
    BY <1>1 DEF Store
  <1>3. op'[t] = "value" BY <1>0, <1>2 DEF ContainerTypeOK
  <1>4. Pops(t) /\ Working(t)' /\ frames' \in [Tasks -> Seq(Frames)] /\ resolving' \in [Tasks -> SUBSET Tokens]
    BY <1>0, <1>2, <1>3, PopStep
  <1>5. ContainerTypeOK'
    <2>1. instances' \in [Tokens -> Inst] BY <1>0, <1>2 DEF SingletonsAfter, ContainerTypeOK
    <2>2. cache' \in [Requests -> [Tokens -> Inst]]
      <3>1. CASE Scope(k) = "request" /\ InRequest(t) BY <1>0, <1>2, <3>1 DEF InRequest, ContainerTypeOK
      <3>2. CASE ~(Scope(k) = "request" /\ InRequest(t)) BY <1>0, <1>2, <3>2 DEF ContainerTypeOK
      <3> QED BY <3>1, <3>2
    <2>3. made' \in [Tokens -> Nat] /\ value' \in [Tasks -> Inst] /\ op' \in [Tasks -> Ops]
      BY <1>0, <1>2 DEF ContainerTypeOK, Ops
    <2>4. /\ \A u \in Tasks : op'[u] \in {"idle", "await", "ended"} <=> u \notin current
          /\ \A u \in Tasks : op'[u] \in {"build", "await", "made"} => frames'[u] # <<>>
      BY <1>0, <1>2 DEF ContainerTypeOK
    <2> QED BY <1>0, <1>2, <1>4, <2>1, <2>2, <2>3, <2>4 DEF ContainerTypeOK
  <1> QED BY <1>4, <1>5 DEF Stepped, Effect

LEMMA ReturnStep == ASSUME StackInv, NEW t \in Tasks, Return(t) PROVE Stepped(t)
  <1>0. /\ ContainerTypeOK /\ Working(t) /\ op[t] = "value" /\ current = {t} /\ value[t] \in Inst
        /\ UNCHANGED <<value, resolving, instances, cache, made, goals, failures>>
    BY DEF StackInv, Return, ContainerTypeOK
  <1>1. CASE frames[t] # <<>>
    <2> DEFINE f == Supplied(Top(t), value[t])
    <2>1. f \in Frames /\ f.tok = Top(t).tok BY <1>0, <1>1, TopTyped DEF Frames, Inst, Supplied
    <2>2. /\ frames' = [frames EXCEPT ![t] = [frames[t] EXCEPT ![Len(frames[t])] = f]]
          /\ op' = [op EXCEPT ![t] = "build"] /\ UNCHANGED <<current, arg, given>>
      BY <1>0, <1>1 DEF Return, Top, ContainerTypeOK
    <2> HIDE DEF f
    <2> QED BY <1>0, <1>1, <2>1, <2>2, BumpStep
  <1>2. CASE frames[t] = <<>>
    <2>1. given' = [given EXCEPT ![t] = Append(@, value[t])] /\ frames' = frames BY <1>2 DEF Return
    <2>2. /\ given' \in [Tasks -> Seq(Inst)] /\ Len(given'[t]) = Len(given[t]) + 1 /\ Len(given[t]) \in Nat
          /\ given[t] \in Seq(Inst) /\ goals[t] \in Seq(Tokens) /\ Len(goals[t]) \in Nat
      BY <1>0, <2>1 DEF ContainerTypeOK
    <2>3. Len(given[t]) < Len(goals[t]) /\ goals[t] \in Goals[t] BY <1>0 DEF Working
    <2>4. CASE Len(given[t]) + 1 < Len(goals[t])
      <3>1. /\ op' = [op EXCEPT ![t] = "call"] /\ arg' = [arg EXCEPT ![t] = goals[t][Len(given[t]) + 2]]
            /\ current' = current
        BY <1>2, <2>4 DEF Return
      <3>2. goals[t][Len(given[t]) + 2] \in Tokens BY <2>2, <2>4
      <3>3. ContainerTypeOK' BY <1>0, <2>1, <2>2, <3>1, <3>2 DEF ContainerTypeOK, Ops
      <3>4. op'[t] = "call" /\ arg'[t] = goals[t][Len(given[t]) + 2] BY <1>0, <3>1 DEF ContainerTypeOK
      <3>5. (Len(given[t]) + 1) + 1 = Len(given[t]) + 2 BY <2>2
      <3>6. Working(t)' BY <1>0, <1>2, <2>1, <2>2, <2>3, <2>4, <3>4, <3>5 DEF Working, Wanted
      <3> QED BY <1>0, <2>1, <3>3, <3>6 DEF Stepped, Effect
    <2>5. CASE ~(Len(given[t]) + 1 < Len(goals[t]))
      <3>1. op' = [op EXCEPT ![t] = "ended"] /\ current' = {} /\ arg' = arg BY <1>2, <2>5 DEF Return
      <3>2. ContainerTypeOK' BY <1>0, <2>1, <2>2, <3>1 DEF ContainerTypeOK, Ops
      <3>3. op'[t] = "ended" BY <1>0, <3>1 DEF ContainerTypeOK
      <3>4. Working(t)' BY <1>0, <1>2, <2>1, <2>3, <3>3 DEF Working
      <3> QED BY <1>0, <2>1, <3>2, <3>4 DEF Stepped, Effect
    <2> QED BY <2>4, <2>5
  <1> QED BY <1>1, <1>2

LEMMA UnwindStep == ASSUME StackInv, NEW t \in Tasks, Unwind(t) PROVE Stepped(t)
  <1>0. /\ ContainerTypeOK /\ Working(t) /\ op[t] = "raise" /\ current = {t}
        /\ UNCHANGED <<arg, value, instances, cache, made, goals, given, failures>>
    BY DEF StackInv, Unwind, ContainerTypeOK
  <1>1. CASE frames[t] # <<>>
    <2>1. frames' = [frames EXCEPT ![t] = Popped(t)] /\ resolving' = InProgressAfter(t) /\ UNCHANGED <<op, current>>
      BY <1>1 DEF Unwind
    <2>2. Pops(t) /\ Working(t)' /\ frames' \in [Tasks -> Seq(Frames)] /\ resolving' \in [Tasks -> SUBSET Tokens]
      BY <1>0, <1>1, <2>1, PopStep
    <2>3. \A u \in Tasks : op[u] \in {"build", "await", "made"} => frames'[u] # <<>>
      BY <1>0, <2>1 DEF ContainerTypeOK
    <2>4. ContainerTypeOK' BY <1>0, <2>1, <2>2, <2>3 DEF ContainerTypeOK
    <2> QED BY <2>2, <2>4 DEF Stepped, Effect
  <1>2. CASE frames[t] = <<>>
    <2>1. op' = [op EXCEPT ![t] = "ended"] /\ current' = {} /\ UNCHANGED <<frames, resolving>> BY <1>2 DEF Unwind
    <2>2. ContainerTypeOK' BY <1>0, <2>1 DEF ContainerTypeOK, Ops
    <2>3. op'[t] = "ended" BY <1>0, <2>1 DEF ContainerTypeOK
    <2>4. Working(t)' BY <1>0, <1>2, <2>1, <2>3 DEF Working
    <2> QED BY <2>1, <2>2, <2>4 DEF Stepped, Effect
  <1> QED BY <1>1, <1>2

LEMMA StackStep == ASSUME StackInv, [ContainerNext]_containerVars PROVE StackInv'
  <1>1. CASE UNCHANGED containerVars
    BY <1>1 DEF containerVars, StackInv, ContainerTypeOK, Working, Wanted, Top, NextDep, Framed
  <1>2. ASSUME NEW t \in Tasks, Step(t) PROVE StackInv'
    <2>1. Stepped(t)
      BY <1>2, StartStep, CallStep, DependencyStep, ConstructStep, StoreStep, ReturnStep, UnwindStep DEF Step
    <2>2. Only(t) BY <1>2, StepOnly DEF StackInv
    <2>3. \A u \in Tasks \ {t} : Working(u)' BY <2>2, WorkingOthers DEF StackInv
    <2>4. Framed' BY <2>1, FramedKept DEF Stepped, Effect, StackInv, Working
    <2> QED BY <2>1, <2>3, <2>4 DEF Stepped, StackInv
  <1> QED BY <1>1, <1>2 DEF ContainerNext

LEMMA StackInit == ContainerInit => StackInv
  <1> SUFFICES ASSUME ContainerInit PROVE StackInv OBVIOUS
  <1>1. Nothing \in Inst BY DEF Nothing, Inst
  <1>2. (CHOOSE k \in Tokens : TRUE) \in Tokens BY ContainerAssumption
  <1>3. ContainerTypeOK BY <1>1, <1>2 DEF ContainerInit, ContainerTypeOK, Ops
  <1>4. \A t \in Tasks : Working(t) BY DEF ContainerInit, Working, Stacked
  <1>5. Framed BY DEF ContainerInit, Framed, ToksOf
  <1> QED BY <1>3, <1>4, <1>5 DEF StackInv

LEMMA StackAlways == ContainerSpec => []StackInv
  BY StackInit, StackStep, PTL DEF ContainerSpec

LEMMA FramedMeans == StackInv => InProgressIsFramed
  <1> SUFFICES ASSUME StackInv, NEW c \in Tasks
      PROVE  resolving[c] = UNION {{frames[t][i].tok : i \in DOMAIN frames[t]} : t \in {u \in Tasks : Context(u) = c}}
    BY DEF InProgressIsFramed
  <1>1. \A k : k \in resolving[c] <=> \E t \in Tasks : Context(t) = c /\ k \in ToksOf(frames[t])
    BY DEF StackInv, Framed
  <1> QED BY <1>1 DEF ToksOf

-----------------------------------------------------------------------------
(* Cycles *)

\* No task is spawned inside an async factory, where it would share the tokens in
\* progress of the task that awaits it.
OwnContexts == \A t \in Tasks : SharesWith[t] = t

\* A token in progress that a task calls is in progress in a frame of its own.
FoundInOwn(t) == InProgress(t, arg[t]) => arg[t] \in ToksOf(frames[t])

LEMMA CircularStep ==
  ASSUME StackInv, CircularIsReal, [ContainerNext]_containerVars, \A t \in Tasks : Call(t) => FoundInOwn(t)
  PROVE  CircularIsReal'
  <1>1. CASE UNCHANGED failures BY <1>1 DEF CircularIsReal
  <1>2. ASSUME NEW t \in Tasks, NEW k, failures' = failures \cup {[task |-> t, tok |-> k, why |-> "provider"]}
        PROVE  CircularIsReal'
    BY <1>2 DEF CircularIsReal
  <1>3. ASSUME NEW t \in Tasks, Call(t), op[t] = "call", InProgress(t, arg[t]),
               failures' = failures \cup {[task |-> t, tok |-> arg[t], why |-> "circular"]}
        PROVE  CircularIsReal'
    <2>1. arg[t] \in Tokens /\ Stacked(frames[t]) /\ arg[t] = Wanted(t) BY <1>3 DEF StackInv, ContainerTypeOK, Working
    <2>2. arg[t] \in ToksOf(frames[t]) BY <1>3 DEF FoundInOwn
    <2>3. PICK i \in DOMAIN frames[t] : frames[t][i].tok = arg[t] BY <2>2 DEF ToksOf
    <2>4. frames[t] \in Seq(Frames) /\ frames[t] # <<>> BY <2>1, <2>3 DEF Stacked
    <2>5. Asks(Top(t), arg[t]) /\ Top(t) \in Frames BY <1>3, <2>1, <2>4, TopTyped DEF StackInv, Working
    <2>6. i = Len(frames[t]) \/ (i < Len(frames[t]) /\ Len(frames[t]) \in DOMAIN frames[t]) BY <2>4
    <2>7. Top(t).tok = arg[t] \/ Top(t).tok \in Needs[arg[t]] BY <2>1, <2>3, <2>6 DEF Top, Stacked
    <2>8. arg[t] \in Needs[arg[t]] BY <2>1, <2>5, <2>7, NeedsClosed
    <2> QED BY <1>3, <2>8 DEF CircularIsReal
  <1>4. CASE UNCHANGED containerVars BY <1>1, <1>4 DEF containerVars
  <1>5. ASSUME NEW t \in Tasks, Step(t) PROVE CircularIsReal'
    <2>1. CASE Start(t) \/ Dependency(t) \/ Store(t) \/ Return(t) \/ Unwind(t)
      BY <1>1, <2>1 DEF Start, Dependency, Store, Return, Unwind
    <2>2. CASE Call(t) BY <1>1, <1>3, <1>5, <2>2 DEF Call
    <2>3. CASE Construct(t) BY <1>1, <1>2, <2>3 DEF Construct
    <2>4. CASE Resume(t) BY <1>1, <1>2, <2>4 DEF Resume
    <2> QED BY <1>5, <2>1, <2>2, <2>3, <2>4 DEF Step
  <1> QED BY <1>4, <1>5 DEF ContainerNext

\* The tokens in progress of a context are those that its frames resolve, whatever
\* raises, is cached or awaits (FaNestContainer.resolve_async's finally clause).
THEOREM InProgressAlways == ContainerSpec => [](ContainerTypeOK /\ InProgressIsFramed)
  <1>1. StackInv => ContainerTypeOK /\ InProgressIsFramed BY FramedMeans DEF StackInv
  <1> QED BY <1>1, StackAlways, PTL

\* A token in progress is left with its frame, and refused as circular only when it
\* needs itself (container.py:334), when no two tasks share a context.
THEOREM CircularAlways == ASSUME OwnContexts PROVE ContainerSpec => []CircularOnlyWhenReal
  <1>1. ContainerInit => CircularIsReal BY DEF ContainerInit, CircularIsReal
  <1>2. StackInv /\ CircularIsReal /\ [ContainerNext]_containerVars => CircularIsReal'
    <2>1. StackInv => \A t \in Tasks : FoundInOwn(t) BY DEF OwnContexts, FoundInOwn, InProgress, Context, StackInv, Framed
    <2> QED BY <2>1, CircularStep
  <1>3. StackInv /\ CircularIsReal => CircularOnlyWhenReal BY FramedMeans DEF StackInv, CircularOnlyWhenReal
  <1> QED BY <1>1, <1>2, <1>3, StackAlways, PTL DEF ContainerSpec

-----------------------------------------------------------------------------
(* Instances *)

\* Task b, the lifespan, resolves every singleton before any other task starts.
Boots(b) ==
  /\ \A t \in Tasks \ {b} : b \in Preceding[t]
  /\ \A g \in Goals[b] : \A k \in Tokens : Scope(k) = "singleton" => \E i \in DOMAIN g : g[i] = k
EagerSingletons == \E b \in Tasks : Boots(b)

\* Tasks of one request follow each other, or one was spawned while the other waits.
RequestsInOrder ==
  \A t, u \in Tasks : t # u /\ ReqOf[t] = ReqOf[u] /\ ReqOf[t] \in Requests =>
    t \in Preceding[u] \/ u \in Preceding[t] \/ Context(t) = Context(u)

\* No transient provider needs one that is request scoped.
PlainTransients ==
  \A k \in Tokens : Own[k] = "transient" => \A n \in Needing(k) : Scope(n) # "request"

LEMMA ScopeUp ==
  ASSUME PlainTransients, NEW k \in Tokens, NEW n \in Needing(k), n \in Tokens, Scope(n) = "request"
  PROVE  Scope(k) = "request"
  <1>1. n \in BubblesToRequest BY DEF Scope, BubblesToRequest
  <1>2. CASE Own[k] = "singleton"
    <2>1. k \in BubblesToRequest
      <3> SUFFICES ASSUME NEW S \in SUBSET Tokens,
                          \A j \in Tokens : Own[j] = "request" \/ (Own[j] = "singleton" /\ Needing(j) \cap S # {}) => j \in S
          PROVE  k \in S
        BY DEF BubblesToRequest
      <3>1. n \in S BY <1>1 DEF BubblesToRequest
      <3> QED BY <1>2, <3>1
    <2> QED BY <1>2, <2>1 DEF Scope
  <1>3. CASE Own[k] = "request" BY <1>3 DEF Scope
  <1>4. CASE Own[k] = "transient" BY <1>4 DEF PlainTransients
  <1> QED BY <1>2, <1>3, <1>4, ContainerAssumption

\* A task starts when those before it are done.
Ordered ==
  \A t \in Tasks : op[t] # "idle" => \A u \in Preceding[t] : op[u] = "ended" /\ Len(given[u]) = Len(goals[u])

\* The requests whose instances one of k that task t makes may hold.
Bound(t, k) == IF Scope(k) = "request" THEN {ReqOf[t]} ELSE {}

\* v is the instance of k that everyone in the request of t gets.
Right(t, k, v) ==
  /\ k \in Tokens
  /\ Scope(k) = "singleton" => v = instances[k] /\ v # Nothing
  /\ Scope(k) = "request" /\ InRequest(t) => v = cache[ReqOf[t]][k] /\ v # Nothing
  /\ v.reqs \subseteq Bound(t, k)

\* What frame f of task t is for has no instance yet.
Fresh(t, f, b) ==
  /\ Scope(f.tok) = "singleton" => t = b /\ instances[f.tok] = Nothing
  /\ Scope(f.tok) = "request" /\ InRequest(t) => cache[ReqOf[t]][f.tok] = Nothing
  /\ f.reqs \subseteq Bound(t, f.tok)

Held ==
  /\ \A k \in Tokens : instances[k].reqs = {}
  /\ \A r \in Requests, k \in Tokens : cache[r][k].reqs \subseteq {r}
  /\ \A k \in Tokens : Scope(k) = "singleton" => made[k] <= 1 /\ (instances[k] = Nothing => made[k] = 0)

TaskInv(t, b) ==
  /\ \A i \in DOMAIN frames[t] : Fresh(t, frames[t][i], b)
  /\ op[t] = "value" => Right(t, Wanted(t), value[t])
  /\ \A i \in DOMAIN given[t] : Right(t, goals[t][i], given[t][i])

InstanceInv(b) == StackInv /\ Ordered /\ Held /\ \A t \in Tasks : TaskInv(t, b)

\* Instances are stored once and for all.
Grow ==
  /\ \A k \in Tokens : instances[k] = Nothing \/ instances'[k] = instances[k]
  /\ \A r \in Requests, k \in Tokens : cache[r][k] = Nothing \/ cache'[r][k] = cache[r][k]

LEMMA RightKept ==
  ASSUME Grow, NEW t \in Tasks, NEW k, NEW v, Right(t, k, v)
  PROVE  Right(t, k, v)'
  BY DEF Grow, Right, InRequest, Scope, Bound

\* Once a task other than b is at work, every singleton has its instance.
LEMMA Booted ==
  ASSUME NEW b \in Tasks, Boots(b), InstanceInv(b), NEW t \in Tasks, t # b, op[t] # "idle",
         NEW k \in Tokens, Scope(k) = "singleton"
  PROVE  instances[k] # Nothing
  <1>1. op[b] = "ended" /\ Len(given[b]) = Len(goals[b]) BY DEF InstanceInv, Ordered, Boots
  <1>2. goals[b] \in Goals[b] /\ given[b] \in Seq(Inst) /\ goals[b] \in Seq(Tokens)
    BY <1>1 DEF InstanceInv, StackInv, Working, ContainerTypeOK
  <1>3. PICK i \in DOMAIN goals[b] : goals[b][i] = k BY <1>2 DEF Boots
  <1>4. i \in DOMAIN given[b] BY <1>1, <1>2
  <1> QED BY <1>3, <1>4 DEF InstanceInv, TaskInv, Right

\* A request-scoped token is resolved by one task of a request at a time.
LEMMA OneAtWork ==
  ASSUME NEW b, RequestsInOrder, InstanceInv(b), NEW t \in Tasks, NEW u \in Tasks, t # u, InRequest(t), ReqOf[t] = ReqOf[u],
         NEW k, k \in ToksOf(frames[t]), k \in ToksOf(frames[u])
  PROVE  FALSE
  <1>1. op[t] \notin {"idle", "ended"} /\ op[u] \notin {"idle", "ended"}
    BY DEF InstanceInv, StackInv, Working, ToksOf
  <1>2. t \notin Preceding[u] /\ u \notin Preceding[t] BY <1>1 DEF InstanceInv, Ordered
  <1>3. Context(t) = Context(u) BY <1>2 DEF RequestsInOrder, InRequest
  <1> QED BY <1>3 DEF InstanceInv, StackInv, Framed

LEMMA OrderedStep == ASSUME StackInv, Ordered, NEW t \in Tasks, Step(t) PROVE Ordered'
  <1>1. Only(t) /\ op[t] # "ended" /\ goals' \in [Tasks -> Seq(Tokens)]
    <2>1. op[t] # "ended" BY DEF Step, Start, Call, Dependency, Construct, Resume, Store, Return, Unwind
    <2>2. ContainerTypeOK' BY StackStep DEF StackInv, ContainerNext
    <2> QED BY <2>1, <2>2, StepOnly DEF StackInv, ContainerTypeOK
  <1>2. ASSUME NEW u \in Tasks, op[u] = "ended" /\ Len(given[u]) = Len(goals[u])
        PROVE  op'[u] = "ended" /\ Len(given'[u]) = Len(goals'[u])
    <2>1. u # t BY <1>1, <1>2
    <2> QED BY <1>1, <1>2, <2>1 DEF Only
  <1>3. Preceding \in [Tasks -> SUBSET Tasks] BY ContainerAssumption
  <1>4. ASSUME NEW v \in Tasks, op'[v] # "idle", NEW u \in Preceding[v]
        PROVE  op[u] = "ended" /\ Len(given[u]) = Len(goals[u])
    <2>1. CASE op[v] # "idle" BY <2>1 DEF Ordered
    <2>2. CASE op[v] = "idle"
      <3>1. v = t BY <1>1, <1>4, <2>2 DEF Only
      <3>2. Start(t)
        BY <2>2, <3>1 DEF StackInv, ContainerTypeOK, Step, Start, Call, Dependency, Construct, Resume, Store, Return, Unwind
      <3> QED BY <1>4, <3>1, <3>2 DEF Start
    <2> QED BY <2>1, <2>2
  <1> QED BY <1>2, <1>3, <1>4 DEF Ordered

\* The other tasks keep what they got, if their frames still wait for their instance.
LEMMA OthersKept ==
  ASSUME NEW b, InstanceInv(b), NEW t \in Tasks, Only(t), Grow, NEW u \in Tasks \ {t},
         \A i \in DOMAIN frames[u] : \E f : f = frames[u][i] /\ Fresh(u, f, b)'
  PROVE  TaskInv(u, b)'
  <1>1. /\ op'[u] = op[u] /\ frames'[u] = frames[u] /\ value'[u] = value[u] /\ goals'[u] = goals[u]
        /\ given'[u] = given[u] /\ Wanted(u)' = Wanted(u) /\ TaskInv(u, b)
    BY DEF Only, Wanted, NextDep, Top, InstanceInv
  <1>2. ASSUME op'[u] = "value" PROVE Right(u, Wanted(u), value[u])'
    <2>1. PICK k, v : k = Wanted(u) /\ v = value[u] OBVIOUS
    <2>2. Right(u, k, v) BY <1>1, <1>2, <2>1 DEF TaskInv
    <2>3. Right(u, k, v)' BY <2>2, RightKept
    <2>4. k = Wanted(u)' /\ v = value'[u] BY <1>1, <2>1
    <2> QED BY <2>3, <2>4
  <1>3. ASSUME NEW i \in DOMAIN given'[u] PROVE Right(u, goals[u][i], given[u][i])'
    <2>1. PICK k, v : k = goals[u][i] /\ v = given[u][i] OBVIOUS
    <2>2. Right(u, k, v) BY <1>1, <1>3, <2>1 DEF TaskInv
    <2>3. Right(u, k, v)' BY <2>2, RightKept
    <2>4. k = goals'[u][i] /\ v = given'[u][i] BY <1>1, <2>1
    <2> QED BY <2>3, <2>4
  <1>4. ASSUME NEW i \in DOMAIN frames'[u] PROVE Fresh(u, frames[u][i], b)'
    <2>1. PICK f : f = frames[u][i] /\ Fresh(u, f, b)' BY <1>1, <1>4
    <2>2. f = frames'[u][i] BY <1>1, <2>1
    <2> QED BY <2>1, <2>2
  <1> QED BY <1>2, <1>3, <1>4 DEF TaskInv

LEMMA WantedTyped ==
  ASSUME StackInv, NEW u \in Tasks, op[u] \in {"call", "value"}
  PROVE  Wanted(u) \in Tokens /\ (frames[u] # <<>> => Wanted(u) \in Needing(Top(u).tok))
  <1>1. /\ ContainerTypeOK /\ Len(given[u]) < Len(goals[u]) /\ goals[u] \in Seq(Tokens) /\ Len(given[u]) \in Nat
        /\ frames[u] # <<>> => Asks(Top(u), Wanted(u))
    BY DEF StackInv, Working, ContainerTypeOK
  <1>2. CASE frames[u] = <<>> BY <1>1, <1>2 DEF Wanted
  <1>3. CASE frames[u] # <<>>
    <2>1. Top(u) \in Frames /\ Top(u).next \in Nat /\ Deps[Top(u).tok] \in Seq([to: Tokens, via: DepKinds])
      BY <1>3, TopTyped, ContainerAssumption DEF Frames
    <2>2. Top(u).next <= Len(Deps[Top(u).tok]) BY <1>1, <1>3, <2>1 DEF Asks
    <2>3. Wanted(u) \in Tokens BY <1>3, <2>1, <2>2, DepTyped DEF Wanted, NextDep
    <2> QED BY <1>1, <1>3, <2>3 DEF Asks, Needing
  <1> QED BY <1>2, <1>3

\* A step that stores nothing: what is left to show is what task t has.
LEMMA NothingStored ==
  ASSUME NEW b, InstanceInv(b), NEW t \in Tasks, Step(t), UNCHANGED <<instances, cache, made>>,
         \A i \in DOMAIN frames'[t] : Fresh(t, frames'[t][i], b),
         op'[t] = "value" => Right(t, Wanted(t)', value'[t]),
         \A i \in DOMAIN given'[t] : Right(t, goals'[t][i], given'[t][i])
  PROVE  InstanceInv(b)'
  <1>1. StackInv' /\ Ordered' /\ Only(t)
    <2>1. StackInv /\ Ordered BY DEF InstanceInv
    <2> QED BY <2>1, StackStep, OrderedStep, StepOnly DEF ContainerNext, StackInv
  <1>2. Held' /\ Grow BY DEF InstanceInv, Held, Grow
  <1>3. ASSUME NEW u \in Tasks, NEW f, Fresh(u, f, b) PROVE Fresh(u, f, b)'
    BY <1>3 DEF Fresh, InRequest, Scope, Bound
  <1>4. ASSUME NEW u \in Tasks, NEW k, NEW v, Right(u, k, v) PROVE Right(u, k, v)'
    BY <1>4, <1>2, RightKept
  <1>5. ASSUME NEW u \in Tasks \ {t} PROVE TaskInv(u, b)'
    <2>1. ASSUME NEW i \in DOMAIN frames[u] PROVE \E f : f = frames[u][i] /\ Fresh(u, f, b)'
      <3>1. PICK f : f = frames[u][i] OBVIOUS
      <3>2. Fresh(u, f, b) BY <2>1, <3>1 DEF InstanceInv, TaskInv
      <3>3. Fresh(u, f, b)' BY <1>3, <3>2
      <3> QED BY <3>1, <3>3
    <2> QED BY <1>1, <1>2, <2>1, OthersKept
  <1>6. TaskInv(t, b)'
    <2>1. ASSUME NEW i \in DOMAIN frames'[t] PROVE Fresh(t, frames[t][i], b)'
      <3>1. PICK f : f = frames'[t][i] OBVIOUS
      <3>2. Fresh(t, f, b)' BY <1>3, <2>1, <3>1
      <3> QED BY <3>1, <3>2
    <2>2. ASSUME op'[t] = "value" PROVE Right(t, Wanted(t), value[t])'
      <3>1. PICK k, v : k = Wanted(t)' /\ v = value'[t] OBVIOUS
      <3>2. Right(t, k, v)' BY <1>4, <2>2, <3>1
      <3> QED BY <3>1, <3>2
    <2>3. ASSUME NEW i \in DOMAIN given'[t] PROVE Right(t, goals[t][i], given[t][i])'
      <3>1. PICK k, v : k = goals'[t][i] /\ v = given'[t][i] OBVIOUS
      <3>2. Right(t, k, v)' BY <1>4, <2>3, <3>1
      <3> QED BY <3>1, <3>2
    <2> QED BY <2>1, <2>2, <2>3 DEF TaskInv
  <1> QED BY <1>1, <1>2, <1>5, <1>6 DEF InstanceInv

\* A cached instance is the right one.
LEMMA CachedRight ==
  ASSUME Held, NEW t \in Tasks, NEW k \in Tokens, Cached(t, k) # Nothing
  PROVE  Right(t, k, Cached(t, k))
  BY DEF Held, Cached, Right, Bound, InRequest

\* A new frame waits for an instance that there is not.
LEMMA PushedFresh ==
  ASSUME NEW b \in Tasks, Boots(b), InstanceInv(b), NEW t \in Tasks, op[t] # "idle", NEW k \in Tokens, Cached(t, k) = Nothing
  PROVE  Fresh(t, [tok |-> k, next |-> 1, reqs |-> {}], b)
  <1>1. ASSUME Scope(k) = "singleton" PROVE t = b /\ instances[k] = Nothing
    <2>1. instances[k] = Nothing BY <1>1 DEF Cached
    <2> QED BY <1>1, <2>1, Booted
  <1>2. Scope(k) = "request" /\ InRequest(t) => cache[ReqOf[t]][k] = Nothing BY DEF Cached
  <1> QED BY <1>1, <1>2 DEF Fresh

LEMMA CallKeeps ==
  ASSUME NEW b \in Tasks, Boots(b), InstanceInv(b), NEW t \in Tasks, Call(t)
  PROVE  InstanceInv(b)'
  <1>1. /\ StackInv /\ TaskInv(t, b) /\ Held /\ Step(t) /\ op[t] = "call" /\ arg[t] = Wanted(t) /\ arg[t] \in Tokens
        /\ UNCHANGED <<instances, cache, made, goals, given>> /\ op \in [Tasks -> Ops] /\ value \in [Tasks -> Inst]
        /\ frames \in [Tasks -> Seq(Frames)]
    BY DEF InstanceInv, StackInv, Working, ContainerTypeOK, Call, Step
  <1>2. \A i \in DOMAIN given'[t] : Right(t, goals'[t][i], given'[t][i]) BY <1>1 DEF TaskInv
  <1>3. CASE /\ Cached(t, arg[t]) # Nothing /\ op' = [op EXCEPT ![t] = "value"]
             /\ value' = [value EXCEPT ![t] = Cached(t, arg[t])] /\ frames' = frames
    <2>1. value'[t] = Cached(t, arg[t]) /\ Wanted(t)' = arg[t] BY <1>1, <1>3 DEF Wanted, NextDep, Top
    <2>2. Right(t, Wanted(t)', value'[t]) BY <1>1, <1>3, <2>1, CachedRight
    <2>3. \A i \in DOMAIN frames'[t] : Fresh(t, frames'[t][i], b) BY <1>1, <1>3 DEF TaskInv
    <2> QED BY <1>1, <1>2, <2>2, <2>3, NothingStored
  <1>4. CASE op' = [op EXCEPT ![t] = "raise"] /\ frames' = frames
    <2>1. \A i \in DOMAIN frames'[t] : Fresh(t, frames'[t][i], b) BY <1>1, <1>4 DEF TaskInv
    <2>2. op'[t] = "raise" BY <1>1, <1>4
    <2> QED BY <1>1, <1>2, <2>1, <2>2, NothingStored
  <1>5. CASE /\ Cached(t, arg[t]) = Nothing /\ op' = [op EXCEPT ![t] = "build"]
             /\ frames' = [frames EXCEPT ![t] = Append(@, [tok |-> arg[t], next |-> 1, reqs |-> {}])]
    <2>1. PICK f : f = [tok |-> arg[t], next |-> 1, reqs |-> {}] OBVIOUS
    <2>2. Fresh(t, f, b) BY <1>1, <1>5, <2>1, PushedFresh
    <2>3. frames'[t] = Append(frames[t], f) /\ op'[t] = "build" /\ frames[t] \in Seq(Frames) BY <1>1, <1>5, <2>1
    <2>4. \A i \in DOMAIN frames'[t] : frames'[t][i] = f \/ (i \in DOMAIN frames[t] /\ frames'[t][i] = frames[t][i])
      BY <2>3
    <2>5. \A i \in DOMAIN frames'[t] : Fresh(t, frames'[t][i], b) BY <1>1, <2>2, <2>4 DEF TaskInv
    <2> QED BY <1>1, <1>2, <2>3, <2>5, NothingStored
  <1> QED BY <1>3, <1>4, <1>5 DEF Call

LEMMA DependencyKeeps ==
  ASSUME NEW b \in Tasks, InstanceInv(b), NEW t \in Tasks, Start(t) \/ Dependency(t) \/ Construct(t) \/ Resume(t) \/ Unwind(t)
  PROVE  InstanceInv(b)'
  <1>1. /\ StackInv /\ Working(t) /\ TaskInv(t, b) /\ Step(t) /\ frames \in [Tasks -> Seq(Frames)] /\ op \in [Tasks -> Ops]
        /\ UNCHANGED <<instances, cache, made, given>>
    BY DEF InstanceInv, StackInv, ContainerTypeOK, Step, Start, Dependency, Construct, Resume, Unwind
  <1>2. op'[t] # "value" 
    BY <1>1 DEF Start, Dependency, Construct, Resume, Unwind
  <1>3. \A i \in DOMAIN given'[t] : Right(t, goals'[t][i], given'[t][i])
    <2>1. goals' = goals \/ given[t] = <<>> BY <1>1 DEF Start, Dependency, Construct, Resume, Unwind, Working
    <2> QED BY <1>1, <2>1 DEF TaskInv
  <1>4. \A i \in DOMAIN frames'[t] : Fresh(t, frames'[t][i], b)
    <2>1. CASE frames' = frames BY <1>1, <2>1 DEF TaskInv
    <2>2. CASE frames[t] # <<>> /\ frames' = [frames EXCEPT ![t] = Popped(t)]
      <3>1. \A i \in DOMAIN frames'[t] : i \in DOMAIN frames[t] /\ frames'[t][i] = frames[t][i]
        <4>1. frames'[t] = SubSeq(frames[t], 1, Len(frames[t]) - 1) BY <1>1, <2>2 DEF Popped
        <4>2. Stacked(frames[t]) BY <1>1 DEF Working
        <4> QED BY <2>2, <4>1, <4>2, Pop
      <3> QED BY <1>1, <3>1 DEF TaskInv
    <2>3. CASE frames[t] # <<>> /\ frames' = [frames EXCEPT ![t][Len(frames[t])].next = @ + 1]
      <3>1. PICK f : f = [Top(t) EXCEPT !.next = @ + 1] OBVIOUS
      <3>2. Top(t) \in Frames /\ Top(t) = frames[t][Len(frames[t])] BY <1>1, <2>3, TopTyped DEF Top
      <3>3. f \in Frames /\ f.tok = Top(t).tok /\ f.reqs = Top(t).reqs BY <3>1, <3>2 DEF Frames
      <3>4. frames'[t] = [frames[t] EXCEPT ![Len(frames[t])] = f] BY <1>1, <2>3, <3>1, <3>2
      <3>5. \A i \in DOMAIN frames'[t] : i \in DOMAIN frames[t] /\ (frames'[t][i] = frames[t][i] \/ frames'[t][i] = f)
        <4>1. Stacked(frames[t]) BY <1>1 DEF Working
        <4> QED BY <2>3, <3>2, <3>3, <3>4, <4>1, Bump
      <3>6. Len(frames[t]) \in DOMAIN frames[t] BY <1>1, <2>3
      <3>7. Fresh(t, Top(t), b) BY <1>1, <3>2, <3>6 DEF TaskInv
      <3>8. Fresh(t, f, b) BY <3>3, <3>7 DEF Fresh
      <3> QED BY <1>1, <3>5, <3>8 DEF TaskInv
    <2>4. Dependency(t) => frames[t] # <<>> BY DEF Dependency, InstanceInv, StackInv, ContainerTypeOK
    <2> QED BY <2>1, <2>2, <2>3, <2>4 DEF Start, Dependency, Construct, Resume, Unwind
  <1> QED BY <1>1, <1>2, <1>3, <1>4, NothingStored

LEMMA ReturnKeeps ==
  ASSUME PlainTransients, NEW b \in Tasks, InstanceInv(b), NEW t \in Tasks, Return(t)
  PROVE  InstanceInv(b)'
  <1>1. /\ StackInv /\ TaskInv(t, b) /\ Step(t) /\ op[t] = "value" /\ Right(t, Wanted(t), value[t])
        /\ UNCHANGED <<instances, cache, made, goals>> /\ frames \in [Tasks -> Seq(Frames)]
        /\ op \in [Tasks -> Ops] /\ given \in [Tasks -> Seq(Inst)]
    BY DEF InstanceInv, TaskInv, StackInv, ContainerTypeOK, Step, Return
  <1>2. op'[t] # "value" BY <1>1 DEF Return
  <1>3. CASE frames[t] # <<>>
    <2>1. given' = given BY <1>3 DEF Return
    <2>2. \A i \in DOMAIN given'[t] : Right(t, goals'[t][i], given'[t][i]) BY <1>1, <2>1 DEF TaskInv
    <2>3. PICK f : f = Supplied(Top(t), value[t]) OBVIOUS
    <2>4. Top(t) \in Frames /\ Top(t) = frames[t][Len(frames[t])] /\ Len(frames[t]) \in DOMAIN frames[t]
      BY <1>1, <1>3, TopTyped DEF Top
    <2>5. value[t] \in Inst BY <1>1 DEF StackInv, ContainerTypeOK
    <2>6. f \in Frames /\ f.tok = Top(t).tok /\ f.reqs = Top(t).reqs \cup value[t].reqs
      BY <2>3, <2>4, <2>5 DEF Supplied, Frames, Inst
    <2>7. frames'[t] = [frames[t] EXCEPT ![Len(frames[t])] = f] BY <1>1, <1>3, <2>3, <2>4 DEF Return
    <2>8. \A i \in DOMAIN frames'[t] : i \in DOMAIN frames[t] /\ (frames'[t][i] = frames[t][i] \/ frames'[t][i] = f)
      <3>1. Stacked(frames[t]) BY <1>1 DEF StackInv, Working
      <3>2. f.tok = frames[t][Len(frames[t])].tok BY <2>4, <2>6
      <3> QED BY <1>3, <2>6, <2>7, <3>1, <3>2, Bump
    <2>9. Fresh(t, Top(t), b) BY <1>1, <2>4 DEF TaskInv
    <2>10. Fresh(t, f, b)
      <3>1. Wanted(t) \in Tokens /\ Wanted(t) \in Needing(Top(t).tok) BY <1>1, <1>3, WantedTyped
      <3>2. Scope(Wanted(t)) = "request" => Scope(Top(t).tok) = "request" BY <2>4, <3>1, ScopeUp DEF Frames
      <3>3. value[t].reqs \subseteq Bound(t, Wanted(t)) BY <1>1 DEF Right
      <3>4. value[t].reqs \subseteq Bound(t, Top(t).tok) BY <3>2, <3>3 DEF Bound
      <3> QED BY <2>6, <2>9, <3>4 DEF Fresh
    <2>11. \A i \in DOMAIN frames'[t] : Fresh(t, frames'[t][i], b) BY <1>1, <2>8, <2>10 DEF TaskInv
    <2> QED BY <1>1, <1>2, <2>2, <2>11, NothingStored
  <1>4. CASE frames[t] = <<>>
    <2>1. frames' = frames /\ given' = [given EXCEPT ![t] = Append(@, value[t])] BY <1>4 DEF Return
    <2>2. \A i \in DOMAIN frames'[t] : Fresh(t, frames'[t][i], b) BY <1>1, <2>1 DEF TaskInv
    <2>3. \A i \in DOMAIN given'[t] : \/ (i \in DOMAIN given[t] /\ given'[t][i] = given[t][i])
                                       \/ (i = Len(given[t]) + 1 /\ given'[t][i] = value[t])
      <3>1. given'[t] = Append(given[t], value[t]) /\ given[t] \in Seq(Inst) BY <1>1, <2>1
      <3> QED BY <3>1
    <2>4. Wanted(t) = goals[t][Len(given[t]) + 1] BY <1>4 DEF Wanted
    <2>5. \A i \in DOMAIN given'[t] : Right(t, goals'[t][i], given'[t][i]) BY <1>1, <2>3, <2>4 DEF TaskInv
    <2> QED BY <1>1, <1>2, <2>2, <2>5, NothingStored
  <1> QED BY <1>3, <1>4

LEMMA StoreKeeps ==
  ASSUME RequestsInOrder, NEW b \in Tasks, InstanceInv(b), NEW t \in Tasks, Store(t)
  PROVE  InstanceInv(b)'
  <1>1. /\ StackInv /\ Ordered /\ Held /\ TaskInv(t, b) /\ Step(t) /\ op[t] = "made" /\ frames[t] # <<>>
        /\ Stacked(frames[t]) /\ ContainerTypeOK
    BY DEF InstanceInv, StackInv, ContainerTypeOK, Working, Step, Store
  <1>2. StackInv' /\ Ordered' /\ Only(t) BY <1>1, StackStep, OrderedStep, StepOnly DEF ContainerNext, StackInv
  <1>3. PICK k \in Tokens, inst \in Inst : k = Top(t).tok /\ inst = [no |-> made[k] + 1, reqs |-> HeldBy(t)]
    BY <1>1, TopTyped, InstTyped
  <1>4. /\ made' = [made EXCEPT ![k] = @ + 1] /\ instances' = SingletonsAfter(k, inst)
        /\ cache' = IF Scope(k) = "request" /\ InRequest(t) THEN [cache EXCEPT ![ReqOf[t]][k] = inst] ELSE cache
        /\ value' = [value EXCEPT ![t] = inst] /\ frames' = [frames EXCEPT ![t] = Popped(t)]
        /\ resolving' = InProgressAfter(t) /\ op' = [op EXCEPT ![t] = "value"]
        /\ UNCHANGED <<goals, given>>
    BY <1>3 DEF Store
  <1>5. Top(t) = frames[t][Len(frames[t])] /\ Len(frames[t]) \in DOMAIN frames[t] /\ Top(t) \in Frames
    <2>1. frames[t] \in Seq(Frames) BY <1>1 DEF Stacked
    <2> QED BY <1>1, <2>1, TopTyped DEF Top
  <1>6. Fresh(t, Top(t), b) BY <1>1, <1>5 DEF TaskInv
  <1>7. inst.no # 0 /\ inst # Nothing /\ inst.reqs \subseteq Bound(t, k)
    <2>1. made[k] \in Nat BY <1>1 DEF ContainerTypeOK
    <2>2. Own[k] = "request" => Scope(k) = "request" BY DEF Scope
    <2>3. HeldBy(t) \subseteq Bound(t, k) BY <1>3, <1>6, <2>2 DEF HeldBy, Fresh, Bound
    <2> QED BY <1>3, <2>1, <2>3 DEF Nothing
  <1>8. /\ \A j \in Tokens : (j # k \/ Scope(k) # "singleton") => instances'[j] = instances[j]
        /\ Scope(k) = "singleton" => instances'[k] = inst /\ instances[k] = Nothing /\ t = b
        /\ \A j \in Tokens : j # k => made'[j] = made[j]
        /\ made'[k] = made[k] + 1
    BY <1>1, <1>3, <1>4, <1>6 DEF SingletonsAfter, ContainerTypeOK, Fresh
  <1>9. /\ \A r \in Requests, j \in Tokens :
             (j # k \/ Scope(k) # "request" \/ r # ReqOf[t]) => cache'[r][j] = cache[r][j]
        /\ Scope(k) = "request" /\ InRequest(t) => cache'[ReqOf[t]][k] = inst /\ cache[ReqOf[t]][k] = Nothing
    BY <1>1, <1>3, <1>4, <1>6 DEF InRequest, ContainerTypeOK, Fresh
  <1>10. Grow BY <1>8, <1>9 DEF Grow, InRequest
  <1>11. Held'
    <2>1. ASSUME NEW j \in Tokens PROVE instances'[j].reqs = {}
      <3>1. instances[j].reqs = {} BY <1>1 DEF Held
      <3>2. Scope(k) = "singleton" => inst.reqs = {} BY <1>7 DEF Bound
      <3> QED BY <1>8, <3>1, <3>2
    <2>2. ASSUME NEW r \in Requests, NEW j \in Tokens PROVE cache'[r][j].reqs \subseteq {r}
      <3>1. cache[r][j].reqs \subseteq {r} BY <1>1 DEF Held
      <3>2. Scope(k) = "request" => inst.reqs \subseteq {ReqOf[t]} BY <1>7 DEF Bound
      <3> QED BY <1>9, <3>1, <3>2 DEF InRequest
    <2>3. ASSUME NEW j \in Tokens, Scope(j) = "singleton" PROVE made'[j] <= 1 /\ (instances'[j] = Nothing => made'[j] = 0)
      <3>1. made[j] <= 1 /\ (instances[j] = Nothing => made[j] = 0) /\ made[j] \in Nat
        BY <1>1, <2>3 DEF Held, ContainerTypeOK
      <3>2. CASE j = k BY <1>7, <1>8, <2>3, <3>1, <3>2
      <3>3. CASE j # k BY <1>8, <3>1, <3>3
      <3> QED BY <3>2, <3>3
    <2> QED BY <2>1, <2>2, <2>3 DEF Held, Scope
  <1>12. ASSUME NEW u \in Tasks, NEW i \in DOMAIN frames[u], u # t \/ i # Len(frames[t])
         PROVE  \E f : f = frames[u][i] /\ Fresh(u, f, b)'
    <2>1. PICK f : f = frames[u][i] OBVIOUS
    <2>2. Fresh(u, f, b) /\ f \in Frames
      <3>1. frames[u] \in Seq(Frames) BY <1>1 DEF ContainerTypeOK
      <3> QED BY <2>1, <3>1 DEF InstanceInv, TaskInv
    <2>3. f.tok \in Tokens /\ f.tok \in ToksOf(frames[u]) /\ k \in ToksOf(frames[t])
      BY <1>3, <1>5, <2>1, <2>2 DEF Frames, ToksOf
    <2>4. u = t => f.tok # k BY <1>1, <1>3, <1>5, <1>12, <2>1 DEF Stacked
    <2>5. Scope(f.tok) = "singleton" => f.tok # k BY <1>8, <2>2, <2>4 DEF Fresh
    <2>6. Scope(f.tok) = "request" /\ InRequest(u) /\ ReqOf[u] = ReqOf[t] => f.tok # k
      BY <2>3, <2>4, OneAtWork DEF InRequest
    <2>7. Scope(f.tok) = "singleton" => instances'[f.tok] = instances[f.tok] BY <1>8, <2>3, <2>5
    <2>8. Scope(f.tok) = "request" /\ InRequest(u) => cache'[ReqOf[u]][f.tok] = cache[ReqOf[u]][f.tok]
      BY <1>9, <2>3, <2>6 DEF InRequest
    <2>9. Fresh(u, f, b)' BY <2>2, <2>7, <2>8 DEF Fresh, Scope, Bound, InRequest
    <2> QED BY <2>1, <2>9
  <1>13. \A u \in Tasks \ {t} : TaskInv(u, b)' BY <1>2, <1>10, <1>12, OthersKept
  <1>14. TaskInv(t, b)'
    <2>1. frames'[t] = SubSeq(frames[t], 1, Len(frames[t]) - 1) /\ op'[t] = "value" /\ value'[t] = inst
      BY <1>1, <1>4 DEF Popped, ContainerTypeOK
    <2>2. \A i \in DOMAIN frames'[t] : i \in DOMAIN frames[t] /\ frames'[t][i] = frames[t][i] /\ i # Len(frames[t])
      <3>1. frames[t] \in Seq(Frames) BY <1>1 DEF Stacked
      <3> QED BY <1>1, <2>1, <3>1
    <2>3. ASSUME NEW i \in DOMAIN frames'[t] PROVE Fresh(t, frames[t][i], b)'
      <3>1. PICK f : f = frames[t][i] /\ Fresh(t, f, b)' BY <1>12, <2>2, <2>3
      <3>2. f = frames'[t][i] BY <2>2, <2>3, <3>1
      <3> QED BY <3>1, <3>2
    <2>4. Wanted(t)' = k BY <1>1, <1>3, <1>4, <2>1, PopStep
    <2>5. Right(t, k, inst)' BY <1>7, <1>8, <1>9 DEF Right, Scope, Bound, InRequest
    <2>6. ASSUME NEW i \in DOMAIN given'[t] PROVE Right(t, goals[t][i], given[t][i])'
      <3>1. PICK j, v : j = goals[t][i] /\ v = given[t][i] OBVIOUS
      <3>2. Right(t, j, v) BY <1>1, <1>4, <2>6, <3>1 DEF TaskInv
      <3>3. Right(t, j, v)' BY <1>10, <3>2, RightKept
      <3>4. j = goals'[t][i] /\ v = given'[t][i] BY <1>4, <3>1
      <3> QED BY <3>3, <3>4
    <2>7. Right(t, Wanted(t), value[t])' BY <2>1, <2>4, <2>5
    <2> QED BY <2>3, <2>6, <2>7 DEF TaskInv
  <1> QED BY <1>2, <1>11, <1>13, <1>14 DEF InstanceInv

LEMMA InstanceStep ==
  ASSUME RequestsInOrder, PlainTransients, NEW b \in Tasks, Boots(b), InstanceInv(b), [ContainerNext]_containerVars
  PROVE  InstanceInv(b)'
  <1>1. CASE UNCHANGED containerVars
    <2>1. StackInv' BY <1>1, StackStep DEF InstanceInv
    <2>2. Ordered' BY <1>1 DEF containerVars, InstanceInv, Ordered
    <2>3. Held' BY <1>1 DEF containerVars, InstanceInv, Held, Scope
    <2>4. ASSUME NEW t \in Tasks PROVE TaskInv(t, b)'
      <3>1. Wanted(t)' = Wanted(t) BY <1>1 DEF containerVars, Wanted, NextDep, Top
      <3>2. \A k, v : Right(t, k, v) => Right(t, k, v)' BY <1>1 DEF containerVars, Right, InRequest, Scope, Bound
      <3>3. \A f : Fresh(t, f, b) => Fresh(t, f, b)' BY <1>1 DEF containerVars, Fresh, InRequest, Scope, Bound
      <3>4. TaskInv(t, b) BY DEF InstanceInv
      <3>5. ASSUME NEW i \in DOMAIN frames'[t] PROVE Fresh(t, frames[t][i], b)'
        <4>1. PICK f : f = frames[t][i] OBVIOUS
        <4>2. Fresh(t, f, b)' /\ f = frames'[t][i] BY <1>1, <3>3, <3>4, <3>5, <4>1 DEF TaskInv, containerVars
        <4> QED BY <4>2
      <3>6. ASSUME op'[t] = "value" PROVE Right(t, Wanted(t), value[t])'
        <4>1. PICK k, v : k = Wanted(t) /\ v = value[t] OBVIOUS
        <4>2. Right(t, k, v)' /\ v = value'[t] BY <1>1, <3>2, <3>4, <3>6, <4>1 DEF TaskInv, containerVars
        <4> QED BY <3>1, <4>1, <4>2
      <3>7. ASSUME NEW i \in DOMAIN given'[t] PROVE Right(t, goals[t][i], given[t][i])'
        <4>1. PICK k, v : k = goals[t][i] /\ v = given[t][i] OBVIOUS
        <4>2. Right(t, k, v)' /\ k = goals'[t][i] /\ v = given'[t][i]
          BY <1>1, <3>2, <3>4, <3>7, <4>1 DEF TaskInv, containerVars
        <4> QED BY <4>2
      <3> QED BY <3>5, <3>6, <3>7 DEF TaskInv
    <2> QED BY <2>1, <2>2, <2>3, <2>4 DEF InstanceInv
  <1>2. ASSUME NEW t \in Tasks, Step(t) PROVE InstanceInv(b)'
    BY <1>2, CallKeeps, DependencyKeeps, ReturnKeeps, StoreKeeps DEF Step
  <1> QED BY <1>1, <1>2 DEF ContainerNext

LEMMA InstanceInit == ASSUME NEW b \in Tasks, ContainerInit PROVE InstanceInv(b)
  <1>1. StackInv BY StackInit
  <1>2. Ordered BY DEF ContainerInit, Ordered
  <1>3. Held BY DEF ContainerInit, Held, Nothing
  <1>4. \A t \in Tasks : TaskInv(t, b) BY DEF ContainerInit, TaskInv
  <1> QED BY <1>1, <1>2, <1>3, <1>4 DEF InstanceInv

LEMMA OneMeans == ASSUME NEW b \in Tasks, InstanceInv(b) PROVE OneInstance
  <1>1. \A t \in Tasks : \A i \in DOMAIN given[t] : Right(t, goals[t][i], given[t][i]) BY DEF InstanceInv, TaskInv
  <1>2. OneSingleton BY <1>1 DEF OneSingleton, InstanceInv, Held, Right
  <1>3. OnePerRequest BY <1>1 DEF OnePerRequest, Right, InRequest
  <1>4. NoCrossRequestBleed BY <1>1 DEF NoCrossRequestBleed, Right, Bound
  <1> QED BY <1>2, <1>3, <1>4 DEF OneInstance

\* Every singleton is made once, every request-scoped provider once per request, and
\* no task gets an instance that holds one of another request: when the lifespan
\* makes the singletons before requests are served, and a request's tasks
\* do not race.
THEOREM OneAlways ==
  ASSUME EagerSingletons, RequestsInOrder, PlainTransients
  PROVE  ContainerSpec => []OneInstance
  <1>1. PICK b \in Tasks : Boots(b) BY DEF EagerSingletons
  <1>2. ContainerInit => InstanceInv(b) BY InstanceInit
  <1>3. InstanceInv(b) /\ [ContainerNext]_containerVars => InstanceInv(b)' BY <1>1, InstanceStep
  <1>4. InstanceInv(b) => OneInstance BY OneMeans
  <1> QED BY <1>2, <1>3, <1>4, PTL DEF ContainerSpec

-----------------------------------------------------------------------------
(* Cycles among tasks that share a context *)

\* What task t may resolve.
Wants(t) == {k \in Tokens : \E g \in Goals[t] : \E i \in DOMAIN g : k = g[i] \/ k \in Needs[g[i]]}

\* Tasks that share a context both need only what awaits no async factory once the
\* singletons are there.
Apart ==
  \A t, u \in Tasks : t # u /\ Context(t) = Context(u) =>
    \A k \in Wants(t) \cap Wants(u), n \in Async :
      Scope(n) # "singleton" => n # k /\ n \notin Needs[k]

AwaitsAsync == \A t \in Tasks : op[t] = "await" => Top(t).tok \in Async

LEMMA AwaitsStep == ASSUME StackInv, AwaitsAsync, [ContainerNext]_containerVars PROVE AwaitsAsync'
  <1>1. CASE UNCHANGED containerVars BY <1>1 DEF containerVars, AwaitsAsync, Top
  <1>2. ASSUME NEW t \in Tasks, Step(t) PROVE AwaitsAsync'
    <2>1. Only(t) /\ op \in [Tasks -> Ops] BY <1>2, StepOnly DEF StackInv, ContainerTypeOK
    <2>2. op'[t] = "await" => Top(t)' = Top(t) /\ Top(t).tok \in Async
      BY <1>2, <2>1 DEF Step, Start, Call, Dependency, Construct, Resume, Store, Return, Unwind, Top
    <2>3. \A u \in Tasks \ {t} : op'[u] = op[u] /\ Top(u)' = Top(u) BY <2>1 DEF Only, Top
    <2> QED BY <2>2, <2>3 DEF AwaitsAsync
  <1> QED BY <1>1, <1>2 DEF ContainerNext

\* The tokens of a task's calls are among those it wants.
LEMMA FramesWanted ==
  ASSUME StackInv, NEW t \in Tasks, NEW k
  PROVE  /\ k \in ToksOf(frames[t]) => k \in Wants(t)
         /\ op[t] = "call" => arg[t] \in Wants(t)
  <1>1. PICK g : g = goals[t] OBVIOUS
  <1>2. /\ Working(t) /\ g \in Seq(Tokens) /\ Stacked(frames[t]) /\ given[t] \in Seq(Inst)
        /\ op \in [Tasks -> Ops]
    BY <1>1 DEF StackInv, ContainerTypeOK, Working
  <1>3. PICK n : n = Len(given[t]) + 1 OBVIOUS
  <1>4. ASSUME op[t] \notin {"idle", "ended"} PROVE g \in Goals[t] /\ n \in DOMAIN g /\ g[n] \in Tokens
    BY <1>1, <1>2, <1>3, <1>4 DEF Working
  <1>5. ASSUME NEW j, j \in ToksOf(frames[t])
        PROVE  /\ j \in Tokens /\ op[t] \notin {"idle", "ended"} /\ (j = g[n] \/ j \in Needs[g[n]])
    <2>1. PICK i \in DOMAIN frames[t] : frames[t][i].tok = j BY <1>5 DEF ToksOf
    <2>2. frames[t] \in Seq(Frames) /\ frames[t] # <<>> /\ 1 \in DOMAIN frames[t] /\ (i = 1 \/ 1 < i)
      BY <1>2, <2>1 DEF Stacked
    <2>3. frames[t][i] \in Frames BY <2>2
    <2>4. frames[t][1].tok = g[n] /\ op[t] \notin {"idle", "ended"} BY <1>1, <1>2, <1>3, <2>2 DEF Working
    <2> QED BY <1>2, <2>1, <2>2, <2>3, <2>4 DEF Stacked, Frames
  <1>6. ASSUME op[t] = "call" PROVE arg[t] \in Wants(t)
    <2>1. arg[t] \in Tokens /\ arg[t] = Wanted(t) BY <1>2, <1>6 DEF StackInv, ContainerTypeOK, Working
    <2>2. CASE frames[t] = <<>>
      <3>1. arg[t] = g[n] BY <1>1, <1>3, <2>1, <2>2 DEF Wanted
      <3> QED BY <1>4, <1>6, <2>1, <3>1 DEF Wants
    <2>3. CASE frames[t] # <<>>
      <3>1. Asks(Top(t), arg[t]) BY <1>2, <1>6, <2>1, <2>3 DEF Working
      <3>2. Top(t) \in Frames BY <2>3, TopTyped
      <3>3. Top(t).tok \in ToksOf(frames[t])
        <4>1. Len(frames[t]) \in DOMAIN frames[t] BY <1>2, <2>3 DEF Stacked
        <4> QED BY <4>1 DEF Top, ToksOf
      <3>4. g \in Goals[t] /\ n \in DOMAIN g /\ g[n] \in Tokens BY <1>4, <1>6
      <3>5. arg[t] \in Needs[g[n]] BY <1>5, <2>1, <3>1, <3>2, <3>3, <3>4, NeedsClosed
      <3> QED BY <2>1, <3>4, <3>5 DEF Wants
    <2> QED BY <2>2, <2>3
  <1>7. k \in ToksOf(frames[t]) => k \in Wants(t) BY <1>4, <1>5 DEF Wants
  <1> QED BY <1>6, <1>7

\* While a task runs, the others await, and what they await is not a singleton.
LEMMA OwnFrame ==
  ASSUME NEW b \in Tasks, Boots(b), Apart, InstanceInv(b), AwaitsAsync, NEW t \in Tasks, Call(t)
  PROVE  FoundInOwn(t)
  <1>1. StackInv /\ current = {t} /\ op[t] = "call" BY DEF InstanceInv, Call
  <1>2. SUFFICES ASSUME NEW u \in Tasks, u # t, Context(u) = Context(t), arg[t] \in ToksOf(frames[u]) PROVE FALSE
    <2>1. Context(t) \in Tasks BY ContainerAssumption DEF Context
    <2> QED BY <1>1, <2>1 DEF FoundInOwn, InProgress, StackInv, Framed
  <1>3. op[u] = "await" /\ frames[u] # <<>> /\ Stacked(frames[u])
    <2>1. frames[u] # <<>> BY <1>2 DEF ToksOf
    <2> QED BY <1>1, <1>2, <2>1 DEF StackInv, ContainerTypeOK, Working
  <1>4. PICK i \in DOMAIN frames[u] : frames[u][i].tok = arg[t] BY <1>2 DEF ToksOf
  <1>5. /\ Top(u) = frames[u][Len(frames[u])] /\ Len(frames[u]) \in DOMAIN frames[u]
        /\ i = Len(frames[u]) \/ i < Len(frames[u])
    BY <1>3, <1>4 DEF Top, Stacked
  <1>6. Top(u).tok = arg[t] \/ Top(u).tok \in Needs[arg[t]] BY <1>3, <1>4, <1>5 DEF Stacked
  <1>7. Top(u).tok \in Async BY <1>3 DEF AwaitsAsync
  <1>8. arg[t] \in Wants(t) /\ arg[t] \in Wants(u) BY <1>1, <1>2, FramesWanted
  <1>9. Scope(Top(u).tok) = "singleton" BY <1>2, <1>6, <1>7, <1>8 DEF Apart
  <1>10. u = b BY <1>5, <1>9 DEF InstanceInv, TaskInv, Fresh
  <1>11. op[b] = "ended" BY <1>1, <1>2, <1>10 DEF InstanceInv, Ordered, Boots
  <1> QED BY <1>3, <1>10, <1>11

\* The same when tasks spawned inside an async factory share the tokens in progress of
\* the task that awaits it, if the lifespan made the singletons and these tasks
\* need nothing else in common that awaits.
THEOREM CircularAmongShared ==
  ASSUME EagerSingletons, RequestsInOrder, PlainTransients, Apart
  PROVE  ContainerSpec => []CircularOnlyWhenReal
  <1>1. PICK b \in Tasks : Boots(b) BY DEF EagerSingletons
  <1> DEFINE Inv == InstanceInv(b) /\ AwaitsAsync /\ CircularIsReal
  <1>2. ContainerInit => Inv
    <2>1. ContainerInit => AwaitsAsync /\ CircularIsReal BY DEF ContainerInit, AwaitsAsync, CircularIsReal
    <2> QED BY <2>1, InstanceInit
  <1>3. Inv /\ [ContainerNext]_containerVars => Inv'
    <2> SUFFICES ASSUME Inv, [ContainerNext]_containerVars PROVE Inv' OBVIOUS
    <2>1. StackInv BY DEF InstanceInv
    <2>2. \A t \in Tasks : Call(t) => FoundInOwn(t) BY <1>1, OwnFrame
    <2>3. InstanceInv(b)' BY <1>1, InstanceStep
    <2>4. AwaitsAsync' BY <2>1, AwaitsStep
    <2>5. CircularIsReal' BY <2>1, <2>2, CircularStep
    <2> QED BY <2>3, <2>4, <2>5
  <1>4. Inv => CircularOnlyWhenReal BY FramedMeans DEF InstanceInv, StackInv, CircularOnlyWhenReal
  <1> HIDE DEF Inv
  <1> QED BY <1>2, <1>3, <1>4, PTL DEF ContainerSpec

-----------------------------------------------------------------------------
(* The passes of hooks *)

\* The kept instances are those found before place p, in the order first found.
KeptUpTo(vs, ks, p) ==
  /\ ks \in Seq(Instances)
  /\ \A x \in Instances : Among(ks, x) <=> \E q \in 1..(p - 1) : vs[q] = x
  /\ \A i, j \in DOMAIN ks : i < j => Sooner(vs, ks[i], ks[j])

AllKept(vs, ks) == KeptUpTo(vs, ks, Len(vs) + 1)

\* The calls so far: those of the passes before the n-th, and of the first
\* instances of that one.
CalledUpTo(vs, ks, cs, n, i) ==
  \A c \in Due(vs) : Among(cs, c) <=>
    \/ Stage[c[1]] < n
    \/ Stage[c[1]] = n /\ \E m \in 1..(i - 1) : Turn(c[1], ks, m) = c[2]

\* All of them due, and in order.
Ordering(vs, cs) ==
  /\ cs \in Seq(HookNames \X Instances)
  /\ \A i \in DOMAIN cs : cs[i] \in Due(vs)
  /\ \A i, j \in DOMAIN cs : i < j => Before(vs, cs[i], cs[j])

\* How far a life has come: to the i-th instance of the n-th pass.
CameTo(vs, ks, cs, n, i) == Ordering(vs, cs) /\ CalledUpTo(vs, ks, cs, n, i)

LEMMA StageTyped ==
  /\ \A h \in HookNames : Stage[h] \in 1..5
  /\ \A g, h \in HookNames : Stage[g] = Stage[h] => g = h
  /\ ShutdownHooks = {"on_module_destroy", "before_application_shutdown", "on_application_shutdown"}
  /\ Stage["on_module_init"] = 1 /\ Stage["on_application_bootstrap"] = 2 /\ Stage["on_module_destroy"] = 3
  /\ Stage["before_application_shutdown"] = 4 /\ Stage["on_application_shutdown"] = 5
  BY DEF Stage, HookNames, ShutdownHooks

\* What is found before something kept is kept before it.
LEMMA SoonerKept ==
  ASSUME NEW vs \in Seq(Instances), NEW ks, NEW p \in 1..(Len(vs) + 1), KeptUpTo(vs, ks, p),
         NEW x \in Instances, NEW m \in DOMAIN ks, Sooner(vs, x, ks[m])
  PROVE  \E k \in DOMAIN ks : ks[k] = x /\ k < m
  <1>1. PICK i \in DOMAIN vs : vs[i] = x /\ \A j \in 1..i : vs[j] # ks[m] BY DEF Sooner
  <1>2. ks \in Seq(Instances) /\ DOMAIN ks = 1..Len(ks) /\ DOMAIN vs = 1..Len(vs) BY DEF KeptUpTo
  <1>3. PICK q \in 1..(p - 1) : vs[q] = ks[m]
    <2>1. ks[m] \in Instances /\ Among(ks, ks[m]) BY <1>2 DEF Among
    <2> QED BY <2>1 DEF KeptUpTo
  <1>4. i < q BY <1>1, <1>2, <1>3
  <1>5. PICK k \in DOMAIN ks : ks[k] = x
    <2>1. i \in 1..(p - 1) BY <1>2, <1>3, <1>4
    <2>2. Among(ks, x) BY <1>1, <2>1 DEF KeptUpTo
    <2> QED BY <2>2 DEF Among
  <1>6. k # m BY <1>1, <1>2, <1>5
  <1>7. ~(m < k)
    <2>1. SUFFICES ASSUME m < k PROVE FALSE OBVIOUS
    <2>2. Sooner(vs, ks[m], x) BY <1>5, <2>1 DEF KeptUpTo
    <2>3. PICK r \in DOMAIN vs : vs[r] = ks[m] /\ \A j \in 1..r : vs[j] # x BY <2>2 DEF Sooner
    <2> QED BY <1>1, <1>2, <2>3
  <1> QED BY <1>2, <1>5, <1>6, <1>7

\* The instance whose turn is the m-th, and the turn of a kept instance.
LEMMA Turns ==
  ASSUME NEW ks \in Seq(Instances), NEW h \in HookNames, NEW m \in DOMAIN ks
  PROVE  /\ Turn(h, ks, m) \in Instances /\ Among(ks, Turn(h, ks, m))
         /\ \E k \in 1..Len(ks) : Turn(h, ks, k) = ks[m]
  <1>1. Len(ks) \in Nat /\ m \in 1..Len(ks) OBVIOUS
  <1>2. CASE Stage[h] > 2
    <2>1. Len(ks) + 1 - m \in 1..Len(ks) /\ Len(ks) + 1 - (Len(ks) + 1 - m) = m BY <1>1
    <2>2. Turn(h, ks, m) = ks[Len(ks) + 1 - m] BY <1>2 DEF Turn
    <2>3. ks[Len(ks) + 1 - m] \in Instances BY <2>1
    <2>4. Turn(h, ks, Len(ks) + 1 - m) = ks[m] BY <1>2, <2>1 DEF Turn
    <2>5. Among(ks, Turn(h, ks, m)) BY <2>1, <2>2 DEF Among
    <2> QED BY <2>1, <2>2, <2>3, <2>4, <2>5
  <1>3. CASE ~(Stage[h] > 2)
    <2>1. \A k \in 1..Len(ks) : Turn(h, ks, k) = ks[k] BY <1>3 DEF Turn
    <2> QED BY <1>1, <2>1 DEF Among
  <1> QED BY <1>2, <1>3

\* So far as documented: what precedes a call was called.
LEMMA CameToDocumented ==
  ASSUME NEW vs \in Seq(Instances), NEW ks, NEW p \in 1..(Len(vs) + 1), KeptUpTo(vs, ks, p),
         NEW cs, NEW n \in 1..6, NEW i \in 1..(Len(ks) + 1), n > 2 => p = Len(vs) + 1,
         CameTo(vs, ks, cs, n, i)
  PROVE  AsDocumented(vs, cs)
  <1>1. Ordering(vs, cs) /\ CalledUpTo(vs, ks, cs, n, i) BY DEF CameTo
  <1>2. SUFFICES ASSUME NEW k \in DOMAIN cs, NEW c \in Due(vs), Before(vs, c, cs[k])
                 PROVE  Among(cs, c)
    BY <1>1 DEF AsDocumented, Ordering
  <1>3. PICK d \in Due(vs) : d = cs[k] /\ Among(cs, d) BY <1>1 DEF Ordering, Among
  <1>4. /\ c[1] \in HookNames /\ c[2] \in Instances /\ d[1] \in HookNames /\ d[2] \in Instances
        /\ Stage[c[1]] \in 1..5 /\ Stage[d[1]] \in 1..5
    BY StageTyped DEF Due
  <1>5. \/ Stage[d[1]] < n
        \/ Stage[d[1]] = n /\ \E m \in 1..(i - 1) : Turn(d[1], ks, m) = d[2]
    BY <1>1, <1>3 DEF CalledUpTo
  <1>6. CASE Stage[c[1]] < n BY <1>1, <1>6 DEF CalledUpTo
  <1>7. CASE ~(Stage[c[1]] < n)
    <2>1. c[1] = d[1] /\ Stage[d[1]] = n BY <1>2, <1>3, <1>4, <1>5, <1>7 DEF Before
    <2>2. PICK m \in 1..(i - 1) : Turn(d[1], ks, m) = d[2] BY <1>5, <2>1
    <2>3. ks \in Seq(Instances) /\ m \in DOMAIN ks /\ Len(ks) \in Nat
      <3>1. ks \in Seq(Instances) BY DEF KeptUpTo
      <3> QED BY <2>2, <3>1
    <2>4. \E l \in 1..(i - 1) : Turn(c[1], ks, l) = c[2]
      <3>1. CASE n <= 2
        <4>1. Sooner(vs, c[2], ks[m]) BY <1>2, <1>3, <2>1, <2>2, <3>1 DEF Before, Turn
        <4>2. PICK l \in DOMAIN ks : ks[l] = c[2] /\ l < m BY <1>4, <2>3, <4>1, SoonerKept
        <4>3. l \in 1..(i - 1) /\ Turn(c[1], ks, l) = c[2] BY <2>1, <2>3, <3>1, <4>2 DEF Turn
        <4> QED BY <4>3
      <3>2. CASE n > 2
        <4>1. PICK a \in DOMAIN ks : a = Len(ks) + 1 - m /\ ks[a] = d[2] BY <2>1, <2>2, <2>3, <3>2 DEF Turn
        <4>2. Among(vs, c[2]) BY DEF Due
        <4>3. PICK b \in DOMAIN ks : ks[b] = c[2]
          <5>1. \E q \in 1..(p - 1) : vs[q] = c[2] BY <3>2, <4>2 DEF Among
          <5> QED BY <1>4, <5>1 DEF KeptUpTo, Among
        <4>4. Sooner(vs, ks[a], ks[b]) BY <1>2, <1>3, <2>1, <3>2, <4>1, <4>3 DEF Before
        <4>5. ks[a] \in Instances BY <2>3
        <4>6. PICK e \in DOMAIN ks : ks[e] = ks[a] /\ e < b BY <4>4, <4>5, SoonerKept
        <4>7. e = a
          <5>1. ~(e < a) /\ ~(a < e)
            <6>1. \A x \in Instances : ~Sooner(vs, x, x) BY DEF Sooner
            <6> QED BY <4>5, <4>6, <6>1 DEF KeptUpTo
          <5> QED BY <2>3, <5>1
        <4>8. Len(ks) + 1 - b \in 1..(i - 1) /\ Turn(c[1], ks, Len(ks) + 1 - b) = c[2]
          BY <2>1, <2>3, <3>2, <4>1, <4>3, <4>6, <4>7 DEF Turn
        <4> QED BY <4>8
      <3> QED BY <3>1, <3>2
    <2>5. Stage[c[1]] = n BY <2>1
    <2> QED BY <1>1, <2>4, <2>5 DEF CalledUpTo
  <1> QED BY <1>6, <1>7

\* The next instance of a pass has its turn.
LEMMA HookStep ==
  ASSUME NEW vs \in Seq(Instances), NEW ks, NEW p \in 1..(Len(vs) + 1), KeptUpTo(vs, ks, p),
         NEW cs, NEW h \in HookNames, NEW i \in DOMAIN ks,
         CameTo(vs, ks, cs, Stage[h], i)
  PROVE  CameTo(vs, ks, Calling(cs, h, Turn(h, ks, i)), Stage[h], i + 1)
  <1> DEFINE x == Turn(h, ks, i)
             new == Calling(cs, h, x)
             n == Stage[h]
  <1>1. /\ ks \in Seq(Instances) /\ DOMAIN ks = 1..Len(ks) /\ Len(ks) \in Nat
        /\ i \in 1..Len(ks) /\ DOMAIN vs = 1..Len(vs) /\ Len(vs) \in Nat
    BY DEF KeptUpTo
  <1>2. n \in 1..5 BY StageTyped
  <1>3. Ordering(vs, cs) /\ CalledUpTo(vs, ks, cs, n, i) BY DEF CameTo
  <1>4. x \in Instances /\ Among(ks, x) BY <1>1, Turns
  <1>5. Among(vs, x)
    <2>1. PICK q \in 1..(p - 1) : vs[q] = x BY <1>4 DEF KeptUpTo
    <2>2. q \in DOMAIN vs BY <1>1
    <2> QED BY <2>1, <2>2 DEF Among
  <1>6. \A c \in Due(vs) : /\ c[1] \in HookNames /\ c[2] \in Instances /\ c = <<c[1], c[2]>>
                           /\ Stage[c[1]] \in 1..5 /\ (Stage[c[1]] = n <=> c[1] = h)
    BY StageTyped DEF Due
  <1>7. 1..((i + 1) - 1) = 1..(i - 1) \cup {i} BY <1>1
  <1>8. CASE ~Has(h, x)
    <2>1. new = cs BY <1>8 DEF Calling
    <2>2. \A c \in Due(vs) : ~(Stage[c[1]] = n /\ Turn(c[1], ks, i) = c[2])
      BY <1>6, <1>8 DEF Due
    <2>3. CalledUpTo(vs, ks, cs, n, i + 1) BY <1>3, <1>7, <2>2 DEF CalledUpTo
    <2> QED BY <1>3, <2>1, <2>3 DEF CameTo
  <1>9. CASE Has(h, x)
    <2> DEFINE d == <<h, x>>
    <2>1. d \in Due(vs) /\ d[1] = h /\ d[2] = x BY <1>4, <1>5, <1>9 DEF Due
    <2>2. new = Append(cs, d) BY <1>9 DEF Calling
    <2>3. cs \in Seq(HookNames \X Instances) /\ Len(cs) \in Nat /\ DOMAIN cs = 1..Len(cs)
      BY <1>3 DEF Ordering
    <2>4. d \in HookNames \X Instances BY <1>4
    <2> HIDE DEF d
    <2>5. /\ new \in Seq(HookNames \X Instances) /\ DOMAIN new = 1..(Len(cs) + 1)
          /\ \A j \in DOMAIN cs : new[j] = cs[j]
          /\ new[Len(cs) + 1] = d
      BY <2>2, <2>3, <2>4
    <2> HIDE DEF new, x, n
    <2>6. \A c \in Due(vs) : Among(cs, c) => Before(vs, c, d)
      <3>1. SUFFICES ASSUME NEW c \in Due(vs), Among(cs, c) PROVE Before(vs, c, d) OBVIOUS
      <3>2. \/ Stage[c[1]] < n
            \/ Stage[c[1]] = n /\ \E m \in 1..(i - 1) : Turn(c[1], ks, m) = c[2]
        BY <1>3, <3>1 DEF CalledUpTo
      <3>3. CASE Stage[c[1]] < n BY <2>1, <3>3 DEF Before, n
      <3>4. CASE Stage[c[1]] = n
        <4>1. PICK m \in 1..(i - 1) : Turn(c[1], ks, m) = c[2] BY <1>2, <1>6, <3>2, <3>4
        <4>2. c[1] = h /\ m \in 1..Len(ks) /\ m < i BY <1>1, <1>6, <3>4
        <4>3. CASE n <= 2
          <5>1. c[2] = ks[m] /\ x = ks[i] BY <1>2, <4>1, <4>2, <4>3 DEF Turn, x, n
          <5>2. Sooner(vs, c[2], x) BY <1>1, <4>2, <5>1 DEF KeptUpTo
          <5> QED BY <2>1, <4>2, <4>3, <5>2 DEF Before, n
        <4>4. CASE n > 2
          <5> DEFINE a == Len(ks) + 1 - m
                     b == Len(ks) + 1 - i
          <5>1. c[2] = ks[a] /\ x = ks[b] BY <4>1, <4>2, <4>4 DEF Turn, x, n
          <5>2. a \in DOMAIN ks /\ b \in DOMAIN ks /\ b < a BY <1>1, <4>2
          <5>3. Sooner(vs, x, c[2]) BY <5>1, <5>2 DEF KeptUpTo
          <5> QED BY <2>1, <4>2, <4>4, <5>3 DEF Before, n
        <4> QED BY <1>2, <4>3, <4>4
      <3> QED BY <1>2, <1>6, <3>2, <3>3, <3>4
    <2>7. Ordering(vs, new)
      <3>1. \A j \in DOMAIN new : new[j] \in Due(vs)
        <4>1. SUFFICES ASSUME NEW j \in DOMAIN new PROVE new[j] \in Due(vs) OBVIOUS
        <4>2. CASE j \in DOMAIN cs BY <1>3, <2>5, <4>2 DEF Ordering
        <4>3. CASE j \notin DOMAIN cs
          <5>1. j = Len(cs) + 1 BY <2>3, <2>5, <4>3
          <5> QED BY <2>1, <2>5, <5>1
        <4> QED BY <4>2, <4>3
      <3>2. SUFFICES ASSUME NEW j \in DOMAIN new, NEW k \in DOMAIN new, j < k
                     PROVE  Before(vs, new[j], new[k])
        BY <2>5, <3>1 DEF Ordering
      <3>3. j \in DOMAIN cs /\ new[j] = cs[j] BY <2>3, <2>5, <3>2
      <3>4. CASE k \in DOMAIN cs BY <1>3, <2>5, <3>2, <3>3, <3>4 DEF Ordering
      <3>5. CASE k \notin DOMAIN cs
        <4>1. new[k] = d BY <2>3, <2>5, <3>2, <3>5
        <4>2. cs[j] \in Due(vs) /\ Among(cs, cs[j]) BY <1>3, <3>3 DEF Ordering, Among
        <4> QED BY <2>6, <3>3, <4>1, <4>2
      <3> QED BY <3>4, <3>5
    <2>8. CalledUpTo(vs, ks, new, n, i + 1)
      <3>1. SUFFICES ASSUME NEW c \in Due(vs)
                     PROVE  Among(new, c) <=>
                              \/ Stage[c[1]] < n
                              \/ Stage[c[1]] = n /\ \E m \in 1..((i + 1) - 1) : Turn(c[1], ks, m) = c[2]
        BY DEF CalledUpTo
      <3>2. Among(new, c) <=> Among(cs, c) \/ c = d
        <4>1. ASSUME Among(new, c) PROVE Among(cs, c) \/ c = d
          <5>1. PICK j \in DOMAIN new : new[j] = c BY <4>1 DEF Among
          <5>2. j \in DOMAIN cs \/ j = Len(cs) + 1 BY <2>3, <2>5
          <5> QED BY <2>5, <5>1, <5>2 DEF Among
        <4>2. ASSUME Among(cs, c) PROVE Among(new, c)
          <5>1. PICK j \in DOMAIN cs : cs[j] = c BY <4>2 DEF Among
          <5>2. j \in DOMAIN new BY <2>3, <2>5
          <5> QED BY <2>5, <5>1, <5>2 DEF Among
        <4>3. Among(new, d)
          <5>1. Len(cs) + 1 \in DOMAIN new BY <2>3, <2>5
          <5> QED BY <2>5, <5>1 DEF Among
        <4> QED BY <4>1, <4>2, <4>3
      <3>3. c = d <=> Stage[c[1]] = n /\ Turn(c[1], ks, i) = c[2]
        BY <1>6, <2>1 DEF x, d
      <3>4. Among(cs, c) <=>
              \/ Stage[c[1]] < n
              \/ Stage[c[1]] = n /\ \E m \in 1..(i - 1) : Turn(c[1], ks, m) = c[2]
        BY <1>3 DEF CalledUpTo
      <3>5. (\E m \in 1..((i + 1) - 1) : Turn(c[1], ks, m) = c[2])
              <=> (\E m \in 1..(i - 1) : Turn(c[1], ks, m) = c[2]) \/ Turn(c[1], ks, i) = c[2]
        BY <1>7
      <3> QED BY <3>2, <3>3, <3>4, <3>5
    <2> QED BY <2>7, <2>8 DEF CameTo, new, x, n
  <1> QED BY <1>8, <1>9

\* A pass over every kept instance is over, and the next begins.
LEMMA PassStep ==
  ASSUME NEW vs \in Seq(Instances), NEW ks, AllKept(vs, ks), NEW cs, NEW n \in 1..5,
         CameTo(vs, ks, cs, n, Len(ks) + 1)
  PROVE  CameTo(vs, ks, cs, n + 1, 1)
  <1>1. Ordering(vs, cs) /\ CalledUpTo(vs, ks, cs, n, Len(ks) + 1) BY DEF CameTo
  <1>2. ks \in Seq(Instances) /\ DOMAIN ks = 1..Len(ks) /\ Len(ks) \in Nat /\ Len(vs) \in Nat
    BY DEF AllKept, KeptUpTo
  <1>3. SUFFICES ASSUME NEW c \in Due(vs)
                 PROVE  Among(cs, c) <=>
                          \/ Stage[c[1]] < n + 1
                          \/ Stage[c[1]] = n + 1 /\ \E m \in 1..(1 - 1) : Turn(c[1], ks, m) = c[2]
    BY <1>1 DEF CameTo, CalledUpTo
  <1>4. c[1] \in HookNames /\ c[2] \in Instances /\ Among(vs, c[2]) /\ Stage[c[1]] \in 1..5
    BY StageTyped DEF Due
  <1>5. \E k \in 1..((Len(ks) + 1) - 1) : Turn(c[1], ks, k) = c[2]
    <2>1. PICK q \in DOMAIN vs : vs[q] = c[2] BY <1>4 DEF Among
    <2>2. q \in 1..((Len(vs) + 1) - 1) BY <1>2
    <2>3. Among(ks, c[2]) BY <1>4, <2>1, <2>2 DEF AllKept, KeptUpTo
    <2>4. PICK m \in DOMAIN ks : ks[m] = c[2] BY <2>3 DEF Among
    <2>5. \E k \in 1..Len(ks) : Turn(c[1], ks, k) = ks[m] BY <1>2, <1>4, Turns
    <2>6. (Len(ks) + 1) - 1 = Len(ks) BY <1>2
    <2> QED BY <2>4, <2>5, <2>6
  <1>6. Among(cs, c) <=>
          \/ Stage[c[1]] < n
          \/ Stage[c[1]] = n /\ \E m \in 1..((Len(ks) + 1) - 1) : Turn(c[1], ks, m) = c[2]
    BY <1>1 DEF CalledUpTo
  <1>7. 1..(1 - 1) = {} OBVIOUS
  <1> QED BY <1>4, <1>5, <1>6, <1>7

\* The instance at the next place is kept, unless it was found before.
LEMMA KeepStep ==
  ASSUME NEW vs \in Seq(Instances), NEW ks, NEW p \in DOMAIN vs, KeptUpTo(vs, ks, p)
  PROVE  /\ Among(ks, vs[p]) => KeptUpTo(vs, ks, p + 1)
         /\ ~Among(ks, vs[p]) => KeptUpTo(vs, Append(ks, vs[p]), p + 1)
  <1> DEFINE x == vs[p]
             new == Append(ks, x)
  <1>1. /\ ks \in Seq(Instances) /\ DOMAIN ks = 1..Len(ks) /\ Len(ks) \in Nat
        /\ DOMAIN vs = 1..Len(vs) /\ Len(vs) \in Nat /\ x \in Instances
    BY DEF KeptUpTo
  <1>2. 1..((p + 1) - 1) = 1..(p - 1) \cup {p} BY <1>1
  <1>3. \A y \in Instances : (\E q \in 1..((p + 1) - 1) : vs[q] = y) <=> Among(ks, y) \/ y = x
    BY <1>2 DEF KeptUpTo
  <1>4. ASSUME Among(ks, x) PROVE KeptUpTo(vs, ks, p + 1)
    BY <1>3, <1>4 DEF KeptUpTo
  <1>5. ASSUME ~Among(ks, x) PROVE KeptUpTo(vs, new, p + 1)
    <2>1. /\ new \in Seq(Instances) /\ DOMAIN new = 1..(Len(ks) + 1)
          /\ \A i \in DOMAIN ks : new[i] = ks[i]
          /\ new[Len(ks) + 1] = x
      BY <1>1
    <2> HIDE DEF new, x
    <2>2. \A y \in Instances : Among(new, y) <=> Among(ks, y) \/ y = x
      <3>1. SUFFICES ASSUME NEW y \in Instances PROVE Among(new, y) <=> Among(ks, y) \/ y = x OBVIOUS
      <3>2. ASSUME Among(new, y) PROVE Among(ks, y) \/ y = x
        <4>1. PICK j \in DOMAIN new : new[j] = y BY <3>2 DEF Among
        <4>2. j \in DOMAIN ks \/ j = Len(ks) + 1 BY <1>1, <2>1
        <4> QED BY <2>1, <4>1, <4>2 DEF Among
      <3>3. ASSUME Among(ks, y) PROVE Among(new, y)
        <4>1. PICK j \in DOMAIN ks : ks[j] = y BY <3>3 DEF Among
        <4>2. j \in DOMAIN new BY <1>1, <2>1
        <4> QED BY <2>1, <4>1, <4>2 DEF Among
      <3>4. Among(new, x)
        <4>1. Len(ks) + 1 \in DOMAIN new BY <1>1, <2>1
        <4> QED BY <2>1, <4>1 DEF Among
      <3> QED BY <3>2, <3>3, <3>4
    <2>3. \A i, j \in DOMAIN new : i < j => Sooner(vs, new[i], new[j])
      <3>1. SUFFICES ASSUME NEW i \in DOMAIN new, NEW j \in DOMAIN new, i < j
                     PROVE  Sooner(vs, new[i], new[j])
        OBVIOUS
      <3>2. i \in DOMAIN ks /\ new[i] = ks[i] BY <1>1, <2>1, <3>1
      <3>3. CASE j \in DOMAIN ks BY <2>1, <3>1, <3>2, <3>3 DEF KeptUpTo
      <3>4. CASE j \notin DOMAIN ks
        <4>1. new[j] = x BY <1>1, <2>1, <3>1, <3>4
        <4>2. ks[i] \in Instances /\ Among(ks, ks[i]) BY <1>1, <3>2 DEF Among
        <4>3. PICK q \in 1..(p - 1) : vs[q] = ks[i] BY <4>2 DEF KeptUpTo
        <4>4. q \in DOMAIN vs /\ \A r \in 1..q : vs[r] # x
          <5>1. q \in DOMAIN vs BY <1>1
          <5>2. ASSUME NEW r \in 1..q, vs[r] = x PROVE FALSE
            <6>1. r \in 1..(p - 1) BY <1>1
            <6> QED BY <1>1, <1>5, <5>2, <6>1 DEF KeptUpTo
          <5> QED BY <5>1, <5>2
        <4> QED BY <3>2, <4>1, <4>3, <4>4 DEF Sooner
      <3> QED BY <3>3, <3>4
    <2> QED BY <1>3, <2>1, <2>2, <2>3 DEF KeptUpTo
  <1> QED BY <1>4, <1>5

\* A new instance is kept and its on_module_init called.
LEMMA FoundStep ==
  ASSUME NEW vs \in Seq(Instances), NEW ks, NEW p \in DOMAIN vs, KeptUpTo(vs, ks, p),
         NEW cs, CameTo(vs, ks, cs, 1, Len(ks) + 1), ~Among(ks, vs[p])
  PROVE  LET new == Append(ks, vs[p])
         IN  CameTo(vs, new, Calling(cs, "on_module_init", vs[p]), 1, Len(new) + 1)
  <1> DEFINE x == vs[p]
             new == Append(ks, x)
  <1>1. /\ ks \in Seq(Instances) /\ DOMAIN ks = 1..Len(ks) /\ Len(ks) \in Nat
        /\ x \in Instances /\ p + 1 \in 1..(Len(vs) + 1)
    BY DEF KeptUpTo
  <1>2. KeptUpTo(vs, new, p + 1) BY KeepStep
  <1>3. /\ Len(new) = Len(ks) + 1 /\ DOMAIN new = 1..(Len(ks) + 1)
        /\ \A i \in DOMAIN ks : new[i] = ks[i]
        /\ new[Len(new)] = x
    BY <1>1
  <1> HIDE DEF new, x
  <1>4. "on_module_init" \in HookNames /\ Stage["on_module_init"] = 1 BY StageTyped DEF HookNames
  <1>5. CameTo(vs, new, cs, 1, Len(new))
    <2>1. Ordering(vs, cs) /\ CalledUpTo(vs, ks, cs, 1, Len(ks) + 1) BY DEF CameTo
    <2>2. ASSUME NEW c \in Due(vs), Stage[c[1]] = 1, NEW m \in 1..((Len(ks) + 1) - 1)
          PROVE  Turn(c[1], ks, m) = Turn(c[1], new, m)
      <3>1. m \in DOMAIN ks BY <1>1
      <3> QED BY <1>3, <2>2, <3>1 DEF Turn
    <2>3. CalledUpTo(vs, new, cs, 1, Len(ks) + 1) BY <2>1, <2>2 DEF CalledUpTo
    <2> QED BY <1>3, <2>1, <2>3 DEF CameTo
  <1>6. Turn("on_module_init", new, Len(new)) = x BY <1>3, <1>4 DEF Turn
  <1>7. Len(new) \in DOMAIN new BY <1>1, <1>3
  <1>8. CameTo(vs, new, Calling(cs, "on_module_init", Turn("on_module_init", new, Len(new))), 1, Len(new) + 1)
    BY <1>1, <1>2, <1>4, <1>5, <1>7, HookStep
  <1> QED BY <1>6, <1>8 DEF new, x

\* Before anything is found.
LEMMA NothingYet ==
  ASSUME NEW vs \in Seq(Instances)
  PROVE  KeptUpTo(vs, <<>>, 1) /\ CameTo(vs, <<>>, <<>>, 1, 1)
  <1>1. \A c \in Due(vs) : Stage[c[1]] \in 1..5 BY StageTyped DEF Due
  <1>2. 1..(1 - 1) = {} OBVIOUS
  <1>3. KeptUpTo(vs, <<>>, 1) BY <1>2 DEF KeptUpTo, Among
  <1>4. Ordering(vs, <<>>) BY DEF Ordering
  <1>5. CalledUpTo(vs, <<>>, <<>>, 1, 1) BY <1>1, <1>2 DEF CalledUpTo, Among
  <1> QED BY <1>3, <1>4, <1>5 DEF CameTo

\* When every pass is over, no call is left out.
LEMMA AllOver ==
  ASSUME NEW vs, NEW ks, NEW cs, CameTo(vs, ks, cs, 6, 1)
  PROVE  AllCalled(vs, cs)
  <1>1. \A c \in Due(vs) : Stage[c[1]] \in 1..5 BY StageTyped DEF Due
  <1> QED BY <1>1 DEF CameTo, CalledUpTo, AllCalled

-----------------------------------------------------------------------------
(* init() and close() of a context *)

Booting(c) == ctxPc[c] \in {"resolve", "on_application_bootstrap"}
Closing(c) == ctxPc[c] = "stop" \/ ctxPc[c] \in ShutdownHooks

ContextTyped ==
  /\ ctxStarted \in BOOLEAN /\ ctxClosed \in BOOLEAN
  /\ ctxRunner \in {"none", "running", "stopped"}
  /\ ctxPc \in [Callers -> {"idle", "resolve", "stop", "on_application_bootstrap"} \cup ShutdownHooks]
  /\ ctxAt \in [Callers -> Nat]

\* One caller at a time has something to do, and not the same before and after
\* the runner exists.
OneBusy ==
  /\ \A c, d \in Callers : ctxPc[c] # "idle" /\ ctxPc[d] # "idle" => c = d
  /\ \A c \in Callers : Booting(c) => ctxStarted /\ ctxRunner = "none"
  /\ \A c \in Callers : Closing(c) => ctxClosed /\ ctxRunner # "none"

NotStarted ==
  ~ctxStarted => /\ ctxRunner = "none" /\ ctxKept = <<>> /\ ctxCalled = <<>>
                 /\ \A c \in Callers : ctxPc[c] = "idle"

\* How far the busy caller, or a context that nobody closed, has come.
ContextCame ==
  /\ \A c \in Callers : ctxPc[c] = "resolve" =>
       /\ ctxAt[c] \in 1..(Len(Found) + 1) /\ KeptUpTo(Found, ctxKept, ctxAt[c])
       /\ CameTo(Found, ctxKept, ctxCalled, 1, Len(ctxKept) + 1)
  /\ \A c \in Callers : ctxPc[c] \in HookNames =>
       /\ ctxAt[c] \in 1..(Len(ctxKept) + 1) /\ AllKept(Found, ctxKept)
       /\ CameTo(Found, ctxKept, ctxCalled, Stage[ctxPc[c]], ctxAt[c])
  /\ ctxRunner # "none" => ctxStarted /\ AllKept(Found, ctxKept)
  /\ \A c \in Callers : ctxPc[c] = "stop" => CameTo(Found, ctxKept, ctxCalled, 3, 1)
  /\ ctxRunner # "none" /\ ~ctxClosed => CameTo(Found, ctxKept, ctxCalled, 3, 1)

ContextKept == ContextTyped /\ OneBusy /\ NotStarted /\ ContextCame /\ ContextInOrder

\* What a caller that comes to a place in a life leaves true.
LEMMA ContextReaches ==
  ASSUME NEW ks, NEW cs, NEW p \in 1..(Len(Found) + 1), KeptUpTo(Found, ks, p),
         NEW n \in 1..6, NEW i \in 1..(Len(ks) + 1), n > 2 => AllKept(Found, ks),
         CameTo(Found, ks, cs, n, i)
  PROVE  AsDocumented(Found, cs)
  <1>1. Found \in Seq(Instances) /\ Len(Found) + 1 \in 1..(Len(Found) + 1) BY HooksAssumption
  <1>2. CASE n > 2 BY <1>1, <1>2, CameToDocumented DEF AllKept
  <1>3. CASE ~(n > 2) BY <1>1, <1>3, CameToDocumented
  <1> QED BY <1>2, <1>3

LEMMA ContextStarts == ContextInit => ContextKept
  <1> SUFFICES ASSUME ContextInit PROVE ContextKept OBVIOUS
  <1> USE DEF ContextInit
  <1>1. ContextTyped BY DEF ContextTyped
  <1>2. OneBusy BY StageTyped DEF OneBusy, Booting, Closing
  <1>3. NotStarted BY DEF NotStarted
  <1>4. ContextCame BY DEF ContextCame, HookNames
  <1>5. ContextInOrder BY DEF ContextInOrder, AsDocumented
  <1> QED BY <1>1, <1>2, <1>3, <1>4, <1>5 DEF ContextKept

\* Where one caller goes from, when every other is idle.
LEMMA ContextMoves ==
  ASSUME ContextTyped, NEW c \in Callers, \A d \in Callers \ {c} : ctxPc[d] = "idle",
         NEW p \in {"idle", "resolve", "stop", "on_application_bootstrap"} \cup ShutdownHooks,
         NEW i \in Nat,
         ctxPc' = [ctxPc EXCEPT ![c] = p], ctxAt' = [ctxAt EXCEPT ![c] = i],
         ctxStarted' \in BOOLEAN, ctxClosed' \in BOOLEAN, ctxRunner' \in {"none", "running", "stopped"},
         ctxStarted',
         p \in {"resolve", "on_application_bootstrap"} => ctxRunner' = "none",
         p = "stop" \/ p \in ShutdownHooks => ctxClosed' /\ ctxRunner' # "none",
         p = "resolve" =>
           /\ i \in 1..(Len(Found) + 1) /\ KeptUpTo(Found, ctxKept', i)
           /\ CameTo(Found, ctxKept', ctxCalled', 1, Len(ctxKept') + 1),
         p \in HookNames =>
           /\ i \in 1..(Len(ctxKept') + 1) /\ AllKept(Found, ctxKept')
           /\ CameTo(Found, ctxKept', ctxCalled', Stage[p], i),
         p = "stop" => CameTo(Found, ctxKept', ctxCalled', 3, 1),
         ctxRunner' # "none" => AllKept(Found, ctxKept'),
         ctxRunner' # "none" /\ ~ctxClosed' => CameTo(Found, ctxKept', ctxCalled', 3, 1),
         ContextInOrder'
  PROVE  ContextKept'
  <1>1. /\ ctxPc'[c] = p /\ ctxAt'[c] = i
        /\ \A d \in Callers : d # c => ctxPc'[d] = "idle"
    BY DEF ContextTyped
  <1>2. "idle" \notin HookNames /\ "idle" \notin ShutdownHooks BY StageTyped DEF HookNames
  <1>3. ContextTyped' BY DEF ContextTyped
  <1>4. OneBusy' BY <1>1, <1>2 DEF OneBusy, Booting, Closing
  <1>5. NotStarted' BY DEF NotStarted
  <1>6. ContextCame'
    <2>1. \A d \in Callers : d # c => ctxPc'[d] \notin HookNames \cup {"resolve", "stop"} BY <1>1, <1>2
    <2> QED BY <1>1, <2>1 DEF ContextCame
  <1> QED BY <1>3, <1>4, <1>5, <1>6 DEF ContextKept

LEMMA ContextSteps == ContextKept /\ [ContextNext]_contextVars => ContextKept'
  <1> SUFFICES ASSUME ContextKept, [ContextNext]_contextVars PROVE ContextKept' OBVIOUS
  <1>1. /\ ContextTyped /\ OneBusy /\ NotStarted /\ ContextCame /\ ContextInOrder
        /\ Found \in Seq(Instances) /\ Len(Found) \in Nat /\ DOMAIN Found = 1..Len(Found)
    BY HooksAssumption DEF ContextKept
  <1>2. CASE UNCHANGED contextVars
    BY <1>1, <1>2 DEF contextVars, ContextKept, ContextTyped, OneBusy, Booting, Closing, NotStarted,
       ContextCame, ContextInOrder
  <1>3. SUFFICES ASSUME NEW c \in Callers, InitCall(c) \/ CloseCall(c) \/ Progress(c) PROVE ContextKept'
    BY <1>2 DEF ContextNext
  <1>4. /\ ctxPc[c] \in {"idle", "resolve", "stop", "on_application_bootstrap"} \cup ShutdownHooks
        /\ ctxAt[c] \in Nat /\ ctxRunner \in {"none", "running", "stopped"}
        /\ ctxStarted \in BOOLEAN /\ ctxClosed \in BOOLEAN
    BY <1>1 DEF ContextTyped
  <1>5. ctxPc[c] # "idle" => /\ \A d \in Callers \ {c} : ctxPc[d] = "idle"
                             /\ ctxStarted
    BY <1>1 DEF OneBusy, NotStarted
  <1>6. CASE InitCall(c)
    <2> USE <1>6 DEF InitCall, Goto
    <2>1. ctxKept = <<>> /\ ctxCalled = <<>> /\ ctxRunner = "none" /\ \A d \in Callers : ctxPc[d] = "idle"
      BY <1>1 DEF NotStarted
    <2>2. KeptUpTo(Found, ctxKept', 1) /\ CameTo(Found, ctxKept', ctxCalled', 1, Len(ctxKept') + 1)
      BY <1>1, <2>1, NothingYet
    <2>3. ContextInOrder' BY <1>1 DEF ContextInOrder
    <2>4. "resolve" \notin HookNames BY DEF HookNames
    <2>5. 1 \in 1..(Len(Found) + 1) BY <1>1
    <2>6. "resolve" \notin ShutdownHooks BY StageTyped
    <2> QED BY <1>1, <1>4, <2>1, <2>2, <2>3, <2>4, <2>5, <2>6, ContextMoves
  <1>7. CASE CloseCall(c)
    <2> USE <1>7 DEF CloseCall, Goto
    <2>1. CASE ctxStarted /\ ctxRunner # "none"
      <3>1. \A d \in Callers : ctxPc[d] = "idle"
        <4>1. SUFFICES ASSUME NEW d \in Callers PROVE ctxPc[d] = "idle" OBVIOUS
        <4>2. ~Booting(d) /\ ~Closing(d) BY <1>1, <2>1 DEF OneBusy
        <4> QED BY <1>1, <4>2 DEF ContextTyped, Booting, Closing
      <3>2. AllKept(Found, ctxKept') /\ CameTo(Found, ctxKept', ctxCalled', 3, 1)
        BY <1>1, <2>1 DEF ContextCame
      <3>3. ContextInOrder' BY <1>1 DEF ContextInOrder
      <3>4. "stop" \notin HookNames /\ "stop" \notin ShutdownHooks BY StageTyped DEF HookNames
      <3> QED BY <1>1, <1>4, <2>1, <3>1, <3>2, <3>3, <3>4, ContextMoves
    <2>2. CASE ~(ctxStarted /\ ctxRunner # "none")
      <3>1. ctxRunner = "none" BY <1>1, <2>2 DEF ContextCame
      <3>2. ctxPc' = ctxPc /\ ctxAt'[c] = 1 /\ \A d \in Callers : d # c => ctxAt'[d] = ctxAt[d]
        BY <1>1, <2>2 DEF ContextTyped
      <3>3. ContextTyped' BY <1>1, <3>2 DEF ContextTyped
      <3>4. OneBusy' BY <1>1, <3>1, <3>2 DEF OneBusy, Booting, Closing
      <3>5. NotStarted' BY <1>1, <3>2 DEF NotStarted
      <3>6. ContextCame'
        <4>1. ctxPc[c] \notin HookNames \cup {"resolve", "stop"} BY DEF HookNames
        <4> QED BY <1>1, <3>1, <3>2, <4>1 DEF ContextCame
      <3>7. ContextInOrder' BY <1>1 DEF ContextInOrder
      <3> QED BY <3>3, <3>4, <3>5, <3>6, <3>7 DEF ContextKept
    <2> QED BY <2>1, <2>2
  <1>8. CASE FindNext(c)
    <2> USE <1>8 DEF FindNext, Advance
    <2>1. /\ KeptUpTo(Found, ctxKept, ctxAt[c]) /\ CameTo(Found, ctxKept, ctxCalled, 1, Len(ctxKept) + 1)
          /\ ctxAt[c] \in DOMAIN Found /\ ctxAt[c] + 1 \in 1..(Len(Found) + 1)
      BY <1>1 DEF ContextCame
    <2>2. /\ KeptUpTo(Found, ctxKept', ctxAt[c] + 1)
          /\ CameTo(Found, ctxKept', ctxCalled', 1, Len(ctxKept') + 1)
      <3>1. CASE Among(ctxKept, Found[ctxAt[c]]) BY <1>1, <2>1, <3>1, KeepStep
      <3>2. CASE ~Among(ctxKept, Found[ctxAt[c]])
        <4>1. /\ ctxKept' = Append(ctxKept, Found[ctxAt[c]])
              /\ ctxCalled' = Calling(ctxCalled, "on_module_init", Found[ctxAt[c]])
          BY <3>2
        <4>2. KeptUpTo(Found, ctxKept', ctxAt[c] + 1) BY <1>1, <2>1, <3>2, <4>1, KeepStep
        <4>3. CameTo(Found, ctxKept', ctxCalled', 1, Len(ctxKept') + 1)
          BY <1>1, <2>1, <3>2, <4>1, FoundStep
        <4> QED BY <4>2, <4>3
      <3> QED BY <3>1, <3>2
    <2>3. ContextInOrder'
      <3>1. ctxKept' \in Seq(Instances) BY <2>2 DEF KeptUpTo
      <3>2. Len(ctxKept') + 1 \in 1..(Len(ctxKept') + 1) BY <3>1
      <3> QED BY <2>1, <2>2, <3>2, ContextReaches DEF ContextInOrder
    <2>4. ctxStarted /\ ctxRunner = "none" BY <1>1 DEF OneBusy, Booting
    <2>5. "resolve" \notin HookNames /\ "resolve" \notin ShutdownHooks BY StageTyped DEF HookNames
    <2>6. ctxPc' = [ctxPc EXCEPT ![c] = "resolve"] /\ ctxAt' = [ctxAt EXCEPT ![c] = ctxAt[c] + 1]
      BY <1>1 DEF ContextTyped
    <2>7. ctxPc[c] # "idle" /\ UNCHANGED <<ctxStarted, ctxClosed, ctxRunner>> /\ ctxAt[c] + 1 \in Nat
      BY <1>4
    <2> HIDE DEF FindNext, Advance
    <2> QED BY <1>1, <1>4, <1>5, <2>1, <2>2, <2>3, <2>4, <2>5, <2>6, <2>7, ContextMoves
  <1>9. CASE AllFound(c)
    <2> USE <1>9 DEF AllFound, Goto
    <2> DEFINE h == "on_application_bootstrap"
    <2>1. /\ KeptUpTo(Found, ctxKept, ctxAt[c]) /\ CameTo(Found, ctxKept, ctxCalled, 1, Len(ctxKept) + 1)
          /\ ctxAt[c] = Len(Found) + 1
      BY <1>1, <1>4 DEF ContextCame
    <2>2. AllKept(Found, ctxKept) BY <2>1 DEF AllKept
    <2>3. CameTo(Found, ctxKept, ctxCalled, 1 + 1, 1) BY <1>1, <2>1, <2>2, PassStep
    <2>4. Stage[h] = 1 + 1 BY StageTyped
    <2>5. ctxStarted /\ ctxRunner = "none" BY <1>1 DEF OneBusy, Booting
    <2>6. 1 \in 1..(Len(ctxKept') + 1)
      <3>1. ctxKept' \in Seq(Instances) BY <2>2 DEF AllKept, KeptUpTo
      <3> QED BY <3>1
    <2>7. ContextInOrder' BY <1>1 DEF ContextInOrder
    <2>8. h \notin ShutdownHooks BY StageTyped
    <2>9. CameTo(Found, ctxKept', ctxCalled', Stage[h], 1) /\ AllKept(Found, ctxKept') BY <2>2, <2>3, <2>4
    <2> QED BY <1>4, <1>1, <1>5, <2>5, <2>6, <2>7, <2>8, <2>9, ContextMoves
  <1>10. CASE CallHook(c)
    <2> USE <1>10 DEF CallHook, InPass, Advance
    <2> DEFINE h == ctxPc[c]
    <2>1. /\ AllKept(Found, ctxKept) /\ CameTo(Found, ctxKept, ctxCalled, Stage[h], ctxAt[c])
          /\ ctxAt[c] \in 1..(Len(ctxKept) + 1)
      BY <1>1 DEF ContextCame
    <2>2. KeptUpTo(Found, ctxKept, Len(Found) + 1) /\ ctxKept \in Seq(Instances)
      BY <2>1 DEF AllKept, KeptUpTo
    <2>3. ctxAt[c] \in DOMAIN ctxKept /\ ctxAt[c] + 1 \in 1..(Len(ctxKept) + 1) BY <2>1, <2>2
    <2>4. CameTo(Found, ctxKept', ctxCalled', Stage[h], ctxAt[c] + 1)
      BY <1>1, <2>1, <2>2, <2>3, HookStep
    <2>5. ContextInOrder'
      <3>1. Stage[h] \in 1..6 BY StageTyped
      <3> QED BY <1>1, <2>1, <2>2, <2>3, <2>4, <3>1, ContextReaches DEF ContextInOrder
    <2>6. /\ h \in ShutdownHooks => ctxClosed /\ ctxRunner # "none"
          /\ h \notin ShutdownHooks => h = "on_application_bootstrap"
          /\ h = "on_application_bootstrap" => ctxRunner = "none"
      BY <1>1, <1>4, StageTyped DEF OneBusy, Booting, Closing, HookNames
    <2>7. h \notin {"idle", "resolve", "stop"} /\ "on_application_bootstrap" \notin ShutdownHooks
      BY StageTyped DEF HookNames
    <2>8. ctxPc' = [ctxPc EXCEPT ![c] = h] /\ ctxAt' = [ctxAt EXCEPT ![c] = ctxAt[c] + 1]
      BY <1>1 DEF ContextTyped
    <2>9. ctxAt[c] + 1 \in Nat /\ ctxStarted' BY <1>4, <1>5, <2>7
    <2>10. /\ UNCHANGED <<ctxStarted, ctxClosed, ctxRunner, ctxKept>>
           /\ h \in {"idle", "resolve", "stop", "on_application_bootstrap"} \cup ShutdownHooks
           /\ \A d \in Callers \ {c} : ctxPc[d] = "idle"
      BY <1>4, <1>5, <2>7
    <2> HIDE DEF h, CallHook, InPass, Advance
    <2> QED BY <1>1, <1>4, <2>1, <2>3, <2>4, <2>5, <2>6, <2>7, <2>8, <2>9, <2>10, ContextMoves
  <1>11. CASE BootOver(c)
    <2> USE <1>11 DEF BootOver, PassEnded, Goto
    <2>1. /\ AllKept(Found, ctxKept) /\ CameTo(Found, ctxKept, ctxCalled, 2, Len(ctxKept) + 1)
      <3>1. "on_application_bootstrap" \in HookNames /\ Stage["on_application_bootstrap"] = 2
        BY StageTyped DEF HookNames
      <3>2. /\ AllKept(Found, ctxKept) /\ CameTo(Found, ctxKept, ctxCalled, 2, ctxAt[c])
            /\ ctxAt[c] \in 1..(Len(ctxKept) + 1)
        BY <1>1, <3>1 DEF ContextCame
      <3>3. ctxKept \in Seq(Instances) BY <3>2 DEF AllKept, KeptUpTo
      <3>4. ctxAt[c] = Len(ctxKept) + 1 BY <3>2, <3>3
      <3> QED BY <3>2, <3>4
    <2>2. CameTo(Found, ctxKept, ctxCalled, 2 + 1, 1) BY <1>1, <2>1, PassStep
    <2>3. ContextInOrder' BY <1>1 DEF ContextInOrder
    <2>4. "idle" \notin HookNames /\ "idle" \notin ShutdownHooks BY StageTyped DEF HookNames
    <2>5. CameTo(Found, ctxKept', ctxCalled', 3, 1) BY <2>2
    <2> QED BY <1>1, <1>4, <1>5, <2>1, <2>3, <2>4, <2>5, ContextMoves
  <1>12. CASE HookRaises(c)
    <2> USE <1>12 DEF HookRaises, InPass, Goto
    <2>1. ctxPc[c] # "idle" BY DEF HookNames
    <2>2. ctxRunner # "none" => AllKept(Found, ctxKept) /\ ctxClosed
      <3>1. ctxPc[c] # "stop" BY DEF HookNames
      <3>2. Booting(c) \/ ctxPc[c] \in ShutdownHooks BY <1>4, <2>1, <3>1 DEF Booting
      <3> QED BY <1>1, <3>2 DEF ContextCame, OneBusy, Closing
    <2>3. ContextInOrder' BY <1>1 DEF ContextInOrder
    <2>4. "idle" \notin HookNames /\ "idle" \notin ShutdownHooks BY StageTyped DEF HookNames
    <2> QED BY <1>1, <1>4, <1>5, <2>1, <2>2, <2>3, <2>4, ContextMoves
  <1>13. CASE JobsStopped(c)
    <2> USE <1>13 DEF JobsStopped, Goto
    <2> DEFINE h == "on_module_destroy"
    <2>1. Closing(c) BY DEF Closing
    <2>2. /\ ctxClosed /\ AllKept(Found, ctxKept) /\ CameTo(Found, ctxKept, ctxCalled, 3, 1)
      BY <1>1, <2>1 DEF ContextCame, OneBusy
    <2>3. ContextInOrder' BY <1>1 DEF ContextInOrder
    <2>4. Stage[h] = 3 /\ h \in HookNames /\ h \in ShutdownHooks BY StageTyped DEF HookNames
    <2>5. 1 \in 1..(Len(ctxKept') + 1)
      <3>1. ctxKept' \in Seq(Instances) BY <2>2 DEF AllKept, KeptUpTo
      <3> QED BY <3>1
    <2>6. CameTo(Found, ctxKept', ctxCalled', Stage[h], 1) /\ AllKept(Found, ctxKept') BY <2>2, <2>4
    <2> QED BY <1>1, <1>4, <1>5, <2>2, <2>3, <2>4, <2>5, <2>6, ContextMoves
  <1>14. CASE NextPass(c)
    <2>1. PICK g \in ShutdownHooks \ {"on_application_shutdown"} : PassEnded(c, g) /\ Goto(c, Following(g))
      BY <1>14 DEF NextPass
    <2> USE <1>14, <2>1 DEF NextPass, PassEnded, Goto
    <2> DEFINE h == Following(g)
    <2>2. g \in HookNames /\ h \in HookNames /\ h \in ShutdownHooks /\ Stage[h] = Stage[g] + 1 /\ Stage[g] \in 1..5
      BY StageTyped DEF HookNames, Following
    <2>3. /\ AllKept(Found, ctxKept) /\ CameTo(Found, ctxKept, ctxCalled, Stage[g], Len(ctxKept) + 1)
      <3>1. /\ AllKept(Found, ctxKept) /\ CameTo(Found, ctxKept, ctxCalled, Stage[g], ctxAt[c])
            /\ ctxAt[c] \in 1..(Len(ctxKept) + 1)
        BY <1>1, <2>2 DEF ContextCame
      <3>2. ctxKept \in Seq(Instances) BY <3>1 DEF AllKept, KeptUpTo
      <3>3. ctxAt[c] = Len(ctxKept) + 1 BY <3>1, <3>2
      <3> QED BY <3>1, <3>3
    <2>4. CameTo(Found, ctxKept, ctxCalled, Stage[g] + 1, 1) BY <1>1, <2>2, <2>3, PassStep
    <2>5. Closing(c) BY DEF Closing
    <2>6. ctxClosed /\ ctxRunner # "none" BY <1>1, <2>5 DEF OneBusy
    <2>7. ContextInOrder' BY <1>1 DEF ContextInOrder
    <2>8. 1 \in 1..(Len(ctxKept') + 1)
      <3>1. ctxKept' \in Seq(Instances) BY <2>3 DEF AllKept, KeptUpTo
      <3> QED BY <3>1
    <2>9. ctxPc[c] # "idle" BY StageTyped
    <2> HIDE DEF h
    <2>10. h # "resolve" /\ h # "stop" /\ h # "on_application_bootstrap" BY <2>2, StageTyped
    <2>11. CameTo(Found, ctxKept', ctxCalled', Stage[h], 1) /\ AllKept(Found, ctxKept') BY <2>2, <2>3, <2>4
    <2>12. ctxPc' = [ctxPc EXCEPT ![c] = h] BY DEF h
    <2> QED BY <1>1, <1>4, <1>5, <2>2, <2>6, <2>7, <2>8, <2>9, <2>10, <2>11, <2>12, ContextMoves
  <1>15. CASE CloseOver(c)
    <2> USE <1>15 DEF CloseOver, PassEnded, Goto
    <2>1. Closing(c) BY StageTyped DEF Closing
    <2>2. ctxClosed /\ AllKept(Found, ctxKept) BY <1>1, <2>1 DEF ContextCame, OneBusy
    <2>3. ContextInOrder' BY <1>1 DEF ContextInOrder
    <2>4. "idle" \notin HookNames /\ "idle" \notin ShutdownHooks BY StageTyped DEF HookNames
    <2> QED BY <1>1, <1>4, <1>5, <2>2, <2>3, <2>4, ContextMoves
  <1> QED BY <1>3, <1>6, <1>7, <1>8, <1>9, <1>10, <1>11, <1>12, <1>13, <1>14, <1>15 DEF Progress

\* However init() and close() of a context overlap, and whatever raises, the hooks of
\* its instances are called in the documented order (factory.py:568, 659-666), none
\* twice, and none that precedes one of them is left out.
THEOREM ContextAlways == ContextSpec => []ContextInOrder
  <1>1. ContextKept => ContextInOrder BY DEF ContextKept
  <1> QED BY <1>1, ContextStarts, ContextSteps, PTL DEF ContextSpec

-----------------------------------------------------------------------------
(* The lifespan of an application *)

\* Before the lifespan serves no signal has a handler of ours, so no exit task
\* exists and nothing shuts down; from then on the instances are all kept.
BeforeServing ==
  /\ runner = "none" =>
       /\ disposition = Prior /\ ~done
       /\ pc[Lifespan] \in {"resolve", "on_application_bootstrap", "ended"}
       /\ \A k \in ExitTasks : pc[k] = "none"
       /\ pc[Lifespan] = "ended" => broken # {}
  /\ runner # "none" =>
       /\ AllKept(Visited, kept)
       /\ \A t \in LifecycleTasks : pc[t] \notin {"resolve", "on_application_bootstrap"}
  /\ \A k \in ExitTasks : k > Len(signals) => pc[k] = "none"
  /\ pc[Lifespan] \notin {"none", "kill"}

\* How far the calls have come, by what the task at work does next.
LifeCame ==
  /\ pc[Lifespan] = "resolve" =>
       /\ at[Lifespan] \in 1..(Len(Visited) + 1) /\ KeptUpTo(Visited, kept, at[Lifespan])
       /\ CameTo(Visited, kept, called, 1, Len(kept) + 1)
  /\ \A t \in LifecycleTasks : pc[t] \in HookNames =>
       /\ at[t] \in 1..(Len(kept) + 1) /\ AllKept(Visited, kept)
       /\ CameTo(Visited, kept, called, Stage[pc[t]], at[t])
  /\ \A t \in LifecycleTasks : pc[t] \in {"microservices", "runner"} =>
       CameTo(Visited, kept, called, 3, 1)
  /\ runner # "none" /\ ~done => CameTo(Visited, kept, called, 3, 1)

\* Once one task has begun to shut down it is at it, or is over.
ShutdownRuns ==
  /\ done /\ broken = {} =>
       (\E t \in LifecycleTasks : ShuttingDown(t)) \/ AllCalled(Visited, called)
  /\ pc[Lifespan] = "ended" /\ broken = {} => done

LifecycleKept ==
  /\ LifecycleTypeOK /\ OneShutdown /\ BeforeServing /\ LifeCame /\ ShutdownRuns /\ CallsInOrder

LEMMA LifeReaches ==
  ASSUME NEW ks, NEW cs, NEW p \in 1..(Len(Visited) + 1), KeptUpTo(Visited, ks, p),
         NEW n \in 1..6, NEW i \in 1..(Len(ks) + 1), n > 2 => AllKept(Visited, ks),
         CameTo(Visited, ks, cs, n, i)
  PROVE  AsDocumented(Visited, cs)
  <1>1. Visited \in Seq(Instances) /\ Len(Visited) + 1 \in 1..(Len(Visited) + 1) BY HooksAssumption DEF Visited
  <1>2. CASE n > 2 BY <1>1, <1>2, CameToDocumented DEF AllKept
  <1>3. CASE ~(n > 2) BY <1>1, <1>3, CameToDocumented
  <1> QED BY <1>2, <1>3

\* No task is a signal's number and the lifespan at once.
LEMMA TasksApart ==
  /\ Lifespan \in LifecycleTasks /\ Lifespan \notin ExitTasks /\ ExitTasks \subseteq Nat
  /\ \A t \in LifecycleTasks : t = Lifespan \/ t \in ExitTasks
  BY LifecycleAssumption DEF LifecycleTasks, ExitTasks

LEMMA PCsApart ==
  /\ ShutdownHooks \subseteq HookNames /\ ShutdownHooks \subseteq PCs
  /\ "on_application_bootstrap" \in HookNames /\ "on_application_bootstrap" \notin ShutdownHooks
  /\ {"none", "resolve", "serving", "shutdown", "microservices", "runner", "kill", "ended"}
       \cap HookNames = {}
  /\ \A p \in PCs \cap HookNames : p \in ShutdownHooks \/ p = "on_application_bootstrap"
  /\ HookNames \cap PCs = HookNames \ {"on_module_init"}
  BY StageTyped DEF PCs, HookNames

LEMMA LifecycleStarts == LifecycleInit => LifecycleKept
  <1> SUFFICES ASSUME LifecycleInit PROVE LifecycleKept OBVIOUS
  <1>1. /\ alive = TRUE /\ pc = [t \in LifecycleTasks |-> IF t = Lifespan THEN "resolve" ELSE "none"]
        /\ at = [t \in LifecycleTasks |-> 1] /\ kept = <<>> /\ runner = "none"
        /\ done = FALSE /\ signal = NoSignal /\ told = NoSignal /\ disposition = Prior
        /\ signals = <<>> /\ stopping = FALSE /\ called = <<>> /\ broken = {}
    BY DEF LifecycleInit
  <1>2. pc[Lifespan] = "resolve" /\ \A k \in ExitTasks : pc[k] = "none"
    BY <1>1, TasksApart DEF LifecycleTasks
  <1>3. LifecycleTypeOK
    <2>1. pc \in [LifecycleTasks -> PCs] /\ at \in [LifecycleTasks -> Nat \ {0}] BY <1>1 DEF PCs
    <2>2. kept \in Seq(Instances) /\ DOMAIN kept = {} /\ called \in Seq(HookNames \X Instances) BY <1>1
    <2>3. signals \in Seq(Signals) /\ Len(signals) <= MaxSignals BY <1>1, LifecycleAssumption
    <2>4. disposition \in [Signals -> {"server", "none", "fanest"}] BY <1>1, LifecycleAssumption
    <2> QED BY <1>1, <2>1, <2>2, <2>3, <2>4 DEF LifecycleTypeOK
  <1>4. \A t \in LifecycleTasks : pc[t] \in {"none", "resolve"} BY <1>2, TasksApart
  <1>5. OneShutdown BY <1>4, PCsApart DEF OneShutdown, ShuttingDown
  <1>6. BeforeServing BY <1>1, <1>2 DEF BeforeServing
  <1>7. LifeCame
    <2>1. Visited \in Seq(Instances) BY HooksAssumption DEF Visited
    <2>2. KeptUpTo(Visited, kept, 1) /\ CameTo(Visited, kept, called, 1, 1) BY <1>1, <2>1, NothingYet
    <2>3. at[Lifespan] = 1 /\ 1 \in 1..(Len(Visited) + 1) /\ Len(kept) + 1 = 1
      BY <1>1, <2>1, TasksApart
    <2> QED BY <1>1, <1>4, <2>2, <2>3, PCsApart DEF LifeCame
  <1>8. ShutdownRuns BY <1>1, <1>2 DEF ShutdownRuns
  <1>9. CallsInOrder BY <1>1 DEF CallsInOrder, AsDocumented
  <1> QED BY <1>3, <1>5, <1>6, <1>7, <1>8, <1>9 DEF LifecycleKept

\* What a task whose step takes it to p leaves true, of itself and of the others.
LEMMA LifeMoves ==
  ASSUME LifecycleKept, LifecycleTypeOK', CallsInOrder',
         NEW t \in LifecycleTasks, NEW p \in PCs, NEW i \in Nat \ {0}, pc[t] # "none",
         pc' = [pc EXCEPT ![t] = p], at' = [at EXCEPT ![t] = i], signals' = signals,
         done => done', broken' = {} => broken = {}, runner' = "none" => runner = "none",
         t = Lifespan => p \notin {"none", "kill"},
         runner' = "none" => /\ disposition' = disposition /\ done' = done
                             /\ p \in {"resolve", "on_application_bootstrap", "ended"}
                             /\ p = "ended" => broken' # {},
         runner' # "none" => AllKept(Visited, kept') /\ p \notin {"resolve", "on_application_bootstrap"},
         p \in {"microservices", "runner"} \cup ShutdownHooks => done' /\ (ShuttingDown(t) \/ ~done),
         p = "resolve" => /\ i \in 1..(Len(Visited) + 1) /\ KeptUpTo(Visited, kept', i)
                          /\ CameTo(Visited, kept', called', 1, Len(kept') + 1),
         p \in HookNames => /\ i \in 1..(Len(kept') + 1) /\ AllKept(Visited, kept')
                            /\ CameTo(Visited, kept', called', Stage[p], i),
         p \in {"microservices", "runner"} => CameTo(Visited, kept', called', 3, 1),
         runner' # "none" /\ ~done' => CameTo(Visited, kept', called', 3, 1),
         UNCHANGED <<kept, called>> \/ runner = "none" \/ ShuttingDown(t),
         done' /\ broken' = {} =>
           \/ p \in {"microservices", "runner"} \cup ShutdownHooks
           \/ AllCalled(Visited, called')
           \/ done /\ ~ShuttingDown(t) /\ called' = called,
         p = "ended" /\ broken' = {} => done'
  PROVE  LifecycleKept'
  <1>1. /\ LifecycleTypeOK /\ OneShutdown /\ BeforeServing /\ LifeCame /\ ShutdownRuns /\ CallsInOrder
    BY DEF LifecycleKept
  <1>2. /\ pc \in [LifecycleTasks -> PCs] /\ at \in [LifecycleTasks -> Nat \ {0}]
        /\ pc'[t] = p /\ at'[t] = i
        /\ \A u \in LifecycleTasks : u # t => pc'[u] = pc[u] /\ at'[u] = at[u]
    BY <1>1 DEF LifecycleTypeOK
  <1>3. runner = "none" => /\ t = Lifespan /\ ~done
                           /\ \A u \in LifecycleTasks : u # t => pc[u] = "none"
    BY <1>1, TasksApart DEF BeforeServing
  <1>4. runner # "none" => \A u \in LifecycleTasks : pc[u] \notin {"resolve", "on_application_bootstrap"}
    BY <1>1 DEF BeforeServing
  <1>5. OneShutdown'
    <2>1. \A u \in LifecycleTasks : ShuttingDown(u)' <=> pc'[u] \in {"microservices", "runner"} \cup ShutdownHooks
      BY DEF ShuttingDown
    <2>2. \A u \in LifecycleTasks : u # t /\ ShuttingDown(u)' => ShuttingDown(u) /\ done
      BY <1>1, <1>2, <2>1 DEF OneShutdown, ShuttingDown
    <2>3. ShuttingDown(t)' => done' /\ (ShuttingDown(t) \/ ~done) BY <1>2, <2>1
    <2>4. \A u \in LifecycleTasks : u # t /\ ShuttingDown(u)' => ~ShuttingDown(t)'
      BY <1>1, <2>2, <2>3 DEF OneShutdown
    <2>5. \A u, v \in LifecycleTasks : ShuttingDown(u)' /\ ShuttingDown(v)' => u = v
      BY <1>1, <2>2, <2>4 DEF OneShutdown
    <2>6. \A u \in LifecycleTasks : ShuttingDown(u)' => done' BY <2>2, <2>3
    <2> QED BY <2>5, <2>6 DEF OneShutdown
  <1>6. BeforeServing'
    <2>1. runner' = "none" =>
            /\ disposition' = Prior /\ ~done'
            /\ pc'[Lifespan] \in {"resolve", "on_application_bootstrap", "ended"}
            /\ \A k \in ExitTasks : pc'[k] = "none"
            /\ pc'[Lifespan] = "ended" => broken' # {}
      BY <1>1, <1>2, <1>3, TasksApart DEF BeforeServing, LifecycleTasks
    <2>2. runner' # "none" =>
            /\ AllKept(Visited, kept')
            /\ \A u \in LifecycleTasks : pc'[u] \notin {"resolve", "on_application_bootstrap"}
      BY <1>2, <1>3, <1>4
    <2>3. \A k \in ExitTasks : k > Len(signals') => pc'[k] = "none"
      BY <1>1, <1>2 DEF BeforeServing, LifecycleTasks
    <2>4. pc'[Lifespan] \notin {"none", "kill"} BY <1>1, <1>2, TasksApart DEF BeforeServing
    <2> QED BY <2>1, <2>2, <2>3, <2>4 DEF BeforeServing
  <1>7. LifeCame'
    <2>1. ASSUME NEW u \in LifecycleTasks, u # t
          PROVE  \/ UNCHANGED <<kept, called>>
                 \/ pc'[u] \notin {"resolve", "microservices", "runner"} \cup HookNames
      <3>1. CASE runner = "none" BY <1>2, <1>3, <2>1, <3>1, PCsApart
      <3>2. CASE runner # "none" /\ ShuttingDown(t)
        <4>1. ~ShuttingDown(u) BY <1>1, <2>1, <3>2 DEF OneShutdown
        <4> QED BY <1>2, <1>4, <2>1, <3>2, <4>1, PCsApart DEF ShuttingDown
      <3> QED BY <3>1, <3>2
    <2>2. pc'[Lifespan] = "resolve" =>
            /\ at'[Lifespan] \in 1..(Len(Visited) + 1) /\ KeptUpTo(Visited, kept', at'[Lifespan])
            /\ CameTo(Visited, kept', called', 1, Len(kept') + 1)
      <3>1. CASE Lifespan = t BY <1>2, <3>1
      <3>2. CASE Lifespan # t BY <1>1, <1>2, <2>1, <3>2, TasksApart DEF LifeCame
      <3> QED BY <3>1, <3>2
    <2>3. ASSUME NEW u \in LifecycleTasks, pc'[u] \in HookNames
          PROVE  /\ at'[u] \in 1..(Len(kept') + 1) /\ AllKept(Visited, kept')
                 /\ CameTo(Visited, kept', called', Stage[pc'[u]], at'[u])
      <3>1. CASE u = t BY <1>2, <2>3, <3>1
      <3>2. CASE u # t BY <1>1, <1>2, <2>1, <2>3, <3>2 DEF LifeCame
      <3> QED BY <3>1, <3>2
    <2>4. ASSUME NEW u \in LifecycleTasks, pc'[u] \in {"microservices", "runner"}
          PROVE  CameTo(Visited, kept', called', 3, 1)
      <3>1. CASE u = t BY <1>2, <2>4, <3>1
      <3>2. CASE u # t BY <1>1, <1>2, <2>1, <2>4, <3>2 DEF LifeCame
      <3> QED BY <3>1, <3>2
    <2> QED BY <2>2, <2>3, <2>4 DEF LifeCame
  <1>8. ShutdownRuns'
    <2>1. ASSUME done', broken' = {}
          PROVE  (\E u \in LifecycleTasks : ShuttingDown(u)') \/ AllCalled(Visited, called')
      <3>1. CASE p \in {"microservices", "runner"} \cup ShutdownHooks
        BY <1>2, <3>1 DEF ShuttingDown
      <3>2. CASE AllCalled(Visited, called') BY <3>2
      <3>3. CASE done /\ ~ShuttingDown(t) /\ called' = called
        <4>1. CASE AllCalled(Visited, called) BY <3>3, <4>1
        <4>2. CASE \E u \in LifecycleTasks : ShuttingDown(u)
          <5>1. PICK u \in LifecycleTasks : ShuttingDown(u) BY <4>2
          <5>2. pc'[u] = pc[u] BY <1>2, <3>3, <5>1
          <5> QED BY <5>1, <5>2 DEF ShuttingDown
        <4> QED BY <1>1, <2>1, <3>3, <4>1, <4>2 DEF ShutdownRuns
      <3> QED BY <2>1, <3>1, <3>2, <3>3
    <2>2. pc'[Lifespan] = "ended" /\ broken' = {} => done'
      BY <1>1, <1>2, TasksApart DEF ShutdownRuns
    <2> QED BY <2>1, <2>2 DEF ShutdownRuns
  <1> QED BY <1>5, <1>6, <1>7, <1>8 DEF LifecycleKept

LEMMA LifecycleTypes == LifecycleKept /\ [LifecycleNext]_lifecycleVars => LifecycleTypeOK'
  <1> SUFFICES ASSUME LifecycleKept, [LifecycleNext]_lifecycleVars PROVE LifecycleTypeOK' OBVIOUS
  <1>1. LifecycleTypeOK BY DEF LifecycleKept
  <1>2. Visited \in Seq(Instances) BY HooksAssumption DEF Visited
  <1>3. CASE UNCHANGED lifecycleVars BY <1>1, <1>3 DEF lifecycleVars, LifecycleTypeOK
  <1>4. ASSUME NEW s \in Signals, Signal(s) PROVE LifecycleTypeOK'
    <2>1. signals' \in Seq(Signals) /\ Len(signals') <= MaxSignals
      <3>1. signals \in Seq(Signals) /\ Len(signals) < MaxSignals /\ signals' = Append(signals, s)
        BY <1>1, <1>4 DEF Signal, LifecycleTypeOK
      <3> QED BY <3>1, LifecycleAssumption
    <2>2. signal' \in Signals \cup {NoSignal} BY <1>1, <1>4 DEF Signal, LifecycleTypeOK
    <2>3. pc' \in [LifecycleTasks -> PCs] /\ alive' \in BOOLEAN /\ stopping' \in BOOLEAN
      <3>1. "shutdown" \in PCs BY DEF PCs
      <3>2. CASE disposition[s] = "none" BY <1>1, <1>4, <3>2 DEF Signal, LifecycleTypeOK
      <3>3. CASE disposition[s] = "fanest" /\ Prior[s] = "none"
        BY <1>1, <1>4, <3>1, <3>3 DEF Signal, LifecycleTypeOK
      <3>4. CASE disposition[s] # "none" /\ ~(disposition[s] = "fanest" /\ Prior[s] = "none")
        BY <1>1, <1>4, <3>4 DEF Signal, LifecycleTypeOK, Chained
      <3> QED BY <3>2, <3>3, <3>4
    <2> QED BY <1>1, <1>4, <2>1, <2>2, <2>3 DEF Signal, LifecycleTypeOK
  <1>5. ASSUME NEW t \in LifecycleTasks, Work(t) \/ StopServing(t) PROVE LifecycleTypeOK'
    <2>1. at[t] \in Nat \ {0} /\ at[t] + 1 \in Nat \ {0} /\ pc[t] \in PCs BY <1>1 DEF LifecycleTypeOK
    <2>2. CASE ResolveNext(t)
      <3>1. CASE Among(kept, Visited[at[t]]) BY <1>1, <2>1, <2>2, <3>1 DEF ResolveNext, LifecycleTypeOK
      <3>2. CASE ~Among(kept, Visited[at[t]])
        <4> DEFINE x == Visited[at[t]]
        <4>1. x \in Instances BY <1>2, <2>1, <2>2 DEF ResolveNext
        <4>2. kept' = Append(kept, x) /\ called' = Calling(called, "on_module_init", x)
          BY <2>2, <3>2 DEF ResolveNext
        <4> HIDE DEF x
        <4>3. kept \in Seq(Instances) /\ called \in Seq(HookNames \X Instances) BY <1>1 DEF LifecycleTypeOK
        <4>4. called' \in Seq(HookNames \X Instances) BY <4>1, <4>2, <4>3 DEF Calling, HookNames
        <4>5. kept' \in Seq(Instances) /\ \A i, j \in DOMAIN kept' : kept'[i] = kept'[j] => i = j
          <5>1. \A i \in DOMAIN kept : kept[i] # x BY <3>2 DEF Among, x
          <5>2. \A i, j \in DOMAIN kept : kept[i] = kept[j] => i = j BY <1>1 DEF LifecycleTypeOK
          <5>3. DOMAIN kept' = DOMAIN kept \cup {Len(kept) + 1} BY <4>1, <4>2, <4>3
          <5>4. kept'[Len(kept) + 1] = x /\ \A i \in DOMAIN kept : kept'[i] = kept[i] BY <4>1, <4>2, <4>3
          <5> QED BY <4>1, <4>2, <4>3, <5>1, <5>2, <5>3, <5>4
        <4> QED BY <1>1, <2>1, <2>2, <4>4, <4>5 DEF ResolveNext, LifecycleTypeOK
      <3> QED BY <3>1, <3>2
    <2>3. CASE NextHook(t)
      <3> DEFINE x == Turn(pc[t], kept, at[t])
      <3>1. kept \in Seq(Instances) /\ at[t] \in DOMAIN kept /\ pc[t] \in HookNames
        BY <1>1, <2>1, <2>3 DEF NextHook, MoreHooks, LifecycleTypeOK
      <3>2. x \in Instances BY <3>1, Turns
      <3>3. called' = Calling(called, pc[t], x) BY <2>3 DEF NextHook
      <3>4. called \in Seq(HookNames \X Instances) BY <1>1 DEF LifecycleTypeOK
      <3> HIDE DEF x
      <3>5. called' \in Seq(HookNames \X Instances) BY <3>1, <3>2, <3>3, <3>4 DEF Calling
      <3> QED BY <1>1, <2>1, <2>3, <3>5 DEF NextHook, LifecycleTypeOK
    <2>4. CASE AllVisited(t) BY <1>1, <2>4 DEF AllVisited, LifecycleTypeOK, PCs
    <2>5. CASE Serve(t) BY <1>1, <2>5 DEF Serve, LifecycleTypeOK, PCs
    <2>6. CASE BootFails(t) BY <1>1, <2>6 DEF BootFails, LifecycleTypeOK, PCs
    <2>7. CASE StopServing(t) BY <1>1, <2>7, LifecycleAssumption DEF StopServing, LifecycleTypeOK, PCs
    <2>8. CASE ShutdownOnce(t)
      <3>1. AfterShutdown(t) \in PCs /\ "microservices" \in PCs BY DEF AfterShutdown, PCs
      <3> QED BY <1>1, <2>8, <3>1 DEF ShutdownOnce, Take, LifecycleTypeOK
    <2>9. CASE MicroservicesClosed(t) BY <1>1, <2>9 DEF MicroservicesClosed, LifecycleTypeOK, PCs
    <2>10. CASE RunnerStopped(t) BY <1>1, <2>10, PCsApart, StageTyped DEF RunnerStopped, LifecycleTypeOK
    <2>11. CASE PassOver(t)
      <3>1. Following(pc[t]) \in PCs BY PCsApart, StageTyped DEF Following
      <3> QED BY <1>1, <2>11, <3>1 DEF PassOver, LifecycleTypeOK
    <2>12. CASE HooksOver(t)
      <3>1. AfterShutdown(t) \in PCs BY DEF AfterShutdown, PCs
      <3> QED BY <1>1, <2>12, <3>1 DEF HooksOver, LifecycleTypeOK
    <2>13. CASE ShutdownFails(t) BY <1>1, <2>13 DEF ShutdownFails, LifecycleTypeOK, PCs
    <2>14. CASE Kill(t) BY <1>1, <2>14 DEF Kill, LifecycleTypeOK
    <2> QED BY <1>5, <2>2, <2>3, <2>4, <2>5, <2>6, <2>7, <2>8, <2>9, <2>10, <2>11, <2>12, <2>13, <2>14
         DEF Work
  <1> QED BY <1>3, <1>4, <1>5 DEF LifecycleNext

LEMMA SignalKeeps == ASSUME LifecycleKept, NEW s \in Signals, Signal(s), LifecycleTypeOK' PROVE LifecycleKept'
  <1>1. /\ LifecycleTypeOK /\ OneShutdown /\ BeforeServing /\ LifeCame /\ ShutdownRuns /\ CallsInOrder
    BY DEF LifecycleKept
  <1>2. /\ UNCHANGED <<at, kept, runner, done, told, disposition, called, broken>>
        /\ signals' = Append(signals, s) /\ Len(signals) < MaxSignals
    BY DEF Signal
  <1>3. Len(signals) \in Nat /\ Len(signals') = Len(signals) + 1 /\ pc \in [LifecycleTasks -> PCs]
    BY <1>1, <1>2 DEF LifecycleTypeOK
  <1> DEFINE k == Len(signals) + 1
  <1>4. k \in ExitTasks /\ k \in LifecycleTasks /\ k # Lifespan /\ pc[k] = "none"
    BY <1>1, <1>2, <1>3, TasksApart, LifecycleAssumption DEF BeforeServing, ExitTasks, LifecycleTasks
  <1>5. \/ pc' = pc
        \/ pc' = [pc EXCEPT ![k] = "shutdown"] /\ runner # "none"
    <2>1. CASE disposition[s] = "fanest" /\ Prior[s] = "none"
      <3>1. runner # "none" BY <1>1, <2>1 DEF BeforeServing
      <3>2. pc' = [pc EXCEPT ![k] = "shutdown"] BY <2>1 DEF Signal
      <3> QED BY <3>1, <3>2
    <2>2. CASE ~(disposition[s] = "fanest" /\ Prior[s] = "none") BY <2>2 DEF Signal
    <2> QED BY <2>1, <2>2
  <1> HIDE DEF k
  <1>6. /\ \A t \in LifecycleTasks : t # k => pc'[t] = pc[t]
        /\ pc'[k] \in {"none", "shutdown"} /\ (pc'[k] = "shutdown" => runner # "none")
    BY <1>3, <1>4, <1>5
  <1>7. \A t \in LifecycleTasks : ShuttingDown(t)' <=> ShuttingDown(t)
    BY <1>4, <1>6, PCsApart DEF ShuttingDown
  <1>8. OneShutdown' BY <1>1, <1>2, <1>7 DEF OneShutdown
  <1>9. BeforeServing'
    <2>1. \A j \in ExitTasks : j > Len(signals') => pc'[j] = "none"
      <3>1. SUFFICES ASSUME NEW j \in ExitTasks, j > Len(signals') PROVE pc'[j] = "none" OBVIOUS
      <3>2. j # k /\ j > Len(signals) /\ j \in LifecycleTasks
        BY <1>3, <3>1, TasksApart DEF k, LifecycleTasks
      <3> QED BY <1>1, <1>6, <3>2 DEF BeforeServing
    <2>2. pc'[Lifespan] = pc[Lifespan] BY <1>4, <1>6, TasksApart
    <2>3. \A t \in LifecycleTasks :
            pc'[t] \in {"resolve", "on_application_bootstrap"} => pc[t] = pc'[t]
      BY <1>6
    <2>4. runner = "none" => pc' = pc BY <1>5
    <2> QED BY <1>1, <1>2, <2>1, <2>2, <2>3, <2>4 DEF BeforeServing
  <1>10. LifeCame'
    <2>1. pc'[Lifespan] = pc[Lifespan] BY <1>4, <1>6, TasksApart
    <2>2. \A t \in LifecycleTasks :
            pc'[t] \in HookNames \cup {"microservices", "runner"} => pc'[t] = pc[t]
      BY <1>6, PCsApart
    <2>3. ASSUME NEW t \in LifecycleTasks, pc'[t] \in HookNames
          PROVE  /\ at'[t] \in 1..(Len(kept') + 1) /\ AllKept(Visited, kept')
                 /\ CameTo(Visited, kept', called', Stage[pc'[t]], at'[t])
      BY <1>1, <1>2, <2>2, <2>3 DEF LifeCame
    <2>4. ASSUME NEW t \in LifecycleTasks, pc'[t] \in {"microservices", "runner"}
          PROVE  CameTo(Visited, kept', called', 3, 1)
      BY <1>1, <1>2, <2>2, <2>4 DEF LifeCame
    <2>5. /\ pc'[Lifespan] = "resolve" =>
               /\ at'[Lifespan] \in 1..(Len(Visited) + 1) /\ KeptUpTo(Visited, kept', at'[Lifespan])
               /\ CameTo(Visited, kept', called', 1, Len(kept') + 1)
          /\ runner' # "none" /\ ~done' => CameTo(Visited, kept', called', 3, 1)
      BY <1>1, <1>2, <2>1 DEF LifeCame
    <2> QED BY <2>3, <2>4, <2>5 DEF LifeCame
  <1>11. ShutdownRuns'
    <2>1. pc'[Lifespan] = pc[Lifespan] BY <1>4, <1>6, TasksApart
    <2>2. (\E t \in LifecycleTasks : ShuttingDown(t)) => \E t \in LifecycleTasks : ShuttingDown(t)'
      BY <1>7
    <2> QED BY <1>1, <1>2, <2>1, <2>2 DEF ShutdownRuns
  <1>12. CallsInOrder' BY <1>1, <1>2 DEF CallsInOrder
  <1> QED BY <1>8, <1>9, <1>10, <1>11, <1>12 DEF LifecycleKept

LEMMA LifecycleSteps == LifecycleKept /\ [LifecycleNext]_lifecycleVars => LifecycleKept'
  <1> SUFFICES ASSUME LifecycleKept, [LifecycleNext]_lifecycleVars PROVE LifecycleKept' OBVIOUS
  <1>1. /\ LifecycleTypeOK /\ OneShutdown /\ BeforeServing /\ LifeCame /\ ShutdownRuns /\ CallsInOrder
        /\ LifecycleTypeOK' /\ Visited \in Seq(Instances) /\ Len(Visited) \in Nat
        /\ DOMAIN Visited = 1..Len(Visited)
    BY LifecycleTypes, HooksAssumption DEF LifecycleKept, Visited
  <1>2. CASE UNCHANGED lifecycleVars
    BY <1>1, <1>2 DEF lifecycleVars, LifecycleKept, OneShutdown, ShuttingDown, BeforeServing, LifeCame,
       ShutdownRuns, CallsInOrder
  <1>3. CASE \E s \in Signals : Signal(s) BY <1>1, <1>3, SignalKeeps
  <1>4. SUFFICES ASSUME NEW t \in LifecycleTasks, Work(t) \/ StopServing(t) PROVE LifecycleKept'
    BY <1>2, <1>3 DEF LifecycleNext
  <1>5. /\ pc \in [LifecycleTasks -> PCs] /\ pc[t] \in PCs /\ at \in [LifecycleTasks -> Nat \ {0}]
        /\ at[t] \in Nat \ {0} /\ kept \in Seq(Instances) /\ Len(kept) \in Nat
        /\ runner \in {"none", "running", "stopped"}
        /\ at = [at EXCEPT ![t] = at[t]] /\ pc = [pc EXCEPT ![t] = pc[t]]
    BY <1>1 DEF LifecycleTypeOK
  <1>6. /\ runner = "none" => /\ ~done
                              /\ pc[t] \in {"none", "resolve", "on_application_bootstrap", "ended"}
        /\ runner # "none" => AllKept(Visited, kept) /\ pc[t] \notin {"resolve", "on_application_bootstrap"}
        /\ ShuttingDown(t) => done
    BY <1>1, TasksApart DEF BeforeServing, OneShutdown
  <1>7. ASSUME NEW t_at, t_at = at[t], pc[t] \in HookNames
        PROVE  /\ t_at \in 1..(Len(kept) + 1) /\ AllKept(Visited, kept)
               /\ CameTo(Visited, kept, called, Stage[pc[t]], t_at)
    BY <1>1, <1>7 DEF LifeCame
  <1>8. CASE ResolveNext(t)
    <2> USE <1>8 DEF ResolveNext
    <2>1. t = Lifespan /\ runner = "none" /\ ~done BY <1>6
    <2>2. /\ KeptUpTo(Visited, kept, at[t]) /\ CameTo(Visited, kept, called, 1, Len(kept) + 1)
          /\ at[t] \in DOMAIN Visited /\ at[t] + 1 \in 1..(Len(Visited) + 1)
      BY <1>1, <1>5 DEF LifeCame
    <2>3. KeptUpTo(Visited, kept', at[t] + 1) /\ CameTo(Visited, kept', called', 1, Len(kept') + 1)
      <3>1. CASE Among(kept, Visited[at[t]]) BY <1>1, <2>2, <3>1, KeepStep
      <3>2. CASE ~Among(kept, Visited[at[t]])
        <4>1. /\ kept' = Append(kept, Visited[at[t]])
              /\ called' = Calling(called, "on_module_init", Visited[at[t]])
          BY <3>2
        <4>2. KeptUpTo(Visited, kept', at[t] + 1) BY <1>1, <2>2, <3>2, <4>1, KeepStep
        <4>3. CameTo(Visited, kept', called', 1, Len(kept') + 1)
          BY <1>1, <2>2, <3>2, <4>1, FoundStep
        <4> QED BY <4>2, <4>3
      <3> QED BY <3>1, <3>2
    <2>4. CallsInOrder'
      <3>1. kept' \in Seq(Instances) BY <1>1 DEF LifecycleTypeOK
      <3>2. Len(kept') + 1 \in 1..(Len(kept') + 1) BY <3>1
      <3> QED BY <2>2, <2>3, <3>2, LifeReaches DEF CallsInOrder
    <2>5. /\ pc[t] = "resolve" /\ pc' = [pc EXCEPT ![t] = "resolve"] /\ at' = [at EXCEPT ![t] = at[t] + 1]
          /\ UNCHANGED <<signals, done, broken, runner, disposition>> /\ at[t] + 1 \in Nat \ {0}
      BY <1>5
    <2>6. "resolve" \notin HookNames \cup ShutdownHooks \cup {"microservices", "runner", "none", "kill", "ended"}
          /\ "resolve" \in PCs
      BY PCsApart DEF PCs
    <2> HIDE DEF ResolveNext
    <2> QED BY <1>1, <2>1, <2>2, <2>3, <2>4, <2>5, <2>6, LifeMoves
  <1>9. CASE AllVisited(t)
    <2> USE <1>9 DEF AllVisited
    <2> DEFINE h == "on_application_bootstrap"
    <2>1. t = Lifespan /\ runner = "none" /\ ~done BY <1>6
    <2>2. /\ KeptUpTo(Visited, kept, at[t]) /\ CameTo(Visited, kept, called, 1, Len(kept) + 1)
          /\ at[t] = Len(Visited) + 1
      BY <1>1, <1>5 DEF LifeCame
    <2>3. AllKept(Visited, kept) BY <2>2 DEF AllKept
    <2>4. CameTo(Visited, kept, called, 1 + 1, 1) BY <1>1, <2>2, <2>3, PassStep
    <2>5. Stage[h] = 1 + 1 BY StageTyped
    <2>6. /\ pc[t] # "none" /\ pc' = [pc EXCEPT ![t] = h] /\ at' = [at EXCEPT ![t] = 1]
          /\ UNCHANGED <<signals, done, broken, runner, disposition, kept, called>>
          /\ 1 \in 1..(Len(kept') + 1)
      BY <1>5
    <2>7. h \notin ShutdownHooks /\ h \in PCs BY PCsApart DEF PCs
    <2>8. CallsInOrder' BY <1>1 DEF CallsInOrder
    <2>9. CameTo(Visited, kept', called', Stage[h], 1) /\ AllKept(Visited, kept') BY <2>3, <2>4, <2>5, <2>6
    <2>10. 1 \in Nat \ {0} /\ h \in HookNames /\ h \notin {"none", "kill", "resolve", "microservices", "runner", "ended"}
      BY PCsApart
    <2> HIDE DEF AllVisited
    <2> QED BY <1>1, <2>1, <2>6, <2>7, <2>8, <2>9, <2>10, LifeMoves
  <1>10. CASE NextHook(t)
    <2> USE <1>10 DEF NextHook, MoreHooks
    <2> DEFINE h == pc[t]
    <2>1. /\ AllKept(Visited, kept) /\ CameTo(Visited, kept, called, Stage[h], at[t])
          /\ at[t] \in 1..(Len(kept) + 1) /\ h \in HookNames
      BY <1>7
    <2>2. KeptUpTo(Visited, kept, Len(Visited) + 1) BY <2>1 DEF AllKept
    <2>3. at[t] \in DOMAIN kept /\ at[t] + 1 \in 1..(Len(kept) + 1) /\ at[t] + 1 \in Nat \ {0}
      BY <1>5, <2>1
    <2>4. CameTo(Visited, kept, called', Stage[h], at[t] + 1)
      BY <1>1, <2>1, <2>2, <2>3, HookStep
    <2>5. CallsInOrder'
      <3>1. Stage[h] \in 1..6 BY <2>1, StageTyped
      <3>2. Len(Visited) + 1 \in 1..(Len(Visited) + 1) BY <1>1
      <3> QED BY <2>1, <2>2, <2>3, <2>4, <3>1, <3>2, LifeReaches DEF CallsInOrder
    <2>6. h \in ShutdownHooks \/ h = "on_application_bootstrap" BY <1>5, <2>1, PCsApart
    <2>7. /\ h \in ShutdownHooks => ShuttingDown(t) /\ done /\ runner # "none"
          /\ h = "on_application_bootstrap" => runner = "none" /\ ~done /\ h \notin ShutdownHooks
      BY <1>1, <1>5, <1>6, PCsApart DEF ShuttingDown
    <2>8. h \notin {"none", "kill", "resolve", "microservices", "runner", "ended"} BY <2>1, PCsApart
    <2>9. /\ pc' = [pc EXCEPT ![t] = h] /\ at' = [at EXCEPT ![t] = at[t] + 1] /\ h \in PCs
          /\ UNCHANGED <<signals, done, broken, runner, disposition, kept>>
      BY <1>5
    <2>10. CameTo(Visited, kept', called', Stage[h], at[t] + 1) /\ AllKept(Visited, kept')
           /\ at[t] + 1 \in 1..(Len(kept') + 1)
      BY <2>1, <2>3, <2>4, <2>9
    <2>11. pc[t] # "none" BY <2>8
    <2> HIDE DEF NextHook, MoreHooks, h
    <2> QED BY <1>1, <2>3, <2>5, <2>6, <2>7, <2>8, <2>9, <2>10, <2>11, LifeMoves
  <1>11. CASE Serve(t)
    <2> USE <1>11 DEF Serve
    <2>1. t = Lifespan /\ runner = "none" /\ ~done /\ pc[t] = "on_application_bootstrap" BY <1>6
    <2>2. AllKept(Visited, kept) /\ CameTo(Visited, kept, called, 2, Len(kept) + 1)
      <3>1. pc[t] \in HookNames /\ Stage[pc[t]] = 2 BY <2>1, PCsApart, StageTyped
      <3>2. at[t] \in 1..(Len(kept) + 1) /\ AllKept(Visited, kept) /\ CameTo(Visited, kept, called, 2, at[t])
        BY <1>7, <3>1
      <3>3. at[t] = Len(kept) + 1 BY <1>5, <3>2
      <3> QED BY <3>2, <3>3
    <2>3. CameTo(Visited, kept, called, 2 + 1, 1) BY <1>1, <2>2, PassStep
    <2>4. /\ pc[t] # "none" /\ pc' = [pc EXCEPT ![t] = "serving"] /\ at' = [at EXCEPT ![t] = at[t]]
          /\ UNCHANGED <<signals, done, broken, kept, called>> /\ runner' # "none"
      BY <1>5
    <2>5. "serving" \notin HookNames \cup ShutdownHooks /\ "serving" \in PCs BY PCsApart DEF PCs
    <2>6. CallsInOrder' BY <1>1 DEF CallsInOrder
    <2>7. CameTo(Visited, kept', called', 3, 1) /\ AllKept(Visited, kept') BY <2>2, <2>3, <2>4
    <2> HIDE DEF Serve
    <2> QED BY <1>1, <1>5, <2>1, <2>4, <2>5, <2>6, <2>7, LifeMoves
  <1>12. CASE BootFails(t)
    <2> USE <1>12 DEF BootFails
    <2>1. t = Lifespan /\ runner = "none" /\ ~done /\ pc[t] # "none" BY <1>6
    <2>2. /\ pc' = [pc EXCEPT ![t] = "ended"] /\ at' = [at EXCEPT ![t] = at[t]]
          /\ UNCHANGED <<signals, done, disposition, kept, called, runner>> /\ broken' # {}
      BY <1>5
    <2>3. "ended" \notin HookNames \cup ShutdownHooks /\ "ended" \in PCs BY PCsApart DEF PCs
    <2>4. CallsInOrder' BY <1>1 DEF CallsInOrder
    <2> HIDE DEF BootFails
    <2> QED BY <1>1, <1>5, <2>1, <2>2, <2>3, <2>4, LifeMoves
  <1>13. CASE StopServing(t)
    <2> USE <1>13 DEF StopServing
    <2>1. t = Lifespan /\ runner # "none" /\ pc[t] = "serving" BY <1>6
    <2>2. /\ pc' = [pc EXCEPT ![t] = "shutdown"] /\ at' = [at EXCEPT ![t] = at[t]]
          /\ UNCHANGED <<signals, done, broken, kept, called, runner>>
      BY <1>5
    <2>3. "shutdown" \notin HookNames \cup ShutdownHooks /\ "shutdown" \in PCs BY PCsApart DEF PCs
    <2>4. CallsInOrder' BY <1>1 DEF CallsInOrder
    <2>5. ~ShuttingDown(t) BY <2>1, PCsApart DEF ShuttingDown
    <2>6. AllKept(Visited, kept') /\ (~done' => CameTo(Visited, kept', called', 3, 1))
      BY <1>1, <1>6, <2>1, <2>2 DEF LifeCame
    <2> HIDE DEF StopServing
    <2> QED BY <1>1, <1>5, <2>1, <2>2, <2>3, <2>4, <2>5, <2>6, LifeMoves
  <1>14. CASE ShutdownOnce(t)
    <2> USE <1>14 DEF ShutdownOnce, Take
    <2> DEFINE p == IF done THEN AfterShutdown(t) ELSE "microservices"
    <2>1. runner # "none" /\ pc[t] = "shutdown" BY <1>6
    <2>2. /\ pc' = [pc EXCEPT ![t] = p] /\ at' = [at EXCEPT ![t] = at[t]] /\ done'
          /\ UNCHANGED <<signals, broken, kept, called, runner>>
      BY <1>5
    <2>3. /\ p \in PCs /\ p \notin HookNames \cup ShutdownHooks
          /\ p \notin {"none", "resolve", "on_application_bootstrap", "runner"}
          /\ t = Lifespan => p # "kill"
          /\ p = "microservices" <=> ~done
      BY PCsApart DEF PCs, AfterShutdown
    <2>4. CallsInOrder' BY <1>1 DEF CallsInOrder
    <2>5. ~ShuttingDown(t) BY <2>1, PCsApart DEF ShuttingDown
    <2>6. AllKept(Visited, kept') /\ (~done => CameTo(Visited, kept', called', 3, 1))
      BY <1>1, <1>6, <2>1, <2>2 DEF LifeCame
    <2> HIDE DEF ShutdownOnce, Take, p
    <2> QED BY <1>1, <1>5, <2>1, <2>2, <2>3, <2>4, <2>5, <2>6, LifeMoves
  <1>15. CASE MicroservicesClosed(t)
    <2> USE <1>15 DEF MicroservicesClosed
    <2>1. ShuttingDown(t) /\ done /\ runner # "none" /\ pc[t] = "microservices" BY <1>6 DEF ShuttingDown
    <2>2. /\ pc' = [pc EXCEPT ![t] = "runner"] /\ at' = [at EXCEPT ![t] = at[t]]
          /\ UNCHANGED <<signals, done, broken, kept, called, runner>>
      BY <1>5
    <2>3. "runner" \notin HookNames \cup ShutdownHooks /\ "runner" \in PCs BY PCsApart DEF PCs
    <2>4. CallsInOrder' BY <1>1 DEF CallsInOrder
    <2>5. AllKept(Visited, kept') /\ CameTo(Visited, kept', called', 3, 1)
      BY <1>1, <1>6, <2>1, <2>2 DEF LifeCame
    <2> HIDE DEF MicroservicesClosed
    <2> QED BY <1>1, <1>5, <2>1, <2>2, <2>3, <2>4, <2>5, LifeMoves
  <1>16. CASE RunnerStopped(t)
    <2> USE <1>16 DEF RunnerStopped
    <2> DEFINE h == "on_module_destroy"
    <2>1. ShuttingDown(t) /\ done /\ runner # "none" /\ pc[t] = "runner" BY <1>6 DEF ShuttingDown
    <2>2. /\ pc' = [pc EXCEPT ![t] = h] /\ at' = [at EXCEPT ![t] = 1]
          /\ UNCHANGED <<signals, done, broken, kept, called>> /\ runner' # "none"
          /\ 1 \in 1..(Len(kept') + 1)
      BY <1>5
    <2>3. h \in HookNames /\ h \in ShutdownHooks /\ h \in PCs /\ Stage[h] = 3 BY PCsApart, StageTyped
    <2>4. CallsInOrder' BY <1>1 DEF CallsInOrder
    <2>5. AllKept(Visited, kept') /\ CameTo(Visited, kept', called', Stage[h], 1)
      BY <1>1, <1>6, <2>1, <2>2, <2>3 DEF LifeCame
    <2>6. 1 \in Nat \ {0} /\ h \notin {"none", "kill", "resolve", "microservices", "runner", "ended", "on_application_bootstrap"}
      OBVIOUS
    <2> HIDE DEF RunnerStopped, h
    <2> QED BY <1>1, <2>1, <2>2, <2>3, <2>4, <2>5, <2>6, LifeMoves
  <1>17. CASE PassOver(t)
    <2> USE <1>17 DEF PassOver
    <2> DEFINE g == pc[t]
               h == Following(g)
    <2>1. /\ g \in HookNames /\ h \in HookNames /\ h \in ShutdownHooks /\ h \in PCs
          /\ Stage[h] = Stage[g] + 1 /\ Stage[g] \in 1..5
      BY PCsApart, StageTyped DEF Following
    <2>2. ShuttingDown(t) /\ done /\ runner # "none" /\ g # "none" BY <1>6, PCsApart DEF ShuttingDown
    <2>3. AllKept(Visited, kept) /\ CameTo(Visited, kept, called, Stage[g], Len(kept) + 1)
      <3>1. at[t] \in 1..(Len(kept) + 1) /\ AllKept(Visited, kept)
            /\ CameTo(Visited, kept, called, Stage[g], at[t])
        BY <1>7, <2>1
      <3>2. at[t] = Len(kept) + 1 BY <1>5, <3>1
      <3> QED BY <3>1, <3>2
    <2>4. CameTo(Visited, kept, called, Stage[g] + 1, 1) BY <1>1, <2>1, <2>3, PassStep
    <2>5. /\ pc' = [pc EXCEPT ![t] = h] /\ at' = [at EXCEPT ![t] = 1]
          /\ UNCHANGED <<signals, done, broken, kept, called, runner>>
          /\ 1 \in 1..(Len(kept') + 1)
      BY <1>5
    <2>6. CallsInOrder' BY <1>1 DEF CallsInOrder
    <2>7. AllKept(Visited, kept') /\ CameTo(Visited, kept', called', Stage[h], 1)
      BY <2>1, <2>3, <2>4, <2>5
    <2>8. h \notin {"resolve", "on_application_bootstrap", "none", "kill", "microservices", "runner", "ended"}
      BY <2>1, PCsApart
    <2>9. 1 \in Nat \ {0} /\ pc[t] # "none" BY <2>2
    <2> HIDE DEF PassOver, g, h
    <2> QED BY <1>1, <2>1, <2>2, <2>5, <2>6, <2>7, <2>8, <2>9, LifeMoves
  <1>18. CASE HooksOver(t)
    <2> USE <1>18 DEF HooksOver
    <2>1. /\ ShuttingDown(t) /\ done /\ runner # "none" /\ pc[t] = "on_application_shutdown"
          /\ pc[t] \in HookNames /\ Stage[pc[t]] = 5
      BY <1>6, PCsApart, StageTyped DEF ShuttingDown
    <2>2. AllKept(Visited, kept) /\ CameTo(Visited, kept, called, 5, Len(kept) + 1)
      <3>1. at[t] \in 1..(Len(kept) + 1) /\ AllKept(Visited, kept) /\ CameTo(Visited, kept, called, 5, at[t])
        BY <1>7, <2>1
      <3>2. at[t] = Len(kept) + 1 BY <1>5, <3>1
      <3> QED BY <3>1, <3>2
    <2>3. CameTo(Visited, kept, called, 5 + 1, 1) BY <1>1, <2>2, PassStep
    <2>4. AllCalled(Visited, called) BY <2>3, AllOver
    <2>5. /\ pc' = [pc EXCEPT ![t] = AfterShutdown(t)] /\ at' = [at EXCEPT ![t] = at[t]]
          /\ UNCHANGED <<signals, done, broken, kept, called, runner>>
      BY <1>5
    <2>6. /\ AfterShutdown(t) \in PCs /\ AfterShutdown(t) \notin HookNames \cup ShutdownHooks
          /\ AfterShutdown(t) \notin {"none", "resolve", "on_application_bootstrap", "runner", "microservices"}
          /\ t = Lifespan => AfterShutdown(t) # "kill"
      BY PCsApart DEF PCs, AfterShutdown
    <2>7. CallsInOrder' BY <1>1 DEF CallsInOrder
    <2>8. AllKept(Visited, kept') /\ AllCalled(Visited, called') BY <2>2, <2>4, <2>5
    <2> HIDE DEF HooksOver
    <2> QED BY <1>1, <1>5, <2>1, <2>5, <2>6, <2>7, <2>8, LifeMoves
  <1>19. CASE ShutdownFails(t)
    <2> USE <1>19 DEF ShutdownFails
    <2>1. ShuttingDown(t) /\ done /\ runner # "none" /\ pc[t] # "none" BY <1>6, PCsApart DEF ShuttingDown
    <2>2. /\ pc' = [pc EXCEPT ![t] = "ended"] /\ at' = [at EXCEPT ![t] = at[t]]
          /\ UNCHANGED <<signals, done, disposition, kept, called, runner>> /\ broken' # {}
      BY <1>5
    <2>3. "ended" \notin HookNames \cup ShutdownHooks /\ "ended" \in PCs BY PCsApart DEF PCs
    <2>4. CallsInOrder' BY <1>1 DEF CallsInOrder
    <2>5. AllKept(Visited, kept') BY <1>6, <2>1, <2>2
    <2> HIDE DEF ShutdownFails
    <2> QED BY <1>1, <1>5, <2>1, <2>2, <2>3, <2>4, <2>5, LifeMoves
  <1>20. CASE Kill(t)
    BY <1>1, <1>20 DEF Kill, LifecycleKept, OneShutdown, ShuttingDown, BeforeServing, LifeCame,
       ShutdownRuns, CallsInOrder
  <1> QED BY <1>4, <1>8, <1>9, <1>10, <1>11, <1>12, <1>13, <1>14, <1>15, <1>16, <1>17, <1>18, <1>19, <1>20
       DEF Work

\* However signals, the end of the server and hooks that raise interleave, at most one
\* task shuts the application down, hooks are called in the documented order
\* (factory.py:568, 659-666), none twice, and a lifespan that ends with nothing raised
\* and no exit task at work has left none out.
THEOREM HooksAlways == LifecycleSpec => []HooksInOrder
  <1>1. LifecycleKept => HooksInOrder
    <2>1. SUFFICES ASSUME LifecycleKept PROVE NoHookLeftOut BY DEF LifecycleKept, HooksInOrder
    <2>2. SUFFICES ASSUME pc[Lifespan] = "ended", broken = {}, \A t \in ExitTasks : pc[t] = "none"
                   PROVE  AllCalled(Visited, called)
      BY DEF NoHookLeftOut
    <2>3. \A t \in LifecycleTasks : ~ShuttingDown(t)
      BY <2>2, TasksApart, PCsApart DEF ShuttingDown
    <2> QED BY <2>1, <2>2, <2>3 DEF LifecycleKept, ShutdownRuns
  <1> QED BY <1>1, LifecycleStarts, LifecycleSteps, PTL DEF LifecycleSpec

-----------------------------------------------------------------------------
(* Induction over numbers.  The library's theorems for it take a predicate; a *)
(* set of numbers does as well.                                              *)
LEMMA LeastNumber ==
  ASSUME NEW T, T \subseteq Nat, T # {}
  PROVE  \E x \in T : \A y \in T : x <= y
<1>1. IsWellFoundedOn(OpToRel(<, Nat), Nat) BY NatLessThanWellFounded
<1>2. PICK x \in T : \A y \in T : <<y, x>> \notin OpToRel(<, Nat) BY <1>1, WFMin
<1>3. ASSUME NEW y \in T PROVE x <= y
  <2>1. x \in Nat /\ y \in Nat OBVIOUS
  <2>2. ~(y < x) BY <1>2, <2>1 DEF OpToRel
  <2>3. QED BY <2>1, <2>2
<1>4. QED BY <1>3

LEMMA UpTo ==
  ASSUME NEW n \in Nat, NEW T, 0 \in T, \A m \in 0 .. n : m \in T /\ m < n => m + 1 \in T
  PROVE  0 .. n \subseteq T
<1>1. SUFFICES ASSUME (0 .. n) \ T # {} PROVE FALSE OBVIOUS
<1>0. (0 .. n) \ T \subseteq Nat OBVIOUS
<1>2. PICK x \in (0 .. n) \ T : \A y \in (0 .. n) \ T : x <= y BY <1>0, <1>1, LeastNumber
<1>3. x # 0 /\ x - 1 \in 0 .. n /\ x - 1 < n OBVIOUS
<1>4. x - 1 \in T BY <1>2, <1>3
<1>5. QED BY <1>3, <1>4

\* A function of the numbers up to n is given by its first value and what
\* follows from each.
Steps(n, V) == [(0 .. n) \X V -> V]
Iteration(f, n, V, base, rule) ==
  f \in [0 .. n -> V] /\ f[0] = base /\ \A i \in 1 .. n : f[i] = rule[<<i, f[i - 1]>>]

LEMMA Iterates ==
  ASSUME NEW n \in Nat, NEW V, NEW base \in V, NEW rule \in Steps(n, V)
  PROVE  \E f : Iteration(f, n, V, base, rule)
<1> USE DEF Steps, Iteration
<1> DEFINE Good(f, m) == f \in [0 .. m -> V] /\ f[0] = base /\ \A i \in 1 .. m : f[i] = rule[<<i, f[i - 1]>>]
           T == {m \in 0 .. n : \E f \in [0 .. m -> V] : Good(f, m)}
<1>1. 0 \in T
  <2>1. PICK f : f = [i \in 0 .. 0 |-> base] OBVIOUS
  <2>2. f \in [0 .. 0 -> V] /\ Good(f, 0) BY <2>1
  <2>3. QED BY <2>2
<1>2. ASSUME NEW m \in 0 .. n, m \in T, m < n PROVE m + 1 \in T
  <2>1. PICK f \in [0 .. m -> V] : Good(f, m) BY <1>2
  <2>2. PICK g : g = [i \in 0 .. m + 1 |-> IF i = m + 1 THEN rule[<<m + 1, f[m]>>] ELSE f[i]] OBVIOUS
  <2>3. m + 1 \in 0 .. n /\ m \in 0 .. m /\ <<m + 1, f[m]>> \in (0 .. n) \X V BY <1>2, <2>1
  <2>4. rule[<<m + 1, f[m]>>] \in V BY <2>3
  <2>5. g \in [0 .. m + 1 -> V] BY <2>1, <2>2, <2>4
  <2>6. \A i \in 0 .. m : g[i] = f[i] BY <2>2
  <2>7. ASSUME NEW i \in 1 .. m + 1 PROVE g[i] = rule[<<i, g[i - 1]>>]
    <3>1. CASE i = m + 1
      <4>1. i - 1 = m /\ g[m] = f[m] BY <3>1, <2>3, <2>6
      <4>2. g[i] = rule[<<m + 1, f[m]>>] BY <3>1, <2>2
      <4>3. QED BY <3>1, <4>1, <4>2
    <3>2. CASE i # m + 1
      <4>1. i \in 1 .. m /\ i \in 0 .. m /\ i - 1 \in 0 .. m BY <3>2
      <4>2. g[i] = f[i] /\ g[i - 1] = f[i - 1] BY <4>1, <2>6
      <4>3. f[i] = rule[<<i, f[i - 1]>>] BY <4>1, <2>1
      <4>4. QED BY <4>2, <4>3
    <3>3. QED BY <3>1, <3>2
  <2>8. Good(g, m + 1) BY <2>1, <2>5, <2>6, <2>7
  <2>9. QED BY <2>3, <2>5, <2>8
<1>3. 0 .. n \subseteq T
  <2> HIDE DEF T
  <2>1. QED BY <1>1, <1>2, UpTo
<1>4. n \in T
  <2> HIDE DEF T
  <2>1. QED BY <1>3
<1>5. QED BY <1>4

-----------------------------------------------------------------------------
(* What the searches of ProviderScope find *)

Findings == [owner : Owners \cup {None}, seen : SUBSET Modules]
Searches == Modules \X SUBSET Modules
AppTyped == app \in Applications /\ shared \in [Toks -> AnyProvider \cup {None}]
Tabled == app.imports \in [Modules -> Seq(Modules)] /\ app.globals \in Seq(Modules)

LEMMA AppIsTabled == AppTyped => Tabled BY DEF AppTyped, Tabled, Applications

Around(m) == app.imports[m] \o app.globals
Asked(k, m, i) == k \in app.exports[Around(m)[i]] /\ (i <= Len(app.imports[m]) \/ Around(m)[i] # m)

LEMMA AroundTyped ==
  ASSUME Tabled, NEW m \in Modules
  PROVE  Around(m) \in Seq(Modules) /\ Len(Around(m)) \in Nat /\ \A i \in 1 .. Len(Around(m)) : Around(m)[i] \in Modules
<1>1. app.imports[m] \in Seq(Modules) /\ app.globals \in Seq(Modules) BY DEF Tabled
<1>2. Around(m) \in Seq(Modules) BY <1>1, ConcatProperties DEF Around
<1>3. QED BY <1>2

LEMMA UnfoundTyped ==
  ASSUME NEW k \in Toks, NEW seen \in SUBSET Modules
  PROVE  Unfound(k, seen) \in Findings
BY ScopeAssumption DEF Unfound, Findings, Owners

\* The findings after each of the modules around m.
Passing(u, k, m, seen, below) ==
  /\ u \in [0 .. Len(Around(m)) -> Findings]
  /\ u[0] = [owner |-> None, seen |-> seen]
  /\ \A i \in 1 .. Len(Around(m)) :
       u[i] = IF u[i - 1].owner # None \/ ~Asked(k, m, i) THEN u[i - 1]
              ELSE below[<<Around(m)[i], u[i - 1].seen>>]

LEMMA FindElsewhereRuns ==
  ASSUME Tabled, NEW k \in Toks, NEW m \in Modules, NEW seen \in SUBSET Modules,
         NEW below \in [Searches -> Findings]
  PROVE  \E u : /\ Passing(u, k, m, seen, below)
                /\ FindElsewhere(k, m, seen, below) =
                     LET last == u[Len(Around(m))]
                     IN IF last.owner # None THEN last ELSE Unfound(k, last.seen)
<1>0. PICK n \in Nat : n = Len(Around(m)) BY AroundTyped
<1>1. PICK base \in Findings : base = [owner |-> None, seen |-> seen] BY DEF Findings
<1> DEFINE Next_(i, v) == IF v.owner # None \/ ~Asked(k, m, i) THEN v ELSE below[<<Around(m)[i], v.seen>>]
           Runs(g) == g = [i \in 0 .. n |-> IF i = 0 THEN base ELSE Next_(i, g[i - 1])]
<1>2. PICK rule : rule = [p \in (0 .. n) \X Findings |-> IF p[1] = 0 THEN base ELSE Next_(p[1], p[2])] OBVIOUS
<1>3. ASSUME NEW p \in (0 .. n) \X Findings PROVE rule[p] \in Findings
  <2>1. p[2] \in Findings /\ p[2].seen \in SUBSET Modules BY DEF Findings
  <2>2. p[1] # 0 => Around(m)[p[1]] \in Modules BY <1>0, AroundTyped
  <2>3. p[1] # 0 => <<Around(m)[p[1]], p[2].seen>> \in Searches BY <2>1, <2>2 DEF Searches
  <2>4. p[1] # 0 => Next_(p[1], p[2]) \in Findings BY <2>1, <2>3
  <2>5. QED BY <1>2, <2>4
<1>4. rule \in Steps(n, Findings) BY <1>2, <1>3 DEF Steps
<1>5. PICK f : Iteration(f, n, Findings, base, rule) BY <1>4, Iterates
<1>6. \A i \in 1 .. n : f[i] = Next_(i, f[i - 1])
  <2>1. ASSUME NEW i \in 1 .. n PROVE f[i] = Next_(i, f[i - 1])
    <3>1. i - 1 \in 0 .. n /\ i \in 0 .. n /\ i # 0 OBVIOUS
    <3>2. f[i - 1] \in Findings /\ f[i] = rule[<<i, f[i - 1]>>] BY <3>1, <1>5 DEF Iteration
    <3>3. <<i, f[i - 1]>> \in (0 .. n) \X Findings BY <3>1, <3>2
    <3>4. rule[<<i, f[i - 1]>>] = Next_(i, f[i - 1]) BY <1>2, <3>1, <3>3
    <3>5. QED BY <3>2, <3>4
  <2>2. QED BY <2>1
<1>7. Runs(f)
  <2>1. f \in [0 .. n -> Findings] /\ f[0] = base BY <1>5 DEF Iteration
  <2>2. \A i \in 0 .. n : i # 0 => i \in 1 .. n OBVIOUS
  <2> HIDE DEF Next_
  <2>3. QED BY <1>6, <2>1, <2>2
<1> DEFINE h == CHOOSE g : Runs(g)
<1>8. Runs(h)
  <2> HIDE DEF Runs
  <2>1. QED BY <1>7
<1>9. FindElsewhere(k, m, seen, below) =
        LET last == h[n] IN IF last.owner # None THEN last ELSE Unfound(k, last.seen)
  BY <1>0, <1>1 DEF FindElsewhere, Around, Asked
<1>10. h[0] = base /\ \A i \in 1 .. n : h[i] = Next_(i, h[i - 1])
  <2>1. \A i \in 0 .. n : h[i] = IF i = 0 THEN base ELSE Next_(i, h[i - 1]) BY <1>8
  <2> HIDE DEF h, Next_
  <2>2. 0 \in 0 .. n /\ \A i \in 1 .. n : i \in 0 .. n /\ i # 0 OBVIOUS
  <2>3. QED BY <2>1, <2>2
<1> HIDE DEF h
<1>11. \A i \in 0 .. n : h[i] \in Findings
  <2> DEFINE T == {i \in 0 .. n : h[i] \in Findings}
  <2>1. 0 \in T BY <1>10
  <2>2. ASSUME NEW i \in 0 .. n, i \in T, i < n PROVE i + 1 \in T
    <3>1. i + 1 \in 1 .. n /\ i + 1 \in 0 .. n /\ (i + 1) - 1 = i /\ i + 1 # 0 BY <2>2
    <3>2. h[i + 1] = Next_(i + 1, h[i])
      <4> HIDE DEF Next_
      <4>1. QED BY <3>1, <1>10
    <3>3. <<i + 1, h[i]>> \in (0 .. n) \X Findings BY <3>1, <2>2
    <3>4. rule[<<i + 1, h[i]>>] = Next_(i + 1, h[i]) BY <1>2, <3>1, <3>3
    <3>5. QED BY <3>1, <3>2, <3>3, <3>4, <1>3
  <2>3. 0 .. n \subseteq T
    <3> HIDE DEF T
    <3>1. QED BY <2>1, <2>2, UpTo
  <2>4. QED BY <2>3
<1>12. h \in [0 .. n -> Findings]
  <2>1. h = [i \in 0 .. n |-> IF i = 0 THEN base ELSE Next_(i, h[i - 1])] BY <1>8
  <2> HIDE DEF Next_
  <2>2. DOMAIN h = 0 .. n /\ h = [i \in 0 .. n |-> h[i]] BY <2>1
  <2>3. QED BY <2>2, <1>11
<1>13. Passing(h, k, m, seen, below) BY <1>0, <1>1, <1>10, <1>12 DEF Passing
<1>14. QED BY <1>0, <1>9, <1>13

LEMMA FindTyped ==
  ASSUME Tabled, NEW k \in Toks, NEW m \in Modules, NEW seen \in SUBSET Modules,
         NEW below \in [Searches -> Findings]
  PROVE  Find(k, m, seen, below) \in Findings
<1>1. [owner |-> m, seen |-> seen] \in Findings /\ [owner |-> None, seen |-> seen] \in Findings
  BY DEF Findings, Owners
<1>2. FindElsewhere(k, m, seen \cup {m}, below) \in Findings
  <2>1. PICK u : /\ Passing(u, k, m, seen \cup {m}, below)
                 /\ FindElsewhere(k, m, seen \cup {m}, below) =
                      LET last == u[Len(Around(m))]
                      IN IF last.owner # None THEN last ELSE Unfound(k, last.seen)
    BY FindElsewhereRuns
  <2>2. u[Len(Around(m))] \in Findings BY <2>1, AroundTyped DEF Passing
  <2>3. u[Len(Around(m))].seen \in SUBSET Modules BY <2>2 DEF Findings
  <2>4. QED BY <2>1, <2>2, <2>3, UnfoundTyped
<1>3. QED BY <1>1, <1>2 DEF Find

\* The searches by their depths.
Deeper(d, k, n) ==
  /\ d \in [0 .. n -> [Searches -> Findings]]
  /\ \A i \in 1 .. n, m \in Modules, seen \in SUBSET Modules :
       d[i][<<m, seen>>] = Find(k, m, seen, d[i - 1])

LEMMA LocateRuns ==
  ASSUME Tabled, NEW k \in Toks
  PROVE  \E d : Deeper(d, k, Cardinality(Modules) + 1) /\ Locate(k) = d[Cardinality(Modules) + 1]
<1>0. PICK n \in Nat : n = Cardinality(Modules) + 1 BY ScopeAssumption, FS_CardinalityType
<1> DEFINE V == [Searches -> Findings]
           Level(i, v) == [w \in Searches |-> IF i = 0 THEN Unfound(k, w[2]) ELSE Find(k, w[1], w[2], v)]
           Runs(g) == g = [i \in 0 .. n |-> Level(i, g[i - 1])]
<1>1. ASSUME NEW i \in 0 .. n, NEW v, i # 0 => v \in V PROVE Level(i, v) \in V
  <2>1. ASSUME NEW w \in Searches PROVE (IF i = 0 THEN Unfound(k, w[2]) ELSE Find(k, w[1], w[2], v)) \in Findings
    <3>1. w[1] \in Modules /\ w[2] \in SUBSET Modules BY DEF Searches
    <3>2. CASE i = 0 BY <3>1, <3>2, UnfoundTyped
    <3>3. CASE i # 0
      <4>1. Find(k, w[1], w[2], v) \in Findings BY <3>1, <3>3, <1>1, FindTyped
      <4>2. QED BY <3>3, <4>1
    <3>4. QED BY <3>2, <3>3
  <2>2. QED BY <2>1
<1>2. PICK base \in V : base = Level(0, 0)
  <2>1. Level(0, 0) \in V BY <1>1
  <2>2. QED BY <2>1
<1>3. PICK rule : rule = [p \in (0 .. n) \X V |-> IF p[1] = 0 THEN base ELSE Level(p[1], p[2])] OBVIOUS
<1>4. rule \in Steps(n, V)
  <2>1. ASSUME NEW p \in (0 .. n) \X V PROVE rule[p] \in V
    <3>1. p[1] \in 0 .. n /\ p[2] \in V OBVIOUS
    <3>2. Level(p[1], p[2]) \in V BY <3>1, <1>1
    <3> HIDE DEF Level
    <3>3. QED BY <1>2, <1>3, <3>2
  <2> HIDE DEF Level
  <2>2. QED BY <1>3, <2>1 DEF Steps
<1> HIDE DEF V
<1>5. PICK f : Iteration(f, n, V, base, rule) BY <1>2, <1>4, Iterates
<1>6. \A i \in 1 .. n : f[i] = Level(i, f[i - 1])
  <2> HIDE DEF Level
  <2>1. ASSUME NEW i \in 1 .. n PROVE f[i] = Level(i, f[i - 1])
    <3>1. i - 1 \in 0 .. n /\ i \in 0 .. n /\ i # 0 OBVIOUS
    <3>2. f[i - 1] \in V /\ f[i] = rule[<<i, f[i - 1]>>] BY <3>1, <1>5 DEF Iteration
    <3>3. <<i, f[i - 1]>> \in (0 .. n) \X V BY <3>1, <3>2
    <3>4. rule[<<i, f[i - 1]>>] = Level(i, f[i - 1]) BY <1>3, <3>1, <3>3
    <3>5. QED BY <3>2, <3>4
  <2>2. QED BY <2>1
<1>7. f[0] = Level(0, f[0 - 1])
  <2>1. f[0] = Level(0, 0) BY <1>2, <1>5 DEF Iteration
  <2>2. Level(0, 0) = Level(0, f[0 - 1]) OBVIOUS
  <2> HIDE DEF Level
  <2>3. QED BY <2>1, <2>2
<1>8. Runs(f)
  <2>1. f \in [0 .. n -> V] BY <1>5 DEF Iteration
  <2>2. \A i \in 0 .. n : i # 0 => i \in 1 .. n OBVIOUS
  <2> HIDE DEF Level
  <2>3. \A i \in 0 .. n : f[i] = Level(i, f[i - 1]) BY <1>6, <1>7, <2>2
  <2>4. QED BY <2>1, <2>3
<1> DEFINE h == CHOOSE g : Runs(g)
<1>9. Runs(h)
  <2> HIDE DEF Runs
  <2>1. QED BY <1>8
<1>10. Locate(k) = h[n] BY <1>0 DEF Locate, Searches
<1>11. DOMAIN h = 0 .. n /\ \A i \in 0 .. n : h[i] = Level(i, h[i - 1])
  <2>1. h = [i \in 0 .. n |-> Level(i, h[i - 1])] BY <1>9
  <2> HIDE DEF h, Level
  <2>2. QED BY <2>1
<1>12. h = [i \in 0 .. n |-> h[i]]
  <2>1. h = [i \in 0 .. n |-> Level(i, h[i - 1])] BY <1>9
  <2> HIDE DEF h, Level
  <2>2. QED BY <2>1
<1> HIDE DEF h
<1>13. \A i \in 0 .. n : h[i] \in V
  <2> DEFINE T == {i \in 0 .. n : h[i] \in V}
  <2>1. 0 \in T
    <3>1. Level(0, h[0 - 1]) \in V BY <1>1
    <3> HIDE DEF Level
    <3>2. h[0] = Level(0, h[0 - 1]) BY <1>11
    <3>3. QED BY <3>1, <3>2
  <2>2. ASSUME NEW i \in 0 .. n, i \in T, i < n PROVE i + 1 \in T
    <3>1. i + 1 \in 0 .. n /\ (i + 1) - 1 = i BY <2>2
    <3>2. h[i] \in V BY <2>2
    <3>3. Level(i + 1, h[i]) \in V BY <1>1, <3>1, <3>2
    <3> HIDE DEF Level
    <3>4. h[i + 1] = Level(i + 1, h[i]) BY <1>11, <3>1
    <3>5. QED BY <3>1, <3>3, <3>4
  <2>3. 0 .. n \subseteq T
    <3> HIDE DEF T
    <3>1. QED BY <2>1, <2>2, UpTo
  <2>4. QED BY <2>3
<1>14. Deeper(h, k, n)
  <2>1. h \in [0 .. n -> V] BY <1>12, <1>13
  <2>2. ASSUME NEW i \in 1 .. n, NEW m \in Modules, NEW seen \in SUBSET Modules
        PROVE h[i][<<m, seen>>] = Find(k, m, seen, h[i - 1])
    <3>1. i \in 0 .. n /\ i # 0 /\ <<m, seen>> \in Searches BY DEF Searches
    <3>2. h[i] = Level(i, h[i - 1])
      <4> HIDE DEF Level
      <4>1. QED BY <1>11, <3>1
    <3>3. QED BY <3>1, <3>2
  <2>3. QED BY <2>1, <2>2 DEF Deeper, V
<1>15. QED BY <1>0, <1>10, <1>14

\* The modules without a provider for k of their own, which searches pass.
Bare(k) == {x \in Modules : app.local[x][k] = None}

\* A set that searches for k do not leave.
Confines(k, C) == C \subseteq Modules /\ \A x \in C \cap Bare(k) : Exporting(k, x) \subseteq C

\* What a search for k from m answers, having seen the set seen: a provider,
\* or that everything it could see is now seen and has none.
FoundRight(k, C, m, seen, r) ==
  /\ r.owner \in Modules => r.owner \notin Bare(k) /\ (m \in C => r.owner \in C)
  /\ r.owner = NoModule => shared[k] # None
  /\ r.owner = None => /\ seen \subseteq r.seen /\ r.seen \subseteq Bare(k) /\ m \in r.seen
                       /\ \A x \in r.seen \ seen : Exporting(k, x) \subseteq r.seen
  /\ shared[k] # None /\ m \notin seen => r.owner # None

\* The same after the modules up to i around m.
PassedRight(k, C, m, seen, r, i) ==
  /\ r.owner \in Modules => r.owner \notin Bare(k) /\ (m \in C => r.owner \in C)
  /\ r.owner = NoModule => shared[k] # None
  /\ r.owner = None => /\ seen \subseteq r.seen /\ r.seen \subseteq Bare(k)
                       /\ \A j \in 1 .. i : Asked(k, m, j) => Around(m)[j] \in r.seen
                       /\ \A x \in r.seen \ seen : Exporting(k, x) \subseteq r.seen

\* What is exported around m is asked, save m itself.
LEMMA AroundIsExporting ==
  ASSUME Tabled, NEW k \in Toks, NEW m \in Modules
  PROVE  /\ \A i \in 1 .. Len(Around(m)) : Asked(k, m, i) => Around(m)[i] \in Exporting(k, m)
         /\ \A y \in Exporting(k, m) \ {m} : \E i \in 1 .. Len(Around(m)) : Asked(k, m, i) /\ Around(m)[i] = y
<1> DEFINE im == app.imports[m]
           gl == app.globals
<1>1. im \in Seq(Modules) /\ gl \in Seq(Modules) BY DEF Tabled
<1>2. /\ Len(im) \in Nat /\ Len(gl) \in Nat /\ Len(Around(m)) = Len(im) + Len(gl)
      /\ \A i \in 1 .. Len(im) + Len(gl) : Around(m)[i] = IF i <= Len(im) THEN im[i] ELSE gl[i - Len(im)]
  BY <1>1, ConcatProperties, LenProperties DEF Around
<1>3. DOMAIN im = 1 .. Len(im) /\ DOMAIN gl = 1 .. Len(gl) BY <1>1, LenProperties
<1>a. PICK a \in Nat : a = Len(im) BY <1>2
<1>b. PICK b \in Nat : b = Len(gl) BY <1>2
<1>c. PICK f : f = Around(m) OBVIOUS
<1>d. /\ Len(f) = a + b /\ DOMAIN im = 1 .. a /\ DOMAIN gl = 1 .. b
      /\ \A i \in 1 .. a + b : f[i] = IF i <= a THEN im[i] ELSE gl[i - a]
  BY <1>2, <1>3, <1>a, <1>b, <1>c
<1>e. \A i : Asked(k, m, i) <=> k \in app.exports[f[i]] /\ (i <= a \/ f[i] # m) BY <1>a, <1>c DEF Asked
<1>f. \A y : (y \in Exporting(k, m) <=>
         y \in Modules /\ k \in app.exports[y] /\ ((\E i \in 1 .. a : im[i] = y) \/ (\E i \in 1 .. b : gl[i] = y)))
  BY <1>d DEF Exporting
<1> HIDE DEF im, gl
<1>4. ASSUME NEW i \in 1 .. a + b, Asked(k, m, i) PROVE f[i] \in Exporting(k, m)
  <2>1. f[i] \in Modules BY <1>c, <1>d, AroundTyped
  <2>2. k \in app.exports[f[i]] BY <1>4, <1>e
  <2>3. CASE i <= a
    <3>1. i \in 1 .. a /\ im[i] = f[i] BY <2>3, <1>d
    <3>2. QED BY <3>1, <2>1, <2>2, <1>f
  <2>4. CASE ~(i <= a)
    <3>1. i - a \in 1 .. b BY <2>4
    <3>2. gl[i - a] = f[i] BY <2>4, <1>d
    <3>3. QED BY <3>1, <3>2, <2>1, <2>2, <1>f
  <2>5. QED BY <2>3, <2>4
<1>5. ASSUME NEW y \in Exporting(k, m) \ {m} PROVE \E i \in 1 .. a + b : Asked(k, m, i) /\ f[i] = y
  <2>1. k \in app.exports[y] /\ y # m BY <1>f
  <2>2. CASE \E i \in 1 .. a : im[i] = y
    <3>1. PICK i \in 1 .. a : im[i] = y BY <2>2
    <3>2. i \in 1 .. a + b /\ i <= a OBVIOUS
    <3>3. f[i] = y BY <3>1, <3>2, <1>d
    <3>4. QED BY <3>2, <3>3, <2>1, <1>e
  <2>3. CASE \E i \in 1 .. b : gl[i] = y
    <3>1. PICK i \in 1 .. b : gl[i] = y BY <2>3
    <3>2. PICK j \in Nat : j = i + a OBVIOUS
    <3>3. j \in 1 .. a + b /\ ~(j <= a) /\ j - a = i BY <3>2
    <3>4. f[j] = y BY <3>1, <3>3, <1>d
    <3>5. QED BY <3>3, <3>4, <2>1, <1>e
  <2>4. QED BY <2>2, <2>3, <1>f
<1>6. QED BY <1>4, <1>5, <1>c, <1>d

\* One module more.
LEMMA PassesOn ==
  ASSUME AppTyped, NEW k \in Toks, NEW C, Confines(k, C), NEW m \in Bare(k),
         NEW seen \in SUBSET Bare(k), m \in seen,
         NEW i \in Nat, i + 1 \in 1 .. Len(Around(m)),
         NEW r \in Findings, PassedRight(k, C, m, seen, r, i),
         r.owner = None, Asked(k, m, i + 1), NEW q \in Findings,
         FoundRight(k, C, Around(m)[i + 1], r.seen, q)
  PROVE  PassedRight(k, C, m, seen, q, i + 1)
<1> DEFINE y == Around(m)[i + 1]
<1>0. m \in Modules BY DEF Bare
<1>1. y \in Exporting(k, m) /\ y \in Modules BY AppIsTabled, <1>0, AroundIsExporting, AroundTyped
<1>2. m \in C => y \in C BY <1>1 DEF Confines
<1>3. q.owner \in Modules => q.owner \notin Bare(k) /\ (m \in C => q.owner \in C) BY <1>2 DEF FoundRight
<1>4. ASSUME q.owner = None
      PROVE  /\ seen \subseteq q.seen /\ q.seen \subseteq Bare(k)
             /\ \A j \in 1 .. i + 1 : Asked(k, m, j) => Around(m)[j] \in q.seen
             /\ \A x \in q.seen \ seen : Exporting(k, x) \subseteq q.seen
  <2>1. /\ r.seen \subseteq q.seen /\ q.seen \subseteq Bare(k) /\ y \in q.seen
        /\ \A x \in q.seen \ r.seen : Exporting(k, x) \subseteq q.seen BY <1>4 DEF FoundRight
  <2>2. /\ seen \subseteq r.seen
        /\ \A j \in 1 .. i : Asked(k, m, j) => Around(m)[j] \in r.seen
        /\ \A x \in r.seen \ seen : Exporting(k, x) \subseteq r.seen BY DEF PassedRight
  <2>3. ASSUME NEW j \in 1 .. i + 1, Asked(k, m, j) PROVE Around(m)[j] \in q.seen
    <3>1. CASE j = i + 1 BY <3>1, <2>1
    <3>2. CASE j # i + 1
      <4>1. j \in 1 .. i BY <3>2
      <4>2. QED BY <4>1, <2>1, <2>2, <2>3
    <3>3. QED BY <3>1, <3>2
  <2>4. ASSUME NEW x \in q.seen \ seen PROVE Exporting(k, x) \subseteq q.seen BY <2>1, <2>2
  <2>5. QED BY <2>1, <2>2, <2>3, <2>4
<1>5. q.owner = NoModule => shared[k] # None BY DEF FoundRight
<1> HIDE DEF y
<1>6. QED BY <1>3, <1>4, <1>5 DEF PassedRight

LEMMA FindElsewhereRight ==
  ASSUME AppTyped, NEW k \in Toks, NEW C, Confines(k, C), NEW m \in Bare(k),
         NEW seen \in SUBSET Bare(k), m \in seen, NEW below \in [Searches -> Findings],
         \A y \in Modules, s \in SUBSET Bare(k) :
           seen \subseteq s => FoundRight(k, C, y, s, below[<<y, s>>])
  PROVE  /\ PassedRight(k, C, m, seen, FindElsewhere(k, m, seen, below), Len(Around(m)))
         /\ shared[k] # None => FindElsewhere(k, m, seen, below).owner # None
<1>0. m \in Modules /\ seen \in SUBSET Modules BY DEF Bare
<1>1. PICK u : /\ Passing(u, k, m, seen, below)
               /\ FindElsewhere(k, m, seen, below) =
                    LET last == u[Len(Around(m))]
                    IN IF last.owner # None THEN last ELSE Unfound(k, last.seen)
  BY AppIsTabled, <1>0, FindElsewhereRuns
<1>2. PICK n \in Nat : n = Len(Around(m)) BY AppIsTabled, <1>0, AroundTyped
<1> DEFINE T == {i \in 0 .. n : PassedRight(k, C, m, seen, u[i], i)}
<1>3. 0 \in T
  <2>1. u[0] = [owner |-> None, seen |-> seen] BY <1>1 DEF Passing
  <2>2. None \notin Modules /\ None # NoModule BY ScopeAssumption DEF Owners
  <2>3. QED BY <2>1, <2>2 DEF PassedRight
<1>4. ASSUME NEW i \in 0 .. n, i \in T, i < n PROVE i + 1 \in T
  <2>1. i + 1 \in 1 .. n /\ i + 1 \in 0 .. n /\ i \in Nat /\ (i + 1) - 1 = i BY <1>4
  <2>2. u[i] \in Findings /\ u[i + 1] \in Findings BY <1>1, <1>2, <2>1 DEF Passing
  <2>3. u[i + 1] = IF u[i].owner # None \/ ~Asked(k, m, i + 1) THEN u[i]
                   ELSE below[<<Around(m)[i + 1], u[i].seen>>]
    BY <1>1, <1>2, <2>1 DEF Passing
  <2>4. PassedRight(k, C, m, seen, u[i], i) BY <1>4
  <2>5. CASE u[i].owner # None
    <3>1. u[i + 1] = u[i] BY <2>3, <2>5
    <3>2. QED BY <2>1, <2>4, <2>5, <3>1 DEF PassedRight
  <2>6. CASE u[i].owner = None /\ ~Asked(k, m, i + 1)
    <3>1. u[i + 1] = u[i] BY <2>3, <2>6
    <3>2. \A j \in 1 .. i + 1 : j = i + 1 \/ j \in 1 .. i OBVIOUS
    <3>3. \A j \in 1 .. i + 1 : Asked(k, m, j) => Around(m)[j] \in u[i].seen
      BY <2>4, <2>6, <3>2 DEF PassedRight
    <3>4. QED BY <2>1, <2>4, <2>6, <3>1, <3>3 DEF PassedRight
  <2>7. CASE u[i].owner = None /\ Asked(k, m, i + 1)
    <3>1. u[i + 1] = below[<<Around(m)[i + 1], u[i].seen>>] BY <2>3, <2>7
    <3>2. Around(m)[i + 1] \in Modules BY AppIsTabled, <1>0, <1>2, <2>1, AroundTyped
    <3>3. u[i].seen \in SUBSET Bare(k) /\ seen \subseteq u[i].seen BY <2>4, <2>7 DEF PassedRight
    <3>4. FoundRight(k, C, Around(m)[i + 1], u[i].seen, u[i + 1]) BY <3>1, <3>2, <3>3
    <3>5. PassedRight(k, C, m, seen, u[i + 1], i + 1) BY <1>2, <2>1, <2>2, <2>4, <2>7, <3>4, PassesOn
    <3>6. QED BY <2>1, <3>5
  <2>8. QED BY <2>5, <2>6, <2>7
<1>5. 0 .. n \subseteq T
  <2> HIDE DEF T
  <2>1. QED BY <1>3, <1>4, UpTo
<1>6. PassedRight(k, C, m, seen, u[n], n) BY <1>5
<1>7. u[n] \in Findings BY <1>1, <1>2 DEF Passing
<1>8. CASE u[n].owner # None BY <1>1, <1>2, <1>6, <1>8
<1>9. CASE u[n].owner = None
  <2> DEFINE r == FindElsewhere(k, m, seen, below)
  <2>1. r = [owner |-> IF shared[k] = None THEN None ELSE NoModule, seen |-> u[n].seen]
    BY <1>1, <1>2, <1>9 DEF Unfound
  <2>2. r.seen = u[n].seen /\ r.owner = IF shared[k] = None THEN None ELSE NoModule BY <2>1
  <2>3. None \notin Modules /\ None # NoModule /\ NoModule \notin Modules BY ScopeAssumption DEF Owners
  <2> HIDE DEF r
  <2>4. PassedRight(k, C, m, seen, r, n) BY <1>6, <1>9, <2>2, <2>3 DEF PassedRight
  <2>5. shared[k] # None => r.owner # None BY <2>2, <2>3
  <2>6. QED BY <2>4, <2>5, <1>2 DEF r
<1>10. QED BY <1>8, <1>9

LEMMA FindRight ==
  ASSUME AppTyped, NEW k \in Toks, NEW C, Confines(k, C), NEW m \in Modules,
         NEW seen \in SUBSET Bare(k), NEW below \in [Searches -> Findings],
         m \notin seen => \A y \in Modules, s \in SUBSET Bare(k) :
           seen \cup {m} \subseteq s => FoundRight(k, C, y, s, below[<<y, s>>])
  PROVE  FoundRight(k, C, m, seen, Find(k, m, seen, below))
<1> DEFINE r == Find(k, m, seen, below)
<1>0. None \notin Modules /\ None # NoModule /\ NoModule \notin Modules BY ScopeAssumption DEF Owners
<1>1. CASE app.local[m][k] # None
  <2>1. r.owner = m /\ m \notin Bare(k) BY <1>1 DEF Find, Bare
  <2> HIDE DEF r
  <2>2. FoundRight(k, C, m, seen, r) BY <1>0, <2>1 DEF FoundRight
  <2>3. QED BY <2>2 DEF r
<1>2. CASE app.local[m][k] = None /\ m \in seen
  <2>1. r.owner = None /\ r.seen = seen BY <1>2 DEF Find
  <2> HIDE DEF r
  <2>2. FoundRight(k, C, m, seen, r) BY <1>0, <1>2, <2>1 DEF FoundRight
  <2>3. QED BY <2>2 DEF r
<1>3. CASE app.local[m][k] = None /\ m \notin seen
  <2>1. m \in Bare(k) /\ seen \cup {m} \in SUBSET Bare(k) /\ m \in seen \cup {m} BY <1>3 DEF Bare
  <2>2. r = FindElsewhere(k, m, seen \cup {m}, below) BY <1>3 DEF Find
  <2>3. /\ PassedRight(k, C, m, seen \cup {m}, r, Len(Around(m)))
        /\ shared[k] # None => r.owner # None BY <1>3, <2>1, <2>2, FindElsewhereRight
  <2> HIDE DEF r
  <2>4. ASSUME r.owner = None
        PROVE  /\ seen \subseteq r.seen /\ r.seen \subseteq Bare(k) /\ m \in r.seen
               /\ \A x \in r.seen \ seen : Exporting(k, x) \subseteq r.seen
    <3>1. /\ seen \cup {m} \subseteq r.seen /\ r.seen \subseteq Bare(k)
          /\ \A j \in 1 .. Len(Around(m)) : Asked(k, m, j) => Around(m)[j] \in r.seen
          /\ \A x \in r.seen \ (seen \cup {m}) : Exporting(k, x) \subseteq r.seen
      BY <2>3, <2>4 DEF PassedRight
    <3>2. Exporting(k, m) \subseteq r.seen
      <4>1. ASSUME NEW y \in Exporting(k, m) PROVE y \in r.seen
        <5>1. CASE y = m BY <5>1, <3>1
        <5>2. CASE y # m
          <6>1. PICK i \in 1 .. Len(Around(m)) : Asked(k, m, i) /\ Around(m)[i] = y
            BY AppIsTabled, <5>2, AroundIsExporting
          <6>2. QED BY <6>1, <3>1
        <5>3. QED BY <5>1, <5>2
      <4>2. QED BY <4>1
    <3>3. QED BY <3>1, <3>2
  <2>5. r.owner \in Modules => r.owner \notin Bare(k) /\ (m \in C => r.owner \in C) BY <2>3 DEF PassedRight
  <2>6. r.owner = NoModule => shared[k] # None BY <2>3 DEF PassedRight
  <2>7. FoundRight(k, C, m, seen, r) BY <2>3, <2>4, <2>5, <2>6 DEF FoundRight
  <2>8. QED BY <2>7 DEF r
<1>4. QED BY <1>1, <1>2, <1>3

\* The answer of a whole search, as FoundRight states it of one that has seen
\* nothing yet.
LEMMA LocateRight ==
  ASSUME AppTyped, NEW k \in Toks, NEW C, Confines(k, C), NEW m \in Modules
  PROVE  /\ Locate(k)[<<m, {}>>] \in Findings
         /\ FoundRight(k, C, m, {}, Locate(k)[<<m, {}>>])
<1>1. PICK n \in Nat : n = Cardinality(Modules) BY ScopeAssumption, FS_CardinalityType
<1>2. PICK d : Deeper(d, k, n + 1) /\ Locate(k) = d[n + 1] BY AppIsTabled, <1>1, LocateRuns
<1> DEFINE T == {i \in 0 .. n + 1 : \A x \in Modules, seen \in SUBSET Bare(k) :
                   Cardinality(Modules \ seen) < i => FoundRight(k, C, x, seen, d[i][<<x, seen>>])}
<1>0. ASSUME NEW seen \in SUBSET Bare(k)
      PROVE  seen \in SUBSET Modules /\ IsFiniteSet(Modules \ seen) /\ Cardinality(Modules \ seen) \in Nat
  <2>1. seen \in SUBSET Modules BY DEF Bare
  <2>2. IsFiniteSet(Modules \ seen) BY ScopeAssumption, FS_Subset
  <2>3. QED BY <2>1, <2>2, FS_CardinalityType
<1>3. 0 \in T
  <2>1. ASSUME NEW seen \in SUBSET Bare(k) PROVE ~(Cardinality(Modules \ seen) < 0) BY <1>0
  <2>2. 0 \in 0 .. n + 1 OBVIOUS
  <2>3. QED BY <2>1, <2>2
<1>4. ASSUME NEW i \in 0 .. n + 1, i \in T, i < n + 1 PROVE i + 1 \in T
  <2>1. i + 1 \in 1 .. n + 1 /\ i + 1 \in 0 .. n + 1 /\ (i + 1) - 1 = i BY <1>1, <1>4
  <2>2. ASSUME NEW x \in Modules, NEW seen \in SUBSET Bare(k), Cardinality(Modules \ seen) < i + 1
        PROVE  FoundRight(k, C, x, seen, d[i + 1][<<x, seen>>])
    <3>1. d[i + 1][<<x, seen>>] = Find(k, x, seen, d[i]) BY <1>0, <1>2, <2>1 DEF Deeper
    <3>2. d[i] \in [Searches -> Findings] BY <1>2 DEF Deeper
    <3>3. ASSUME x \notin seen, NEW y \in Modules, NEW s \in SUBSET Bare(k), seen \cup {x} \subseteq s
          PROVE  FoundRight(k, C, y, s, d[i][<<y, s>>])
      <4>1. Modules \ s \in SUBSET (Modules \ seen) /\ Modules \ s # Modules \ seen BY <3>3
      <4>2. IsFiniteSet(Modules \ seen) /\ Cardinality(Modules \ seen) \in Nat /\ Cardinality(Modules \ s) \in Nat BY <1>0
      <4>3. Cardinality(Modules \ s) <= Cardinality(Modules \ seen) /\ Cardinality(Modules \ seen) # Cardinality(Modules \ s)
        BY <4>1, <4>2, FS_Subset
      <4>4. Cardinality(Modules \ s) < i BY <2>2, <4>2, <4>3
      <4>5. QED BY <1>4, <4>4
    <3>4. FoundRight(k, C, x, seen, Find(k, x, seen, d[i])) BY <3>2, <3>3, FindRight
    <3>5. QED BY <3>1, <3>4
  <2>3. QED BY <2>1, <2>2
<1>5. 0 .. n + 1 \subseteq T
  <2> HIDE DEF T
  <2>1. n + 1 \in Nat OBVIOUS
  <2>2. QED BY <1>3, <1>4, <2>1, UpTo
<1>6. n + 1 \in T
  <2> HIDE DEF T
  <2>1. n + 1 \in 0 .. n + 1 OBVIOUS
  <2>2. QED BY <1>5, <2>1
<1>7. {} \in SUBSET Bare(k) /\ Cardinality(Modules \ {}) < n + 1
  <2>1. Modules \ {} = Modules OBVIOUS
  <2>2. QED BY <1>1, <2>1
<1>8. FoundRight(k, C, m, {}, d[n + 1][<<m, {}>>]) BY <1>6, <1>7
<1>9. d[n + 1] \in [Searches -> Findings] /\ <<m, {}>> \in Searches
  <2>1. n + 1 \in 0 .. n + 1 OBVIOUS
  <2>2. QED BY <1>2, <2>1 DEF Deeper, Searches
<1>10. QED BY <1>2, <1>8, <1>9

\* A set grown as often as it could have members does not grow any more.
Growth(f, n, S, rule) ==
  /\ f \in [0 .. n -> SUBSET S] /\ \A i \in 1 .. n : f[i] = rule[f[i - 1]]
  /\ \A X \in SUBSET S : rule[X] \in SUBSET S /\ X \subseteq rule[X]

LEMMA Stabilizes ==
  ASSUME NEW S, IsFiniteSet(S), NEW n \in Nat, n = Cardinality(S), NEW f, NEW rule, Growth(f, n, S, rule)
  PROVE  rule[f[n]] = f[n]
<1> USE DEF Growth
<1>1. SUFFICES ASSUME rule[f[n]] # f[n] PROVE FALSE OBVIOUS
<1> DEFINE T == {i \in 0 .. n : rule[f[n - i]] # f[n - i]}
           U == {i \in 0 .. n : i <= Cardinality(f[i])}
<1>2. \A i \in 0 .. n : f[i] \in SUBSET S OBVIOUS
<1>3. \A i \in 0 .. n : IsFiniteSet(f[i]) /\ Cardinality(f[i]) \in Nat
  <2>1. \A i \in 0 .. n : IsFiniteSet(f[i]) BY <1>2, FS_Subset
  <2>2. QED BY <2>1, FS_CardinalityType
<1>4. 0 .. n \subseteq T
  <2>0. 0 \in 0 .. n /\ n - 0 = n OBVIOUS
  <2>1. 0 \in T BY <1>1, <2>0
  <2>2. ASSUME NEW i \in 0 .. n, i \in T, i < n PROVE i + 1 \in T
    <3>1. PICK j \in Nat : j = n - i BY <2>2
    <3>2. j \in 1 .. n /\ n - (i + 1) = j - 1 /\ i + 1 \in 0 .. n BY <3>1, <2>2
    <3>3. rule[f[j]] # f[j] BY <3>1, <2>2
    <3>4. f[j] = rule[f[j - 1]] BY <3>2
    <3>5. rule[f[j - 1]] # f[j - 1] BY <3>3, <3>4
    <3>6. QED BY <3>2, <3>5
  <2> HIDE DEF T
  <2>3. QED BY <2>1, <2>2, UpTo
<1>5. ASSUME NEW j \in 0 .. n PROVE rule[f[j]] # f[j]
  <2>1. n - j \in 0 .. n /\ n - (n - j) = j OBVIOUS
  <2>2. n - j \in T
    <3> HIDE DEF T
    <3>1. QED BY <1>4, <2>1
  <2>3. QED BY <2>1, <2>2
<1>6. 0 .. n \subseteq U
  <2>1. 0 \in U BY <1>3
  <2>2. ASSUME NEW i \in 0 .. n, i \in U, i < n PROVE i + 1 \in U
    <3>1. i + 1 \in 1 .. n /\ i + 1 \in 0 .. n /\ (i + 1) - 1 = i BY <2>2
    <3>2. f[i + 1] = rule[f[i]] BY <3>1
    <3>3. f[i] \in SUBSET f[i + 1] /\ f[i] # f[i + 1] BY <1>2, <1>5, <3>2
    <3>4. Cardinality(f[i]) <= Cardinality(f[i + 1]) /\ Cardinality(f[i + 1]) # Cardinality(f[i])
      BY <1>3, <3>1, <3>3, FS_Subset
    <3>5. Cardinality(f[i]) \in Nat /\ Cardinality(f[i + 1]) \in Nat BY <1>3, <3>1
    <3>6. i <= Cardinality(f[i]) BY <2>2
    <3>7. i + 1 <= Cardinality(f[i + 1]) BY <3>4, <3>5, <3>6
    <3>8. QED BY <3>1, <3>7
  <2> HIDE DEF U
  <2>3. QED BY <2>1, <2>2, UpTo
<1>7. n \in 0 .. n OBVIOUS
<1>8. n <= Cardinality(f[n]) BY <1>6, <1>7
<1>9. Cardinality(f[n]) = Cardinality(S) BY <1>2, <1>3, <1>7, <1>8, FS_Subset
<1>10. f[n] = S BY <1>2, <1>7, <1>9, FS_Subset
<1>11. rule[f[n]] \in SUBSET S /\ f[n] \subseteq rule[f[n]] BY <1>2, <1>7
<1>12. QED BY <1>1, <1>10, <1>11

\* The search space is the least set around m that searches do not leave.
LEMMA SpaceConfines ==
  ASSUME AppTyped, NEW k \in Toks, NEW m \in Modules
  PROVE  /\ m \in SearchSpace(k, m) /\ Confines(k, SearchSpace(k, m))
         /\ \A S : m \in S /\ (\A x \in S \cap Bare(k) : Exporting(k, x) \subseteq S) => SearchSpace(k, m) \subseteq S
<1>1. PICK n \in Nat : n = Cardinality(Modules) BY ScopeAssumption, FS_CardinalityType
<1> DEFINE Grown(X) == X \cup UNION {Exporting(k, x) : x \in {x \in X : app.local[x][k] = None}}
           Runs(g) == g = [i \in 0 .. n |-> IF i = 0 THEN {m} ELSE Grown(g[i - 1])]
           h == CHOOSE g : Runs(g)
<1>2. PICK rule : rule = [X \in SUBSET Modules |-> Grown(X)] OBVIOUS
<1>3. ASSUME NEW X \in SUBSET Modules
      PROVE  rule[X] = Grown(X) /\ Grown(X) \in SUBSET Modules /\ X \subseteq Grown(X)
  <2>1. \A x : Exporting(k, x) \subseteq Modules BY DEF Exporting
  <2>2. Grown(X) \in SUBSET Modules BY <2>1
  <2>3. rule[X] = Grown(X) BY <1>2
  <2>4. QED BY <2>2, <2>3
<1>4. PICK step : step = [p \in (0 .. n) \X SUBSET Modules |-> rule[p[2]]] OBVIOUS
<1>5. step \in Steps(n, SUBSET Modules)
  <2>1. ASSUME NEW p \in (0 .. n) \X SUBSET Modules PROVE rule[p[2]] \in SUBSET Modules
    <3>1. p[2] \in SUBSET Modules OBVIOUS
    <3> HIDE DEF Grown
    <3>2. QED BY <3>1, <1>3
  <2>2. QED BY <1>4, <2>1 DEF Steps
<1>6. PICK f : Iteration(f, n, SUBSET Modules, {m}, step)
  <2>1. {m} \in SUBSET Modules OBVIOUS
  <2>2. QED BY <1>5, <2>1, Iterates
<1>7. ASSUME NEW i \in 0 .. n, i # 0 PROVE f[i] = Grown(f[i - 1])
  <2>1. i \in 1 .. n /\ i - 1 \in 0 .. n BY <1>7
  <2>2. f[i - 1] \in SUBSET Modules /\ f[i] = step[<<i, f[i - 1]>>] BY <2>1, <1>6 DEF Iteration
  <2>3. <<i, f[i - 1]>> \in (0 .. n) \X SUBSET Modules BY <2>1, <2>2
  <2>4. f[i] = rule[f[i - 1]] BY <1>4, <2>2, <2>3
  <2> HIDE DEF Grown
  <2>5. QED BY <1>3, <2>2, <2>4
<1>8. Runs(f)
  <2> HIDE DEF Grown
  <2>1. QED BY <1>6, <1>7 DEF Iteration
<1>9. Runs(h)
  <2> HIDE DEF Runs
  <2>1. QED BY <1>8
<1>10. SearchSpace(k, m) = h[n] BY <1>1 DEF SearchSpace
<1>11. DOMAIN h = 0 .. n /\ \A i \in 0 .. n : h[i] = IF i = 0 THEN {m} ELSE Grown(h[i - 1])
  <2> HIDE DEF Grown
  <2>1. QED BY <1>9
<1>12. h = [i \in 0 .. n |-> h[i]]
  <2> HIDE DEF Grown
  <2>1. QED BY <1>9
<1> HIDE DEF h
<1>13. h[0] = {m} /\ \A i \in 1 .. n : h[i] = Grown(h[i - 1])
  <2>1. 0 \in 0 .. n /\ \A i \in 1 .. n : i \in 0 .. n /\ i # 0 OBVIOUS
  <2> HIDE DEF Grown
  <2>2. QED BY <1>11, <2>1
<1> HIDE DEF Grown
<1> DEFINE T == {i \in 0 .. n : h[i] \in SUBSET Modules /\ m \in h[i]}
<1>14. 0 .. n \subseteq T
  <2>1. 0 \in T BY <1>13
  <2>2. ASSUME NEW i \in 0 .. n, i \in T, i < n PROVE i + 1 \in T
    <3>1. i + 1 \in 1 .. n /\ i + 1 \in 0 .. n /\ (i + 1) - 1 = i BY <2>2
    <3>2. h[i + 1] = Grown(h[i]) BY <3>1, <1>13
    <3>3. h[i] \in SUBSET Modules /\ m \in h[i] BY <2>2
    <3>4. h[i + 1] \in SUBSET Modules /\ m \in h[i + 1] BY <3>2, <3>3, <1>3
    <3>5. QED BY <3>1, <3>4
  <2> HIDE DEF T
  <2>3. QED BY <2>1, <2>2, UpTo
<1>15. n \in 0 .. n OBVIOUS
<1>16. h[n] \in SUBSET Modules /\ m \in h[n] BY <1>14, <1>15
<1>17. Grown(h[n]) = h[n]
  <2>1. h \in [0 .. n -> SUBSET Modules] BY <1>12, <1>14
  <2>2. \A X \in SUBSET Modules : rule[X] \in SUBSET Modules /\ X \subseteq rule[X] BY <1>3
  <2>3. \A i \in 1 .. n : h[i] = rule[h[i - 1]]
    <3>1. ASSUME NEW i \in 1 .. n PROVE h[i] = rule[h[i - 1]]
      <4>1. i - 1 \in 0 .. n OBVIOUS
      <4>2. h[i - 1] \in SUBSET Modules BY <4>1, <2>1
      <4>3. QED BY <4>2, <1>3, <1>13
    <3>2. QED BY <3>1
  <2>4. Growth(h, n, Modules, rule) BY <2>1, <2>2, <2>3 DEF Growth
  <2>5. IsFiniteSet(Modules) BY ScopeAssumption
  <2>6. rule[h[n]] = h[n] BY <1>1, <2>4, <2>5, Stabilizes
  <2>7. QED BY <2>6, <1>3, <1>16
<1>18. Confines(k, h[n])
  <2>1. ASSUME NEW x \in h[n] \cap Bare(k) PROVE Exporting(k, x) \subseteq h[n]
    <3>1. x \in {y \in h[n] : app.local[y][k] = None} BY DEF Bare
    <3>2. Exporting(k, x) \subseteq Grown(h[n]) BY <3>1 DEF Grown
    <3>3. QED BY <3>2, <1>17
  <2>2. QED BY <2>1, <1>16 DEF Confines
<1>19. ASSUME NEW S, m \in S, \A x \in S \cap Bare(k) : Exporting(k, x) \subseteq S
       PROVE  h[n] \subseteq S
  <2> DEFINE U == {i \in 0 .. n : h[i] \subseteq S}
  <2>1. 0 \in U BY <1>13, <1>19
  <2>2. ASSUME NEW i \in 0 .. n, i \in U, i < n PROVE i + 1 \in U
    <3>1. i + 1 \in 1 .. n /\ i + 1 \in 0 .. n /\ (i + 1) - 1 = i BY <2>2
    <3>2. h[i + 1] = Grown(h[i]) BY <3>1, <1>13
    <3>3. h[i] \subseteq S /\ h[i] \subseteq Modules BY <2>2, <1>14
    <3>4. \A x \in {x \in h[i] : app.local[x][k] = None} : Exporting(k, x) \subseteq S BY <3>3, <1>19 DEF Bare
    <3>5. Grown(h[i]) \subseteq S BY <3>3, <3>4 DEF Grown
    <3>6. QED BY <3>1, <3>2, <3>5
  <2>3. 0 .. n \subseteq U
    <3> HIDE DEF U
    <3>1. QED BY <2>1, <2>2, UpTo
  <2>4. QED BY <2>3, <1>15
<1>20. QED BY <1>10, <1>16, <1>18, <1>19

\* Where an override has put its provider.
Overridden == \A k \in Toks : shared[k] # None => \A m \in Modules : app.local[m][k] \in {None, shared[k]}

LEMMA FoundWhereVisible ==
  ASSUME AppTyped, Overridden
  PROVE  LocateFindsVisible
<1> SUFFICES ASSUME NEW k \in Toks, NEW m \in Modules
    PROVE LET providers == {x \in SearchSpace(k, m) : app.local[x][k] # None}
              owner == Owner(k, m)
          IN IF shared[k] = None
             THEN IF providers # {} THEN owner \in providers ELSE owner = None
             ELSE owner \in providers \cup {NoModule} /\ Provider(owner, k) = shared[k]
  BY DEF LocateFindsVisible
<1> DEFINE C == SearchSpace(k, m)
           providers == {x \in C : app.local[x][k] # None}
           r == Locate(k)[<<m, {}>>]
<1>0. None \notin Modules /\ None # NoModule /\ NoModule \notin Modules BY ScopeAssumption DEF Owners
<1>1. Owner(k, m) = r.owner BY <1>0 DEF Owner
<1>2. m \in C /\ Confines(k, C) BY SpaceConfines
<1>3. r \in Findings /\ FoundRight(k, C, m, {}, r) BY <1>2, LocateRight
<1>4. r.owner \in Modules \cup {NoModule, None} BY <1>3 DEF Findings, Owners
<1> HIDE DEF r, C
<1>5. CASE r.owner \in Modules
  <2>1. r.owner \in providers BY <1>2, <1>3, <1>5 DEF FoundRight, Bare
  <2>2. shared[k] # None => Provider(r.owner, k) = shared[k] BY <1>0, <1>5, <2>1 DEF Provider, Overridden
  <2>3. QED BY <1>1, <2>1, <2>2 DEF C
<1>6. CASE r.owner = NoModule
  <2>1. shared[k] # None /\ Provider(r.owner, k) = shared[k] BY <1>3, <1>6 DEF FoundRight, Provider
  <2>2. QED BY <1>1, <1>6, <2>1 DEF C
<1>7. CASE r.owner = None
  <2>1. shared[k] = None BY <1>3, <1>7 DEF FoundRight
  <2>2. r.seen \subseteq Bare(k) /\ m \in r.seen /\ \A x \in r.seen : Exporting(k, x) \subseteq r.seen
    BY <1>3, <1>7 DEF FoundRight
  <2>3. C \subseteq r.seen BY <2>2, SpaceConfines DEF C
  <2>4. providers = {} BY <2>2, <2>3 DEF Bare
  <2>5. QED BY <1>1, <1>7, <2>1, <2>4 DEF C
<1>8. QED BY <1>4, <1>5, <1>6, <1>7

-----------------------------------------------------------------------------
(* The scopes ProviderScope answers *)

Prov(n) == Provider(n[1], n[2])

LEMMA OwnerTyped ==
  ASSUME AppTyped, NEW k \in Toks, NEW m \in Owners
  PROVE  /\ Owner(k, m) \in Owners \cup {None}
         /\ Owner(k, m) # None => <<Owner(k, m), k>> \in Given
<1>0. None \notin Modules /\ None # NoModule /\ NoModule \notin Modules BY ScopeAssumption DEF Owners
<1>1. PICK x \in Modules : x = IF m = NoModule THEN Root ELSE m BY ScopeAssumption DEF Owners
<1>2. Confines(k, Modules) BY DEF Confines, Exporting
<1>3. PICK r : r = Locate(k)[<<x, {}>>] OBVIOUS
<1>4. r \in Findings /\ FoundRight(k, Modules, x, {}, r) BY <1>2, <1>3, LocateRight
<1>5. Owner(k, m) = r.owner BY <1>1, <1>3 DEF Owner
<1>6. r.owner \in Owners \cup {None} BY <1>4 DEF Findings
<1>7. r.owner # None => Provider(r.owner, k) # None
  <2>1. r.owner \in Modules => Provider(r.owner, k) # None BY <1>0, <1>4 DEF FoundRight, Bare, Provider
  <2>2. r.owner = NoModule => Provider(r.owner, k) # None BY <1>4 DEF FoundRight, Provider
  <2>3. QED BY <1>6, <2>1, <2>2 DEF Owners
<1>8. QED BY <1>5, <1>6, <1>7 DEF Given, Slots

LEMMA GivenTyped ==
  ASSUME AppTyped
  PROVE  /\ IsFiniteSet(Given) /\ Given \subseteq Slots
         /\ \A n \in Given : /\ n[1] \in Owners /\ n[2] \in Toks /\ n = <<n[1], n[2]>>
                             /\ Prov(n) \in AnyProvider /\ Prov(n) # None
<1>1. IsFiniteSet(Owners) BY ScopeAssumption, FS_Union, FS_Singleton DEF Owners
<1>2. IsFiniteSet(Slots) BY <1>1, ScopeAssumption, FS_Product DEF Slots
<1>3. Given \in SUBSET Slots BY DEF Given
<1>4. IsFiniteSet(Given) BY <1>2, <1>3, FS_Subset
<1>5. ASSUME NEW n \in Given
      PROVE  /\ n[1] \in Owners /\ n[2] \in Toks /\ n = <<n[1], n[2]>>
             /\ Prov(n) \in AnyProvider /\ Prov(n) # None
  <2>1. n[1] \in Owners /\ n[2] \in Toks /\ n = <<n[1], n[2]>> BY DEF Given, Slots
  <2>2. Prov(n) # None BY DEF Given, Prov
  <2>3. Prov(n) \in AnyProvider \cup {None}
    <3>1. app.local \in [Modules -> [Toks -> AnyProvider \cup {None}]] /\ shared \in [Toks -> AnyProvider \cup {None}]
      BY DEF AppTyped, Applications
    <3>2. CASE n[1] = NoModule BY <2>1, <3>1, <3>2 DEF Prov, Provider
    <3>3. CASE n[1] # NoModule
      <4>1. n[1] \in Modules BY <2>1, <3>3 DEF Owners
      <4>2. QED BY <2>1, <3>1, <3>3, <4>1 DEF Prov, Provider
    <3>4. QED BY <3>2, <3>3
  <2>4. QED BY <2>1, <2>2, <2>3
<1>6. QED BY <1>3, <1>4, <1>5

LEMMA DepsTyped ==
  ASSUME AppTyped, NEW n \in Given
  PROVE  /\ Prov(n).scope \in Scopes /\ Prov(n).deps \in Seq(Toks) /\ Len(Prov(n).deps) \in Nat
         /\ DOMAIN Prov(n).deps = 1 .. Len(Prov(n).deps)
         /\ \A i \in 1 .. Len(Prov(n).deps) : Prov(n).deps[i] \in Toks
<1>1. Prov(n) \in AnyProvider BY GivenTyped
<1>2. Prov(n).scope \in Scopes /\ Prov(n).deps \in Seq(Toks) BY <1>1 DEF AnyProvider
<1>3. QED BY <1>2, LenProperties

\* What the provider n is given, found from its own module.
Uses(n) == {q \in Given : \E d \in DOMAIN Prov(n).deps : q = <<Owner(Prov(n).deps[d], n[1]), Prov(n).deps[d]>>}

\* Request scope does not stop inside B.
Inherits(B) ==
  \A n \in Given : /\ Prov(n).scope = "request" => n \in B
                   /\ Prov(n).scope = "singleton" /\ Uses(n) \cap B # {} => n \in B

\* RequestBound is the least such set.
LEMMA BoundInherits ==
  ASSUME AppTyped
  PROVE  /\ RequestBound \in SUBSET Given /\ Inherits(RequestBound)
         /\ \A S \in SUBSET Given : Inherits(S) => RequestBound \subseteq S
<1>1. PICK n \in Nat : n = Cardinality(Given) BY GivenTyped, FS_CardinalityType
<1>2. PICK nodes : nodes = Given OBVIOUS
<1> DEFINE First == {x \in nodes : Provider(x[1], x[2]).scope = "request"}
           Grown(X) == X \cup {x \in nodes :
                  /\ Provider(x[1], x[2]).scope = "singleton"
                  /\ \E d \in DOMAIN Provider(x[1], x[2]).deps :
                       LET k == Provider(x[1], x[2]).deps[d] IN <<Owner(k, x[1]), k>> \in X}
           Runs(g) == g = [i \in 0 .. n |-> IF i = 0 THEN First ELSE Grown(g[i - 1])]
           h == CHOOSE g : Runs(g)
<1>3. \A X \in SUBSET Given : Grown(X) = X \cup {x \in Given : Prov(x).scope = "singleton" /\ Uses(x) \cap X # {}}
  <2>1. ASSUME NEW X \in SUBSET Given, NEW x \in Given
        PROVE  (Uses(x) \cap X # {}) <=> \E d \in DOMAIN Provider(x[1], x[2]).deps :
                       LET k == Provider(x[1], x[2]).deps[d] IN <<Owner(k, x[1]), k>> \in X
    <3>1. Prov(x) = Provider(x[1], x[2]) BY DEF Prov
    <3>2. ASSUME Uses(x) \cap X # {} PROVE \E d \in DOMAIN Prov(x).deps : <<Owner(Prov(x).deps[d], x[1]), Prov(x).deps[d]>> \in X
      BY <3>2 DEF Uses
    <3>3. ASSUME NEW d \in DOMAIN Prov(x).deps, <<Owner(Prov(x).deps[d], x[1]), Prov(x).deps[d]>> \in X
          PROVE  Uses(x) \cap X # {}
      BY <3>3 DEF Uses
    <3>4. QED BY <3>1, <3>2, <3>3
  <2>2. \A x : Prov(x) = Provider(x[1], x[2]) BY DEF Prov
  <2>3. QED BY <1>2, <2>1, <2>2
<1>4. First = {x \in Given : Prov(x).scope = "request"} BY <1>2 DEF Prov
<1>5. RequestBound = h[n] BY <1>1, <1>2 DEF RequestBound
<1> HIDE DEF First, Grown
<1>6. PICK rule : rule = [X \in SUBSET Given |-> Grown(X)] OBVIOUS
<1>7. ASSUME NEW X \in SUBSET Given
      PROVE  rule[X] = Grown(X) /\ Grown(X) \in SUBSET Given /\ X \subseteq Grown(X)
  <2>1. Grown(X) \in SUBSET Given /\ X \subseteq Grown(X) BY <1>3
  <2>2. rule[X] = Grown(X) BY <1>6
  <2>3. QED BY <2>1, <2>2
<1>8. PICK steps : steps = [p \in (0 .. n) \X SUBSET Given |-> rule[p[2]]] OBVIOUS
<1>9. steps \in Steps(n, SUBSET Given)
  <2>1. ASSUME NEW p \in (0 .. n) \X SUBSET Given PROVE rule[p[2]] \in SUBSET Given
    <3>1. p[2] \in SUBSET Given OBVIOUS
    <3>2. QED BY <3>1, <1>7
  <2>2. QED BY <1>8, <2>1 DEF Steps
<1>10. First \in SUBSET Given BY <1>4
<1>11. PICK f : Iteration(f, n, SUBSET Given, First, steps) BY <1>9, <1>10, Iterates
<1>12. ASSUME NEW i \in 0 .. n, i # 0 PROVE f[i] = Grown(f[i - 1])
  <2>1. i \in 1 .. n /\ i - 1 \in 0 .. n BY <1>12
  <2>2. f[i - 1] \in SUBSET Given /\ f[i] = steps[<<i, f[i - 1]>>] BY <2>1, <1>11 DEF Iteration
  <2>3. <<i, f[i - 1]>> \in (0 .. n) \X SUBSET Given BY <2>1, <2>2
  <2>4. f[i] = rule[f[i - 1]] BY <1>8, <2>2, <2>3
  <2>5. QED BY <1>7, <2>2, <2>4
<1>13. Runs(f) BY <1>11, <1>12 DEF Iteration
<1>14. Runs(h)
  <2> HIDE DEF Runs
  <2>1. QED BY <1>13
<1>15. DOMAIN h = 0 .. n /\ \A i \in 0 .. n : h[i] = IF i = 0 THEN First ELSE Grown(h[i - 1]) BY <1>14
<1>16. h = [i \in 0 .. n |-> h[i]] BY <1>14
<1> HIDE DEF h
<1>17. h[0] = First /\ \A i \in 1 .. n : h[i] = Grown(h[i - 1])
  <2>1. 0 \in 0 .. n /\ \A i \in 1 .. n : i \in 0 .. n /\ i # 0 OBVIOUS
  <2>2. QED BY <1>15, <2>1
<1> DEFINE Q == {i \in 0 .. n : h[i] \in SUBSET Given /\ First \subseteq h[i]}
<1>18. 0 .. n \subseteq Q
  <2>1. 0 \in Q
    <3>1. 0 \in 0 .. n OBVIOUS
    <3>2. QED BY <3>1, <1>10, <1>17
  <2>2. ASSUME NEW i \in 0 .. n, i \in Q, i < n PROVE i + 1 \in Q
    <3>1. i + 1 \in 1 .. n /\ i + 1 \in 0 .. n /\ (i + 1) - 1 = i BY <2>2
    <3>2. h[i + 1] = Grown(h[i]) BY <3>1, <1>17
    <3>3. h[i] \in SUBSET Given /\ First \subseteq h[i] BY <2>2
    <3>4. h[i + 1] \in SUBSET Given /\ First \subseteq h[i + 1] BY <3>2, <3>3, <1>7
    <3>5. QED BY <3>1, <3>4
  <2> HIDE DEF Q
  <2>3. QED BY <2>1, <2>2, UpTo
<1>19. n \in 0 .. n OBVIOUS
<1>20. h[n] \in SUBSET Given /\ First \subseteq h[n] BY <1>18, <1>19
<1>21. Grown(h[n]) = h[n]
  <2>1. h \in [0 .. n -> SUBSET Given] BY <1>16, <1>18
  <2>2. \A X \in SUBSET Given : rule[X] \in SUBSET Given /\ X \subseteq rule[X] BY <1>7
  <2>3. \A i \in 1 .. n : h[i] = rule[h[i - 1]]
    <3>1. ASSUME NEW i \in 1 .. n PROVE h[i] = rule[h[i - 1]]
      <4>1. i - 1 \in 0 .. n OBVIOUS
      <4>2. h[i - 1] \in SUBSET Given BY <4>1, <2>1
      <4>3. QED BY <4>2, <1>7, <1>17
    <3>2. QED BY <3>1
  <2>4. Growth(h, n, Given, rule) BY <2>1, <2>2, <2>3 DEF Growth
  <2>5. IsFiniteSet(Given) BY GivenTyped
  <2>6. rule[h[n]] = h[n] BY <1>1, <2>4, <2>5, Stabilizes
  <2>7. QED BY <2>6, <1>7, <1>20
<1>22. Inherits(h[n])
  <2>1. h[n] = h[n] \cup {x \in Given : Prov(x).scope = "singleton" /\ Uses(x) \cap h[n] # {}} BY <1>3, <1>20, <1>21
  <2>2. QED BY <1>4, <1>20, <2>1 DEF Inherits
<1>23. ASSUME NEW S \in SUBSET Given, Inherits(S) PROVE h[n] \subseteq S
  <2> DEFINE W == {i \in 0 .. n : h[i] \subseteq S}
  <2>1. 0 \in W
    <3>1. 0 \in 0 .. n OBVIOUS
    <3>2. QED BY <3>1, <1>4, <1>17, <1>23 DEF Inherits
  <2>2. ASSUME NEW i \in 0 .. n, i \in W, i < n PROVE i + 1 \in W
    <3>1. i + 1 \in 1 .. n /\ i + 1 \in 0 .. n /\ (i + 1) - 1 = i BY <2>2
    <3>2. h[i + 1] = Grown(h[i]) BY <3>1, <1>17
    <3>3. h[i] \subseteq S /\ h[i] \in SUBSET Given BY <2>2, <1>18
    <3>4. \A x \in Given : Prov(x).scope = "singleton" /\ Uses(x) \cap h[i] # {} => x \in S
      BY <3>3, <1>23 DEF Inherits
    <3>5. Grown(h[i]) \subseteq S BY <1>3, <3>3, <3>4
    <3>6. QED BY <3>1, <3>2, <3>5
  <2>3. 0 .. n \subseteq W
    <3> HIDE DEF W
    <3>1. QED BY <2>1, <2>2, UpTo
  <2>4. QED BY <2>3, <1>19
<1>24. QED BY <1>5, <1>20, <1>22, <1>23

-----------------------------------------------------------------------------
Answers == [Given \X Visits -> Visits]

\* The visits after each of the dependencies deps.
Heard(o, deps, i, before, below) ==
  LET owner == Owner(deps[i], o)
      found == below[<<<<owner, deps[i]>>, before>>]
  IN IF before.scope = "request" \/ owner = None THEN before
     ELSE IF found.scope = "request" THEN found ELSE [found EXCEPT !.scope = "singleton"]
Hearing(u, o, deps, visit, below) ==
  /\ u \in [0 .. Len(deps) -> Visits] /\ u[0] = visit
  /\ \A i \in 1 .. Len(deps) : u[i] = Heard(o, deps, i, u[i - 1], below)

LEMMA VisitTyped ==
  ASSUME NEW v \in Visits
  PROVE  /\ v.scope \in Scopes /\ v.seen \in SUBSET Slots /\ v.known \in [Toks -> Seq(Toks) \cup {None}]
         /\ \A s \in Scopes : /\ [v EXCEPT !.scope = s] \in Visits
                              /\ [v EXCEPT !.scope = s].scope = s
                              /\ [v EXCEPT !.scope = s].seen = v.seen
                              /\ [v EXCEPT !.scope = s].known = v.known
BY DEF Visits

LEMMA HeardTyped ==
  ASSUME AppTyped, NEW o \in Owners, NEW deps \in Seq(Toks), NEW i \in 1 .. Len(deps),
         NEW before \in Visits, NEW below \in Answers
  PROVE  Heard(o, deps, i, before, below) \in Visits
<1>1. deps[i] \in Toks OBVIOUS
<1>2. PICK owner : owner = Owner(deps[i], o) OBVIOUS
<1>3. PICK found : found = below[<<<<owner, deps[i]>>, before>>] OBVIOUS
<1>4. owner # None => found \in Visits
  <2>1. owner # None => <<owner, deps[i]>> \in Given BY <1>1, <1>2, OwnerTyped
  <2>2. QED BY <1>3, <2>1 DEF Answers
<1>5. "singleton" \in Scopes BY DEF Scopes
<1>6. owner # None => [found EXCEPT !.scope = "singleton"] \in Visits BY <1>4, <1>5, VisitTyped
<1>7. QED BY <1>2, <1>3, <1>4, <1>6 DEF Heard

LEMMA BubbledRuns ==
  ASSUME AppTyped, NEW o \in Owners, NEW deps \in Seq(Toks), NEW visit \in Visits, NEW below \in Answers
  PROVE  \E u : Hearing(u, o, deps, visit, below) /\ Bubbled(o, deps, visit, below) = u[Len(deps)]
<1>0. PICK n \in Nat : n = Len(deps) BY LenProperties
<1> DEFINE Runs(g) == g = [i \in 0 .. n |-> IF i = 0 THEN visit ELSE Heard(o, deps, i, g[i - 1], below)]
           h == CHOOSE g : Runs(g)
<1>1. PICK rule : rule = [p \in (0 .. n) \X Visits |-> IF p[1] = 0 THEN visit ELSE Heard(o, deps, p[1], p[2], below)] OBVIOUS
<1>2. ASSUME NEW p \in (0 .. n) \X Visits PROVE rule[p] \in Visits
  <2>1. p[1] \in 0 .. n /\ p[2] \in Visits OBVIOUS
  <2>2. p[1] # 0 => p[1] \in 1 .. Len(deps) BY <1>0, <2>1
  <2>3. p[1] # 0 => Heard(o, deps, p[1], p[2], below) \in Visits BY <2>1, <2>2, HeardTyped
  <2>4. QED BY <1>1, <2>3
<1>3. rule \in Steps(n, Visits) BY <1>1, <1>2 DEF Steps
<1>4. PICK f : Iteration(f, n, Visits, visit, rule) BY <1>3, Iterates
<1>5. ASSUME NEW i \in 0 .. n, i # 0 PROVE f[i] = Heard(o, deps, i, f[i - 1], below)
  <2>1. i \in 1 .. n /\ i - 1 \in 0 .. n BY <1>5
  <2>2. f[i - 1] \in Visits /\ f[i] = rule[<<i, f[i - 1]>>] BY <2>1, <1>4 DEF Iteration
  <2>3. <<i, f[i - 1]>> \in (0 .. n) \X Visits BY <2>1, <2>2
  <2>4. QED BY <1>1, <1>5, <2>2, <2>3
<1>6. Runs(f) BY <1>4, <1>5 DEF Iteration
<1>7. Runs(h)
  <2> HIDE DEF Runs
  <2>1. QED BY <1>6
<1>8. Bubbled(o, deps, visit, below) = h[n] BY <1>0 DEF Bubbled, Heard
<1>9. DOMAIN h = 0 .. n /\ \A i \in 0 .. n : h[i] = IF i = 0 THEN visit ELSE Heard(o, deps, i, h[i - 1], below) BY <1>7
<1>10. h = [i \in 0 .. n |-> h[i]] BY <1>7
<1> HIDE DEF h
<1>11. h[0] = visit /\ \A i \in 1 .. n : h[i] = Heard(o, deps, i, h[i - 1], below)
  <2>1. 0 \in 0 .. n /\ \A i \in 1 .. n : i \in 0 .. n /\ i # 0 OBVIOUS
  <2>2. QED BY <1>9, <2>1
<1> DEFINE Q == {i \in 0 .. n : h[i] \in Visits}
<1>12. 0 .. n \subseteq Q
  <2>1. 0 \in Q
    <3>1. 0 \in 0 .. n OBVIOUS
    <3>2. QED BY <3>1, <1>11
  <2>2. ASSUME NEW i \in 0 .. n, i \in Q, i < n PROVE i + 1 \in Q
    <3>1. i + 1 \in 1 .. n /\ i + 1 \in 0 .. n /\ (i + 1) - 1 = i BY <2>2
    <3>2. h[i + 1] = Heard(o, deps, i + 1, h[i], below) BY <3>1, <1>11
    <3>3. h[i] \in Visits /\ i + 1 \in 1 .. Len(deps) BY <1>0, <2>2, <3>1
    <3>4. QED BY <3>1, <3>2, <3>3, HeardTyped
  <2> HIDE DEF Q
  <2>3. QED BY <2>1, <2>2, UpTo
<1>13. h \in [0 .. n -> Visits] BY <1>10, <1>12
<1>14. QED BY <1>0, <1>8, <1>11, <1>13 DEF Hearing

\* A visit of the singleton n begins.
Begun(n, v) ==
  LET deps == DependenciesOf(n[1], n[2], v.known)
  IN [scope |-> "singleton", seen |-> v.seen \cup {n}, known |-> [v.known EXCEPT ![n[2]] = deps]]

LEMMA BegunTyped ==
  ASSUME AppTyped, NEW n \in Given, NEW v \in Visits
  PROVE  Begun(n, v) \in Visits /\ DependenciesOf(n[1], n[2], v.known) \in Seq(Toks)
<1>1. n[2] \in Toks /\ n \in Slots BY GivenTyped
<1>2. Provider(n[1], n[2]).deps \in Seq(Toks) BY DepsTyped DEF Prov
<1>3. v.seen \in SUBSET Slots /\ v.known \in [Toks -> Seq(Toks) \cup {None}] BY VisitTyped
<1>4. DependenciesOf(n[1], n[2], v.known) \in Seq(Toks) BY <1>1, <1>2, <1>3 DEF DependenciesOf
<1>5. [v.known EXCEPT ![n[2]] = DependenciesOf(n[1], n[2], v.known)] \in [Toks -> Seq(Toks) \cup {None}] BY <1>1, <1>3, <1>4
<1>6. v.seen \cup {n} \in SUBSET Slots /\ "singleton" \in Scopes BY <1>1, <1>3 DEF Scopes
<1>7. QED BY <1>4, <1>5, <1>6 DEF Begun, Visits

LEMMA ScopeFromTyped ==
  ASSUME AppTyped, NEW n \in Given, NEW v \in Visits, NEW below \in Answers
  PROVE  ScopeFrom(n, v, below) \in Visits
<1>1. CASE Prov(n).scope # "singleton" \/ n \in v.seen
  <2>1. ScopeFrom(n, v, below) = [v EXCEPT !.scope = Prov(n).scope] BY <1>1 DEF ScopeFrom, Prov
  <2>2. QED BY <2>1, DepsTyped, VisitTyped
<1>2. CASE ~(Prov(n).scope # "singleton" \/ n \in v.seen)
  <2>1. PICK deps : deps = DependenciesOf(n[1], n[2], v.known) OBVIOUS
  <2>2. ScopeFrom(n, v, below) = Bubbled(n[1], deps, Begun(n, v), below) BY <1>2, <2>1 DEF ScopeFrom, Begun, Prov
  <2>3. Begun(n, v) \in Visits /\ deps \in Seq(Toks) /\ n[1] \in Owners BY <2>1, BegunTyped, GivenTyped
  <2>4. PICK u : Hearing(u, n[1], deps, Begun(n, v), below) /\ Bubbled(n[1], deps, Begun(n, v), below) = u[Len(deps)]
    BY <2>3, BubbledRuns
  <2>5. u[Len(deps)] \in Visits
    <3>1. Len(deps) \in 0 .. Len(deps) BY <2>3, LenProperties
    <3>2. QED BY <2>4, <3>1 DEF Hearing
  <2>6. QED BY <2>2, <2>4, <2>5
<1>3. QED BY <1>1, <1>2

\* The visits by their depths.
Nested(d, n) ==
  /\ d \in [0 .. n -> Answers]
  /\ \A i \in 1 .. n, x \in Given, v \in Visits : d[i][<<x, v>>] = ScopeFrom(x, v, d[i - 1])

Asking(known) == [scope |-> "singleton", seen |-> {}, known |-> known]

LEMMA EffectiveRuns ==
  ASSUME AppTyped
  PROVE  \E d : /\ Nested(d, Cardinality(Given) + 1)
                /\ \A o, k, known : Effective(o, k, known) = d[Cardinality(Given) + 1][<<<<o, k>>, Asking(known)>>]
<1>0. PICK n \in Nat : n = Cardinality(Given) + 1 BY GivenTyped, FS_CardinalityType
<1> DEFINE Level(i, v) == [w \in Given \X Visits |-> IF i = 0 THEN w[2] ELSE ScopeFrom(w[1], w[2], v)]
           Runs(g) == g = [i \in 0 .. n |-> Level(i, g[i - 1])]
           h == CHOOSE g : Runs(g)
<1>1. ASSUME NEW i \in 0 .. n, NEW v, i # 0 => v \in Answers PROVE Level(i, v) \in Answers
  <2>1. ASSUME NEW w \in Given \X Visits PROVE (IF i = 0 THEN w[2] ELSE ScopeFrom(w[1], w[2], v)) \in Visits
    <3>1. w[1] \in Given /\ w[2] \in Visits OBVIOUS
    <3>2. CASE i = 0 BY <3>1, <3>2
    <3>3. CASE i # 0
      <4>1. ScopeFrom(w[1], w[2], v) \in Visits BY <3>1, <3>3, <1>1, ScopeFromTyped
      <4>2. QED BY <3>3, <4>1
    <3>4. QED BY <3>2, <3>3
  <2>2. QED BY <2>1 DEF Answers
<1>2. PICK base \in Answers : base = Level(0, 0)
  <2>1. Level(0, 0) \in Answers BY <1>1
  <2>2. QED BY <2>1
<1>3. PICK rule : rule = [p \in (0 .. n) \X Answers |-> IF p[1] = 0 THEN base ELSE Level(p[1], p[2])] OBVIOUS
<1>4. rule \in Steps(n, Answers)
  <2>1. ASSUME NEW p \in (0 .. n) \X Answers PROVE rule[p] \in Answers
    <3>1. p[1] \in 0 .. n /\ p[2] \in Answers OBVIOUS
    <3>2. Level(p[1], p[2]) \in Answers BY <3>1, <1>1
    <3> HIDE DEF Level
    <3>3. QED BY <1>2, <1>3, <3>2
  <2> HIDE DEF Level
  <2>2. QED BY <1>3, <2>1 DEF Steps
<1>5. PICK f : Iteration(f, n, Answers, base, rule) BY <1>2, <1>4, Iterates
<1>6. \A i \in 1 .. n : f[i] = Level(i, f[i - 1])
  <2> HIDE DEF Level
  <2>1. ASSUME NEW i \in 1 .. n PROVE f[i] = Level(i, f[i - 1])
    <3>1. i - 1 \in 0 .. n /\ i \in 0 .. n /\ i # 0 OBVIOUS
    <3>2. f[i - 1] \in Answers /\ f[i] = rule[<<i, f[i - 1]>>] BY <3>1, <1>5 DEF Iteration
    <3>3. <<i, f[i - 1]>> \in (0 .. n) \X Answers BY <3>1, <3>2
    <3>4. rule[<<i, f[i - 1]>>] = Level(i, f[i - 1]) BY <1>3, <3>1, <3>3
    <3>5. QED BY <3>2, <3>4
  <2>2. QED BY <2>1
<1>7. f[0] = Level(0, f[0 - 1])
  <2>1. f[0] = Level(0, 0) BY <1>2, <1>5 DEF Iteration
  <2>2. Level(0, 0) = Level(0, f[0 - 1]) OBVIOUS
  <2> HIDE DEF Level
  <2>3. QED BY <2>1, <2>2
<1>8. Runs(f)
  <2>1. f \in [0 .. n -> Answers] BY <1>5 DEF Iteration
  <2>2. \A i \in 0 .. n : i # 0 => i \in 1 .. n OBVIOUS
  <2> HIDE DEF Level
  <2>3. \A i \in 0 .. n : f[i] = Level(i, f[i - 1]) BY <1>6, <1>7, <2>2
  <2>4. QED BY <2>1, <2>3
<1>9. Runs(h)
  <2> HIDE DEF Runs
  <2>1. QED BY <1>8
<1>10. ASSUME NEW o, NEW k, NEW known PROVE Effective(o, k, known) = h[n][<<<<o, k>>, Asking(known)>>]
  BY <1>0 DEF Effective, Asking
<1>11. DOMAIN h = 0 .. n /\ \A i \in 0 .. n : h[i] = Level(i, h[i - 1])
  <2>1. h = [i \in 0 .. n |-> Level(i, h[i - 1])] BY <1>9
  <2> HIDE DEF h, Level
  <2>2. QED BY <2>1
<1>12. h = [i \in 0 .. n |-> h[i]]
  <2>1. h = [i \in 0 .. n |-> Level(i, h[i - 1])] BY <1>9
  <2> HIDE DEF h, Level
  <2>2. QED BY <2>1
<1> HIDE DEF h
<1>13. \A i \in 0 .. n : h[i] \in Answers
  <2> DEFINE Q == {i \in 0 .. n : h[i] \in Answers}
  <2>1. 0 \in Q
    <3>1. Level(0, h[0 - 1]) \in Answers BY <1>1
    <3> HIDE DEF Level
    <3>2. h[0] = Level(0, h[0 - 1]) BY <1>11
    <3>3. QED BY <3>1, <3>2
  <2>2. ASSUME NEW i \in 0 .. n, i \in Q, i < n PROVE i + 1 \in Q
    <3>1. i + 1 \in 0 .. n /\ (i + 1) - 1 = i BY <2>2
    <3>2. h[i] \in Answers BY <2>2
    <3>3. Level(i + 1, h[i]) \in Answers BY <1>1, <3>1, <3>2
    <3> HIDE DEF Level
    <3>4. h[i + 1] = Level(i + 1, h[i]) BY <1>11, <3>1
    <3>5. QED BY <3>1, <3>3, <3>4
  <2>3. 0 .. n \subseteq Q
    <3> HIDE DEF Q
    <3>1. QED BY <2>1, <2>2, UpTo
  <2>4. QED BY <2>3
<1>14. Nested(h, n)
  <2>1. h \in [0 .. n -> Answers] BY <1>12, <1>13
  <2>2. ASSUME NEW i \in 1 .. n, NEW x \in Given, NEW v \in Visits
        PROVE h[i][<<x, v>>] = ScopeFrom(x, v, h[i - 1])
    <3>1. i \in 0 .. n /\ i # 0 /\ <<x, v>> \in Given \X Visits OBVIOUS
    <3>2. h[i] = Level(i, h[i - 1])
      <4> HIDE DEF Level
      <4>1. QED BY <1>11, <3>1
    <3>3. QED BY <3>1, <3>2
  <2>3. QED BY <2>1, <2>2 DEF Nested
<1>15. QED BY <1>0, <1>10, <1>14

-----------------------------------------------------------------------------
\* The dependency lists kept are those of providers there are.
KnownFrom(known) ==
  \A k \in Toks : known[k] # None =>
    \E o \in Owners : Provider(o, k) # None /\ known[k] = Provider(o, k).deps

\* No token means two providers.
Uniform ==
  \A k \in Toks : \A o1, o2 \in Owners :
    Provider(o1, k) # None /\ Provider(o2, k) # None => Provider(o1, k) = Provider(o2, k)

LEMMA BegunKnows ==
  ASSUME AppTyped, NEW n \in Given, NEW v \in Visits, KnownFrom(v.known)
  PROVE  /\ KnownFrom(Begun(n, v).known)
         /\ Begun(n, v).scope = "singleton" /\ Begun(n, v).seen = v.seen \cup {n}
         /\ Uniform => DependenciesOf(n[1], n[2], v.known) = Prov(n).deps
<1>1. n[1] \in Owners /\ n[2] \in Toks /\ Provider(n[1], n[2]) # None BY GivenTyped DEF Prov
<1>2. PICK deps : deps = DependenciesOf(n[1], n[2], v.known) OBVIOUS
<1>3. PICK o \in Owners : Provider(o, n[2]) # None /\ deps = Provider(o, n[2]).deps
  <2>1. CASE v.known[n[2]] # None BY <1>1, <1>2, <2>1 DEF KnownFrom, DependenciesOf
  <2>2. CASE v.known[n[2]] = None BY <1>1, <1>2, <2>2 DEF DependenciesOf
  <2>3. QED BY <2>1, <2>2
<1>4. Uniform => deps = Prov(n).deps BY <1>1, <1>3 DEF Uniform, Prov
<1>5. v.known \in [Toks -> Seq(Toks) \cup {None}] BY VisitTyped
<1>6. Begun(n, v) = [scope |-> "singleton", seen |-> v.seen \cup {n}, known |-> [v.known EXCEPT ![n[2]] = deps]]
  BY <1>2 DEF Begun
<1>7. Begun(n, v).known = [v.known EXCEPT ![n[2]] = deps] BY <1>6
<1>8. KnownFrom([v.known EXCEPT ![n[2]] = deps])
  <2>1. ASSUME NEW k \in Toks, [v.known EXCEPT ![n[2]] = deps][k] # None
        PROVE  \E p \in Owners : Provider(p, k) # None /\ [v.known EXCEPT ![n[2]] = deps][k] = Provider(p, k).deps
    <3>1. CASE k = n[2]
      <4>1. [v.known EXCEPT ![n[2]] = deps][k] = deps BY <3>1, <1>1, <1>5
      <4>2. QED BY <4>1, <3>1, <1>3
    <3>2. CASE k # n[2]
      <4>1. [v.known EXCEPT ![n[2]] = deps][k] = v.known[k] BY <3>2, <1>5
      <4>2. QED BY <4>1, <2>1 DEF KnownFrom
    <3>3. QED BY <3>1, <3>2
  <2>2. QED BY <2>1 DEF KnownFrom
<1>9. QED BY <1>2, <1>4, <1>6, <1>7, <1>8

\* What needs no more visits once the singletons of S are seen.
Covered(n, S) == n \in S \/ Prov(n).scope = "transient"
Settled(n, S) == n \in Given /\ Prov(n).scope = "singleton" /\ \A q \in Uses(n) : Covered(q, S)

\* What a visit of n answers, having seen the set seen.
VisitRight(n, seen, r) ==
  /\ KnownFrom(r.known) /\ seen \subseteq r.seen
  /\ Prov(n).scope # "singleton" => r.scope = Prov(n).scope
  /\ Prov(n).scope = "singleton" => r.scope \in {"singleton", "request"}
  /\ Uniform /\ r.scope = "request" => n \in RequestBound
  /\ Uniform /\ r.scope # "request" => Covered(n, r.seen) /\ \A x \in r.seen \ seen : Settled(x, r.seen)

\* The same of the singleton n after its first i dependencies.
HeardRight(n, deps, seen, r, i) ==
  /\ KnownFrom(r.known) /\ seen \subseteq r.seen
  /\ r.scope \in {"singleton", "request"}
  /\ Uniform /\ r.scope = "request" => n \in RequestBound
  /\ Uniform /\ r.scope # "request" =>
       /\ \A j \in 1 .. i : LET owner == Owner(deps[j], n[1])
                            IN owner # None => Covered(<<owner, deps[j]>>, r.seen)
       /\ \A x \in r.seen \ seen : Settled(x, r.seen)

LEMMA HearsOn ==
  ASSUME AppTyped, NEW n \in Given, Prov(n).scope = "singleton",
         NEW deps \in Seq(Toks), Uniform => deps = Prov(n).deps, NEW seen \in SUBSET Slots, 
         NEW i \in Nat, i + 1 \in 1 .. Len(deps), NEW r \in Visits, HeardRight(n, deps, seen, r, i),
         NEW below \in Answers,
         \A x \in Given, v \in Visits :
           seen \subseteq v.seen /\ KnownFrom(v.known) => VisitRight(x, v.seen, below[<<x, v>>])
  PROVE  HeardRight(n, deps, seen, Heard(n[1], deps, i + 1, r, below), i + 1)
<1>1. PICK k \in Toks : k = deps[i + 1] OBVIOUS
<1>2. PICK owner : owner = Owner(k, n[1]) OBVIOUS
<1>3. PICK t : t = Heard(n[1], deps, i + 1, r, below) OBVIOUS
<1>4. PICK found : found = below[<<<<owner, k>>, r>>] OBVIOUS
<1>5. t = IF r.scope = "request" \/ owner = None THEN r
          ELSE IF found.scope = "request" THEN found ELSE [found EXCEPT !.scope = "singleton"]
  BY <1>1, <1>2, <1>3, <1>4 DEF Heard
<1>6. \A j \in 1 .. i + 1 : j = i + 1 \/ j \in 1 .. i OBVIOUS
<1>7. CASE r.scope = "request"
  <2>1. t = r BY <1>5, <1>7
  <2>2. HeardRight(n, deps, seen, t, i + 1) BY <1>7, <2>1 DEF HeardRight
  <2>3. QED BY <2>2, <1>3
<1>8. CASE r.scope # "request" /\ owner = None
  <2>1. t = r BY <1>5, <1>8
  <2>2. ASSUME Uniform
        PROVE  /\ \A j \in 1 .. i + 1 : LET p == Owner(deps[j], n[1]) IN p # None => Covered(<<p, deps[j]>>, r.seen)
               /\ \A x \in r.seen \ seen : Settled(x, r.seen)
    BY <1>1, <1>2, <1>6, <1>8, <2>2 DEF HeardRight
  <2>3. HeardRight(n, deps, seen, t, i + 1) BY <1>8, <2>1, <2>2 DEF HeardRight
  <2>4. QED BY <2>3, <1>3
<1>9. CASE r.scope # "request" /\ owner # None
  <2>1. PICK q \in Given : q = <<owner, k>>
    <3>1. n[1] \in Owners BY GivenTyped
    <3>2. QED BY <3>1, <1>2, <1>9, OwnerTyped
  <2>2. found \in Visits BY <1>4, <2>1 DEF Answers
  <2>3. seen \subseteq r.seen /\ KnownFrom(r.known) BY DEF HeardRight
  <2>4. VisitRight(q, r.seen, found) BY <1>4, <2>1, <2>3
  <2>5. Uniform => q \in Uses(n)
    <3>1. ASSUME Uniform PROVE i + 1 \in DOMAIN Prov(n).deps /\ Prov(n).deps[i + 1] = k
      <4>1. deps = Prov(n).deps BY <3>1
      <4>2. DOMAIN deps = 1 .. Len(deps) BY LenProperties
      <4>3. QED BY <4>1, <4>2, <1>1
    <3>2. QED BY <3>1, <1>2, <2>1 DEF Uses
  <2>6. seen \subseteq found.seen /\ r.seen \subseteq found.seen /\ KnownFrom(found.known) BY <2>3, <2>4 DEF VisitRight
  <2>7. CASE found.scope = "request"
    <3>1. t = found BY <1>5, <1>9, <2>7
    <3>2. Uniform => q \in RequestBound BY <2>4, <2>7 DEF VisitRight
    <3>3. Uniform => n \in RequestBound BY <2>5, <3>2, BoundInherits DEF Inherits
    <3>4. HeardRight(n, deps, seen, t, i + 1) BY <2>6, <2>7, <3>1, <3>3 DEF HeardRight
    <3>5. QED BY <3>4, <1>3
  <2>8. CASE found.scope # "request"
    <3>1. t = [found EXCEPT !.scope = "singleton"] BY <1>5, <1>9, <2>8
    <3>2. "singleton" \in Scopes BY DEF Scopes
    <3>3. t.scope = "singleton" /\ t.seen = found.seen /\ t.known = found.known BY <2>2, <3>1, <3>2, VisitTyped
    <3>4. ASSUME Uniform
          PROVE  /\ \A j \in 1 .. i + 1 : LET p == Owner(deps[j], n[1]) IN p # None => Covered(<<p, deps[j]>>, found.seen)
                 /\ \A x \in found.seen \ seen : Settled(x, found.seen)
      <4>1. Covered(q, found.seen) /\ \A x \in found.seen \ r.seen : Settled(x, found.seen) BY <2>4, <2>8, <3>4 DEF VisitRight
      <4>2. /\ \A j \in 1 .. i : LET p == Owner(deps[j], n[1]) IN p # None => Covered(<<p, deps[j]>>, r.seen)
            /\ \A x \in r.seen \ seen : Settled(x, r.seen) BY <1>9, <3>4 DEF HeardRight
      <4>3. \A x : Covered(x, r.seen) => Covered(x, found.seen) BY <2>6 DEF Covered
      <4>4. \A x : Settled(x, r.seen) => Settled(x, found.seen) BY <4>3 DEF Settled
      <4>5. \A j \in 1 .. i + 1 : LET p == Owner(deps[j], n[1]) IN p # None => Covered(<<p, deps[j]>>, found.seen)
        BY <1>1, <1>2, <1>6, <2>1, <4>1, <4>2, <4>3
      <4>6. \A x \in found.seen \ seen : Settled(x, found.seen) BY <4>1, <4>2, <4>4
      <4>7. QED BY <4>5, <4>6
    <3>5. HeardRight(n, deps, seen, t, i + 1) BY <2>6, <3>3, <3>4 DEF HeardRight
    <3>6. QED BY <3>5, <1>3
  <2>9. QED BY <2>7, <2>8
<1>10. QED BY <1>7, <1>8, <1>9

LEMMA ScopeFromRight ==
  ASSUME AppTyped, NEW n \in Given, NEW v \in Visits, KnownFrom(v.known), NEW below \in Answers,
         n \notin v.seen => \A x \in Given, w \in Visits :
           v.seen \cup {n} \subseteq w.seen /\ KnownFrom(w.known) => VisitRight(x, w.seen, below[<<x, w>>])
  PROVE  VisitRight(n, v.seen, ScopeFrom(n, v, below))
<1>0. Prov(n).scope \in Scopes BY DepsTyped
<1>1. CASE Prov(n).scope # "singleton" \/ n \in v.seen
  <2>1. PICK r : r = [v EXCEPT !.scope = Prov(n).scope] OBVIOUS
  <2>2. ScopeFrom(n, v, below) = r BY <1>1, <2>1 DEF ScopeFrom, Prov
  <2>3. r.scope = Prov(n).scope /\ r.seen = v.seen /\ r.known = v.known BY <1>0, <2>1, VisitTyped
  <2>4. Prov(n).scope = "request" => n \in RequestBound BY BoundInherits DEF Inherits
  <2>5. Prov(n).scope # "request" => Covered(n, v.seen) BY <1>0, <1>1 DEF Covered, Scopes
  <2>6. VisitRight(n, v.seen, r) BY <2>3, <2>4, <2>5 DEF VisitRight
  <2>7. QED BY <2>2, <2>6
<1>2. CASE Prov(n).scope = "singleton" /\ n \notin v.seen
  <2>1. PICK deps : deps = DependenciesOf(n[1], n[2], v.known) OBVIOUS
  <2>2. PICK start : start = Begun(n, v) OBVIOUS
  <2>3. ScopeFrom(n, v, below) = Bubbled(n[1], deps, start, below) BY <1>2, <2>1, <2>2 DEF ScopeFrom, Begun, Prov
  <2>4. start \in Visits /\ deps \in Seq(Toks) /\ n[1] \in Owners BY <2>1, <2>2, BegunTyped, GivenTyped
  <2>5. /\ KnownFrom(start.known) /\ start.scope = "singleton" /\ start.seen = v.seen \cup {n}
        /\ Uniform => deps = Prov(n).deps BY <2>1, <2>2, BegunKnows
  <2>6. PICK u : Hearing(u, n[1], deps, start, below) /\ Bubbled(n[1], deps, start, below) = u[Len(deps)]
    BY <2>4, BubbledRuns
  <2>7. PICK m \in Nat : m = Len(deps) BY <2>4, LenProperties
  <2> DEFINE Q == {i \in 0 .. m : HeardRight(n, deps, start.seen, u[i], i)}
  <2>8. 0 \in Q
    <3>1. 0 \in 0 .. m /\ u[0] = start BY <2>6 DEF Hearing
    <3>2. HeardRight(n, deps, start.seen, start, 0) BY <2>5 DEF HeardRight
    <3>3. QED BY <3>1, <3>2
  <2>9. ASSUME NEW i \in 0 .. m, i \in Q, i < m PROVE i + 1 \in Q
    <3>1. i + 1 \in 1 .. m /\ i + 1 \in 0 .. m /\ (i + 1) - 1 = i /\ i \in Nat BY <2>9
    <3>2. u[i + 1] = Heard(n[1], deps, i + 1, u[i], below) /\ u[i] \in Visits BY <2>6, <2>7, <3>1 DEF Hearing
    <3>3. HeardRight(n, deps, start.seen, u[i], i) BY <2>9
    <3>4. start.seen \in SUBSET Slots BY <2>4, VisitTyped
    <3>5. \A x \in Given, w \in Visits :
            start.seen \subseteq w.seen /\ KnownFrom(w.known) => VisitRight(x, w.seen, below[<<x, w>>])
      BY <1>2, <2>5
    <3>6. i + 1 \in 1 .. Len(deps) BY <2>7, <3>1
    <3>7. HeardRight(n, deps, start.seen, u[i + 1], i + 1)
      <4>1. HeardRight(n, deps, start.seen, Heard(n[1], deps, i + 1, u[i], below), i + 1)
        BY <1>2, <2>4, <2>5, <3>1, <3>2, <3>3, <3>4, <3>5, <3>6, HearsOn
      <4>2. QED BY <4>1, <3>2
    <3>8. QED BY <3>1, <3>7
  <2>10. m \in Q
    <3> HIDE DEF Q
    <3>1. m \in 0 .. m OBVIOUS
    <3>2. QED BY <2>8, <2>9, <3>1, UpTo
  <2>11. PICK r : r = u[m] OBVIOUS
  <2>12. HeardRight(n, deps, start.seen, r, m) BY <2>10, <2>11
  <2>13. KnownFrom(r.known) /\ v.seen \subseteq r.seen /\ n \in r.seen /\ r.scope \in {"singleton", "request"}
    BY <2>5, <2>12 DEF HeardRight
  <2>14. Uniform /\ r.scope = "request" => n \in RequestBound BY <2>12 DEF HeardRight
  <2>15. ASSUME Uniform, r.scope # "request"
         PROVE  Covered(n, r.seen) /\ \A x \in r.seen \ v.seen : Settled(x, r.seen)
    <3>1. /\ \A j \in 1 .. m : LET owner == Owner(deps[j], n[1])
                               IN owner # None => Covered(<<owner, deps[j]>>, r.seen)
          /\ \A x \in r.seen \ start.seen : Settled(x, r.seen) BY <2>12, <2>15 DEF HeardRight
    <3>2. deps = Prov(n).deps /\ DOMAIN Prov(n).deps = 1 .. m BY <2>5, <2>7, <2>15, DepsTyped
    <3>3. ASSUME NEW q \in Uses(n) PROVE Covered(q, r.seen)
      <4>1. PICK d \in 1 .. m : q = <<Owner(deps[d], n[1]), deps[d]>> BY <3>2 DEF Uses
      <4>2. q \in Given /\ None \notin Owners BY ScopeAssumption DEF Uses
      <4>3. q[1] \in Owners BY <4>2, GivenTyped
      <4>4. q[1] = Owner(deps[d], n[1]) BY <4>1
      <4>5. Owner(deps[d], n[1]) # None BY <4>2, <4>3, <4>4
      <4>6. QED BY <4>1, <4>5, <3>1
    <3>4. Settled(n, r.seen) BY <1>2, <3>3 DEF Settled
    <3>5. QED BY <2>5, <2>13, <3>1, <3>4 DEF Covered
  <2>16. VisitRight(n, v.seen, r) BY <1>2, <2>13, <2>14, <2>15 DEF VisitRight
  <2>17. QED BY <2>3, <2>6, <2>7, <2>11, <2>16
<1>3. QED BY <1>1, <1>2

LEMMA EffectiveRight ==
  ASSUME AppTyped, NEW o \in Owners, NEW k \in Toks, Provider(o, k) # None,
         NEW known \in [Toks -> Seq(Toks) \cup {None}], KnownFrom(known)
  PROVE  Effective(o, k, known) \in Visits /\ VisitRight(<<o, k>>, {}, Effective(o, k, known))
<1>1. PICK n \in Nat : n = Cardinality(Given) BY GivenTyped, FS_CardinalityType
<1>2. PICK d : /\ Nested(d, n + 1)
               /\ \A p, q, w : Effective(p, q, w) = d[n + 1][<<<<p, q>>, Asking(w)>>]
  BY <1>1, EffectiveRuns
<1> DEFINE Q == {i \in 0 .. n + 1 : \A x \in Given, v \in Visits :
                   Cardinality(Given \ v.seen) < i /\ KnownFrom(v.known) => VisitRight(x, v.seen, d[i][<<x, v>>])}
<1>3. \A S : IsFiniteSet(Given \ S) /\ Cardinality(Given \ S) \in Nat
  <2>1. ASSUME NEW S PROVE IsFiniteSet(Given \ S)
    <3>1. Given \ S \in SUBSET Given /\ IsFiniteSet(Given) BY GivenTyped
    <3>2. QED BY <3>1, FS_Subset
  <2>2. QED BY <2>1, FS_CardinalityType
<1>4. 0 \in Q
  <2>1. ASSUME NEW v \in Visits PROVE ~(Cardinality(Given \ v.seen) < 0)
    <3>1. PICK c \in Nat : c = Cardinality(Given \ v.seen) BY <1>3
    <3>2. QED BY <3>1
  <2>2. 0 \in 0 .. n + 1 OBVIOUS
  <2>3. QED BY <2>1, <2>2
<1>5. ASSUME NEW i \in 0 .. n + 1, i \in Q, i < n + 1 PROVE i + 1 \in Q
  <2>1. i + 1 \in 1 .. n + 1 /\ i + 1 \in 0 .. n + 1 /\ (i + 1) - 1 = i BY <1>5
  <2>2. ASSUME NEW x \in Given, NEW v \in Visits, Cardinality(Given \ v.seen) < i + 1, KnownFrom(v.known)
        PROVE  VisitRight(x, v.seen, d[i + 1][<<x, v>>])
    <3>1. d[i + 1][<<x, v>>] = ScopeFrom(x, v, d[i]) BY <1>2, <2>1 DEF Nested
    <3>2. d[i] \in Answers BY <1>2 DEF Nested
    <3>3. ASSUME x \notin v.seen, NEW y \in Given, NEW w \in Visits, v.seen \cup {x} \subseteq w.seen, KnownFrom(w.known)
          PROVE  VisitRight(y, w.seen, d[i][<<y, w>>])
      <4>1. Given \ w.seen \in SUBSET (Given \ v.seen) /\ Given \ w.seen # Given \ v.seen BY <3>3
      <4>2. IsFiniteSet(Given \ v.seen) /\ Cardinality(Given \ v.seen) \in Nat /\ Cardinality(Given \ w.seen) \in Nat BY <1>3
      <4>3. Cardinality(Given \ w.seen) <= Cardinality(Given \ v.seen) /\ Cardinality(Given \ v.seen) # Cardinality(Given \ w.seen)
        BY <4>1, <4>2, FS_Subset
      <4>4. Cardinality(Given \ w.seen) < i BY <2>2, <4>2, <4>3
      <4>5. QED BY <1>5, <3>3, <4>4
    <3>4. VisitRight(x, v.seen, ScopeFrom(x, v, d[i])) BY <2>2, <3>2, <3>3, ScopeFromRight
    <3>5. QED BY <3>1, <3>4
  <2>3. QED BY <2>1, <2>2
<1>6. n + 1 \in Q
  <2> HIDE DEF Q
  <2>1. n + 1 \in Nat /\ n + 1 \in 0 .. n + 1 OBVIOUS
  <2>2. QED BY <1>4, <1>5, <2>1, UpTo
<1>7. PICK v : v = Asking(known) OBVIOUS
<1>8. v \in Visits /\ v.seen = {} /\ v.known = known BY <1>7 DEF Asking, Visits, Scopes
<1>9. <<o, k>> \in Given BY DEF Given, Slots
<1>10. Given \ v.seen = Given BY <1>8
<1>11. VisitRight(<<o, k>>, {}, d[n + 1][<<<<o, k>>, v>>])
  <2>0. Cardinality(Given \ v.seen) = n BY <1>1, <1>10
  <2>1. Cardinality(Given \ v.seen) < n + 1 BY <2>0
  <2>2. QED BY <1>6, <1>8, <1>9, <2>1
<1>12. d[n + 1][<<<<o, k>>, v>>] \in Visits
  <2>1. n + 1 \in 0 .. n + 1 OBVIOUS
  <2>2. d[n + 1] \in Answers BY <1>2, <2>1 DEF Nested
  <2>3. QED BY <2>2, <1>8, <1>9 DEF Answers
<1>13. QED BY <1>2, <1>7, <1>11, <1>12

-----------------------------------------------------------------------------
\* The scope the providers as they are give the provider n.
ScopeOf(n) == IF Prov(n).scope = "singleton" /\ n \in RequestBound THEN "request" ELSE Prov(n).scope

LEMMA EffectiveScope ==
  ASSUME AppTyped, Uniform, NEW o \in Owners, NEW k \in Toks, Provider(o, k) # None,
         NEW known \in [Toks -> Seq(Toks) \cup {None}], KnownFrom(known)
  PROVE  Effective(o, k, known).scope = ScopeOf(<<o, k>>)
<1>1. PICK n \in Given : n = <<o, k>> BY DEF Given, Slots
<1>2. PICK r : r = Effective(o, k, known) OBVIOUS
<1>3. r \in Visits /\ VisitRight(n, {}, r) BY <1>1, <1>2, EffectiveRight
<1>4. CASE Prov(n).scope # "singleton"
  <2>1. r.scope = Prov(n).scope BY <1>3, <1>4 DEF VisitRight
  <2>2. QED BY <2>1, <1>1, <1>2, <1>4 DEF ScopeOf
<1>5. CASE Prov(n).scope = "singleton" /\ r.scope = "request"
  <2>1. n \in RequestBound BY <1>3, <1>5 DEF VisitRight
  <2>2. QED BY <2>1, <1>1, <1>2, <1>5 DEF ScopeOf
<1>6. CASE Prov(n).scope = "singleton" /\ r.scope # "request"
  <2>1. Covered(n, r.seen) /\ \A x \in r.seen : Settled(x, r.seen) BY <1>3, <1>6 DEF VisitRight
  <2> DEFINE S == {x \in Given : ~Covered(x, r.seen)}
  <2>2. ASSUME NEW x \in Given, Prov(x).scope = "request" PROVE x \in S
    <3>1. x \notin r.seen BY <2>1, <2>2 DEF Settled
    <3>2. QED BY <2>2, <3>1 DEF Covered
  <2>3. ASSUME NEW x \in Given, Prov(x).scope = "singleton", Uses(x) \cap S # {} PROVE x \in S
    <3>1. PICK q \in Uses(x) : ~Covered(q, r.seen) BY <2>3
    <3>2. x \notin r.seen BY <2>1, <3>1 DEF Settled
    <3>3. QED BY <2>3, <3>2 DEF Covered
  <2>4. S \in SUBSET Given OBVIOUS
  <2>5. Inherits(S)
    <3> HIDE DEF S
    <3>1. QED BY <2>2, <2>3 DEF Inherits
  <2>6. RequestBound \subseteq S
    <3> HIDE DEF S
    <3>1. QED BY <2>4, <2>5, BoundInherits
  <2>7. n \notin RequestBound BY <2>1, <2>6
  <2>8. r.scope = "singleton" BY <1>3, <1>6 DEF VisitRight
  <2>9. QED BY <2>7, <2>8, <1>1, <1>2, <1>6 DEF ScopeOf
<1>7. QED BY <1>4, <1>5, <1>6

CachesRight ==
  Uniform => \A o \in Owners, k \in Toks :
    Provider(o, k) # None /\ scopes[o][k] # None => scopes[o][k] = ScopeOf(<<o, k>>)

\* Why the caches may be believed.
ScopeInv ==
  /\ AppTyped /\ Overridden
  /\ dependencies \in [Toks -> Seq(Toks) \cup {None}] /\ KnownFrom(dependencies)
  /\ scopes \in [Owners -> [Toks -> Scopes \cup {None}]] /\ CachesRight

LEMMA AnswerRight ==
  ASSUME ScopeInv, NEW o \in Owners, NEW k \in Toks, Provider(o, k) # None
  PROVE  /\ Answer(o, k).scope \in Scopes
         /\ Answer(o, k).known \in [Toks -> Seq(Toks) \cup {None}] /\ KnownFrom(Answer(o, k).known)
         /\ Uniform => Answer(o, k).scope = ScopeOf(<<o, k>>)
<1>1. CASE scopes[o][k] # None
  <2>1. PICK a : a = [scope |-> scopes[o][k], seen |-> {}, known |-> dependencies] OBVIOUS
  <2>2. Answer(o, k) = a BY <1>1, <2>1 DEF Answer
  <2>3. a.scope = scopes[o][k] /\ a.known = dependencies BY <2>1
  <2>4. scopes[o][k] \in Scopes BY <1>1 DEF ScopeInv
  <2>5. QED BY <1>1, <2>2, <2>3, <2>4 DEF ScopeInv, CachesRight
<1>2. CASE scopes[o][k] = None
  <2>1. Answer(o, k) = Effective(o, k, dependencies) BY <1>2 DEF Answer
  <2>2. Effective(o, k, dependencies) \in Visits /\ VisitRight(<<o, k>>, {}, Effective(o, k, dependencies))
    BY EffectiveRight DEF ScopeInv
  <2>3. Uniform => Effective(o, k, dependencies).scope = ScopeOf(<<o, k>>) BY EffectiveScope DEF ScopeInv
  <2>4. QED BY <2>1, <2>2, <2>3, VisitTyped DEF VisitRight
<1>3. QED BY <1>1, <1>2

LEMMA OneProviderEach ==
  ASSUME AppTyped, Overridden,
         \A k \in Toks : Cardinality({app.local[m][k] : m \in Modules} \ {None}) <= 1
  PROVE  Uniform
<1> SUFFICES ASSUME NEW k \in Toks, NEW o1 \in Owners, NEW o2 \in Owners,
                    Provider(o1, k) # None, Provider(o2, k) # None
             PROVE Provider(o1, k) = Provider(o2, k)
  BY DEF Uniform
<1>1. CASE o1 = NoModule \/ o2 = NoModule
  <2>1. ASSUME NEW m \in Modules, shared[k] # None, Provider(m, k) # None PROVE Provider(m, k) = shared[k]
    BY <2>1, ScopeAssumption DEF Overridden, Provider
  <2>2. shared[k] # None BY <1>1 DEF Provider
  <2>3. \A o \in Owners : Provider(o, k) # None => Provider(o, k) = shared[k] BY <2>1, <2>2 DEF Owners, Provider
  <2>4. QED BY <2>3
<1>2. CASE o1 # NoModule /\ o2 # NoModule
  <2> DEFINE S == {app.local[m][k] : m \in Modules} \ {None}
  <2>1. o1 \in Modules /\ o2 \in Modules BY <1>2 DEF Owners
  <2>2. app.local[o1][k] \in S /\ app.local[o2][k] \in S /\ Provider(o1, k) = app.local[o1][k] /\ Provider(o2, k) = app.local[o2][k]
    BY <1>2, <2>1 DEF Provider
  <2>3. IsFiniteSet(S)
    <3>1. PICK f : f = [m \in Modules |-> app.local[m][k]] OBVIOUS
    <3>2. {app.local[m][k] : m \in Modules} = {f[m] : m \in Modules} BY <3>1
    <3>3. f \in Surjection(Modules, {f[m] : m \in Modules}) BY <3>1 DEF Surjection
    <3>4. IsFiniteSet({f[m] : m \in Modules}) BY <3>3, ScopeAssumption, FS_Surjection
    <3>5. QED BY <3>2, <3>4, FS_Subset
  <2>4. Cardinality(S) <= 1 OBVIOUS
  <2> HIDE DEF S
  <2>5. Cardinality(S) \in Nat BY <2>3, FS_CardinalityType
  <2>6. Cardinality(S) = 0 \/ Cardinality(S) = 1 BY <2>4, <2>5
  <2>7. S # {} BY <2>2
  <2>8. Cardinality(S) = 1 BY <2>3, <2>6, <2>7, FS_EmptySet
  <2>9. PICK p : S = {p} BY <2>3, <2>8, FS_Singleton
  <2>10. QED BY <2>2, <2>9
<1>3. QED BY <1>1, <1>2

LEMMA InvResolves ==
  ASSUME ScopeInv
  PROVE  ModulesResolve
<1>1. LocateFindsVisible BY FoundWhereVisible DEF ScopeInv
<1>2. ASSUME \A k \in Toks : Cardinality({app.local[m][k] : m \in Modules} \ {None}) <= 1
      PROVE  ScopeIsReachability
  <2>1. Uniform BY <1>2, OneProviderEach DEF ScopeInv
  <2>2. ASSUME NEW o \in Owners, NEW k \in Toks, Provider(o, k) # None
        PROVE  Answer(o, k).scope = (IF Provider(o, k).scope = "singleton" /\ <<o, k>> \in RequestBound
                                     THEN "request" ELSE Provider(o, k).scope)
    <3>1. Answer(o, k).scope = ScopeOf(<<o, k>>) BY <2>1, <2>2, AnswerRight
    <3>2. Prov(<<o, k>>) = Provider(o, k) BY DEF Prov
    <3>3. QED BY <3>1, <3>2 DEF ScopeOf
  <2>3. QED BY <2>2 DEF ScopeIsReachability
<1>3. QED BY <1>1, <1>2 DEF ModulesResolve, ScopeBubbles

LEMMA SameBound ==
  ASSUME app' = app, shared' = shared
  PROVE  RequestBound' = RequestBound
BY DEF RequestBound, Given, Slots, Provider, Owner, Locate, Find, FindElsewhere, Unfound, Owners

LEMMA AskRight ==
  ASSUME ScopeInv, NEW k \in Toks, NEW m \in Owners, Ask(k, m)
  PROVE  ScopeInv'
<1>1. PICK o : o = Owner(k, m) OBVIOUS
<1>2. PICK a : a = Answer(o, k) OBVIOUS
<1>3. /\ o # None /\ app' = app /\ shared' = shared /\ dependencies' = a.known
      /\ scopes' = IF Cardinality(a.seen) <= 1 THEN [scopes EXCEPT ![o][k] = a.scope] ELSE scopes
  BY <1>1, <1>2 DEF Ask
<1>4. o \in Owners /\ Provider(o, k) # None
  <2>1. AppTyped BY DEF ScopeInv
  <2>2. o \in Owners /\ <<o, k>> \in Given BY <1>1, <1>3, <2>1, OwnerTyped
  <2>3. QED BY <2>2 DEF Given
<1>5. /\ a.scope \in Scopes /\ a.known \in [Toks -> Seq(Toks) \cup {None}] /\ KnownFrom(a.known)
      /\ Uniform => a.scope = ScopeOf(<<o, k>>)
  BY <1>2, <1>4, AnswerRight
<1>6. AppTyped' /\ Overridden' BY <1>3 DEF ScopeInv, AppTyped, Overridden
<1>7. \A p, x : Provider(p, x)' = Provider(p, x) BY <1>3 DEF Provider
<1>8. KnownFrom(dependencies)' BY <1>3, <1>5, <1>7 DEF KnownFrom
<1>9. scopes \in [Owners -> [Toks -> Scopes \cup {None}]] BY DEF ScopeInv
<1>10. scopes' \in [Owners -> [Toks -> Scopes \cup {None}]]
  <2>1. [scopes EXCEPT ![o][k] = a.scope] \in [Owners -> [Toks -> Scopes \cup {None}]] BY <1>4, <1>5, <1>9
  <2>2. QED BY <1>3, <1>9, <2>1
<1>11. CachesRight'
  <2> SUFFICES ASSUME Uniform', NEW p \in Owners, NEW x \in Toks,
                      Provider(p, x)' # None, scopes'[p][x] # None
               PROVE  scopes'[p][x] = ScopeOf(<<p, x>>)'
    BY DEF CachesRight
  <2>1. Uniform BY <1>7 DEF Uniform
  <2>2. ScopeOf(<<p, x>>)' = ScopeOf(<<p, x>>)
    <3>1. RequestBound' = RequestBound BY <1>3, SameBound
    <3>2. Prov(<<p, x>>)' = Prov(<<p, x>>) BY <1>7 DEF Prov
    <3>3. QED BY <3>1, <3>2 DEF ScopeOf
  <2>3. CASE scopes'[p][x] = scopes[p][x] BY <1>7, <2>1, <2>2, <2>3 DEF ScopeInv, CachesRight
  <2>4. CASE scopes'[p][x] # scopes[p][x]
    <3>1. scopes' = [scopes EXCEPT ![o][k] = a.scope] BY <1>3, <2>4
    <3>2. p = o /\ x = k /\ scopes'[p][x] = a.scope BY <1>4, <1>9, <2>4, <3>1
    <3>3. QED BY <1>5, <2>1, <2>2, <3>2
  <2>5. QED BY <2>3, <2>4
<1>12. QED BY <1>3, <1>5, <1>6, <1>8, <1>10, <1>11 DEF ScopeInv

LEMMA OverrideRight ==
  ASSUME ScopeInv, NEW k \in Toks, NEW p \in Replacements, Override(k, p)
  PROVE  ScopeInv'
<1>0. None \notin Modules /\ None # NoModule /\ NoModule \notin Modules BY ScopeAssumption DEF Owners
<1>1. p \in AnyProvider /\ p # None BY ScopeAssumption
<1>2. PICK local : local = [m \in Modules |->
               IF app.local[m][k] = None THEN app.local[m] ELSE [app.local[m] EXCEPT ![k] = p]]
  OBVIOUS
<1>3. /\ app' = [app EXCEPT !.local = local] /\ shared' = [shared EXCEPT ![k] = p]
      /\ dependencies' = [dependencies EXCEPT ![k] = None] /\ scopes' = NoScopes
  BY <1>2 DEF Override, ScopesWithout
<1>4. /\ app \in Applications /\ app.local \in [Modules -> [Toks -> AnyProvider \cup {None}]]
      /\ shared \in [Toks -> AnyProvider \cup {None}] BY DEF ScopeInv, AppTyped, Applications
<1>5. ASSUME NEW m \in Modules, NEW x \in Toks
      PROVE  /\ x # k => local[m][x] = app.local[m][x]
             /\ x = k => local[m][x] = IF app.local[m][x] = None THEN None ELSE p
  BY <1>2, <1>4
<1>6. local \in [Modules -> [Toks -> AnyProvider \cup {None}]]
  <2>1. ASSUME NEW m \in Modules
        PROVE (IF app.local[m][k] = None THEN app.local[m] ELSE [app.local[m] EXCEPT ![k] = p]) \in [Toks -> AnyProvider \cup {None}]
    BY <1>1, <1>4
  <2>2. QED BY <1>2, <2>1
<1>7. app'.local = local BY <1>3, <1>4 DEF Applications
<1>8. AppTyped'
  <2>1. app' \in Applications BY <1>3, <1>4, <1>6 DEF Applications
  <2>2. shared' \in [Toks -> AnyProvider \cup {None}] BY <1>1, <1>3, <1>4
  <2>3. QED BY <2>1, <2>2 DEF AppTyped
<1>9. \A x \in Toks : shared'[x] = IF x = k THEN p ELSE shared[x] BY <1>3, <1>4
<1>10. Overridden'
  <2>1. ASSUME NEW x \in Toks, shared'[x] # None, NEW m \in Modules PROVE app'.local[m][x] \in {None, shared'[x]}
    <3>1. CASE x = k BY <3>1, <1>5, <1>7, <1>9
    <3>2. CASE x # k BY <2>1, <3>2, <1>5, <1>7, <1>9 DEF ScopeInv, Overridden
    <3>3. QED BY <3>1, <3>2
  <2>2. QED BY <2>1 DEF Overridden
<1>11. ASSUME NEW o \in Owners, NEW x \in Toks, x # k PROVE Provider(o, x)' = Provider(o, x)
  <2>1. CASE o = NoModule BY <2>1, <1>9, <1>11 DEF Provider
  <2>2. CASE o # NoModule
    <3>1. o \in Modules BY <2>2 DEF Owners
    <3>2. QED BY <2>2, <3>1, <1>5, <1>7, <1>11 DEF Provider
  <2>3. QED BY <2>1, <2>2
<1>12. dependencies \in [Toks -> Seq(Toks) \cup {None}] BY DEF ScopeInv
<1>13. dependencies' \in [Toks -> Seq(Toks) \cup {None}] BY <1>3, <1>12
<1>14. KnownFrom(dependencies)'
  <2>1. ASSUME NEW x \in Toks, dependencies'[x] # None
        PROVE  \E o \in Owners : Provider(o, x)' # None /\ dependencies'[x] = Provider(o, x)'.deps
    <3>1. x # k /\ dependencies'[x] = dependencies[x] BY <2>1, <1>3, <1>12
    <3>2. PICK o \in Owners : Provider(o, x) # None /\ dependencies[x] = Provider(o, x).deps
      BY <2>1, <3>1 DEF ScopeInv, KnownFrom
    <3>3. QED BY <3>1, <3>2, <1>11
  <2>2. QED BY <2>1 DEF KnownFrom
<1>15. scopes' \in [Owners -> [Toks -> Scopes \cup {None}]] /\ CachesRight' BY <1>3 DEF NoScopes, CachesRight
<1>16. QED BY <1>8, <1>10, <1>13, <1>14, <1>15 DEF ScopeInv

LEMMA ScopeStarts == ASSUME ScopeInit PROVE ScopeInv
<1>1. app \in Applications BY ScopeAssumption DEF ScopeInit
<1>2. AppTyped BY <1>1 DEF ScopeInit, AppTyped
<1>3. Overridden BY DEF ScopeInit, Overridden
<1>4. dependencies \in [Toks -> Seq(Toks) \cup {None}] /\ KnownFrom(dependencies) BY DEF ScopeInit, KnownFrom
<1>5. scopes \in [Owners -> [Toks -> Scopes \cup {None}]] /\ CachesRight BY DEF ScopeInit, NoScopes, CachesRight
<1>6. QED BY <1>2, <1>3, <1>4, <1>5 DEF ScopeInv

\* Whatever modules an application has and however they import, export and
\* re-export, a token is found where the module can see it, and its scope is
\* that of the providers as they are: neither of the two caches goes stale.
THEOREM ModulesResolveAlways == ScopeSpec => []ModulesResolve
<1>1. ASSUME ScopeInv, [ScopeNext]_scopeVars PROVE ScopeInv'
  <2>1. CASE \E k \in Toks, m \in Owners : Ask(k, m) BY <1>1, <2>1, AskRight
  <2>2. CASE \E k \in Toks, p \in Replacements : Override(k, p) BY <1>1, <2>2, OverrideRight
  <2>3. CASE UNCHANGED scopeVars
    <3>1. app' = app /\ shared' = shared /\ dependencies' = dependencies /\ scopes' = scopes BY <2>3 DEF scopeVars
    <3>2. RequestBound' = RequestBound BY <3>1, SameBound
    <3>3. \A p, x : Provider(p, x)' = Provider(p, x) BY <3>1 DEF Provider
    <3>4. KnownFrom(dependencies)' BY <1>1, <3>1, <3>3 DEF ScopeInv, KnownFrom
    <3>5. AppTyped' /\ Overridden' BY <1>1, <3>1 DEF ScopeInv, AppTyped, Overridden
    <3>6. CachesRight'
      <4>1. Uniform' => Uniform BY <3>3 DEF Uniform
      <4>2. \A p, x : ScopeOf(<<p, x>>)' = ScopeOf(<<p, x>>) BY <3>2, <3>3 DEF ScopeOf, Prov
      <4>3. QED BY <1>1, <3>1, <3>3, <4>1, <4>2 DEF ScopeInv, CachesRight
    <3>7. QED BY <1>1, <3>1, <3>4, <3>5, <3>6 DEF ScopeInv
  <2>4. QED BY <1>1, <2>1, <2>2, <2>3 DEF ScopeNext
<1>2. ScopeInit => ScopeInv BY ScopeStarts
<1>3. ScopeInv => ModulesResolve BY InvResolves
<1>4. QED BY <1>1, <1>2, <1>3, PTL DEF ScopeSpec
-----------------------------------------------------------------------------
(* Where a token comes from when no module re-exports it through a cycle *)

Offering(k) == {x \in Modules : k \in app.exports[x]}

\* The first place around m that exports k.
FirstAsked(k, m, i) ==
  /\ i \in 1 .. Len(Around(m)) /\ Asked(k, m, i)
  /\ \A j \in 1 .. Len(Around(m)) : Asked(k, m, j) => i <= j

\* The modules that export k come to w: to themselves if they provide it, or
\* to what the first import that exports it comes to.
ComesTo(k, w) ==
  /\ w \in [Modules -> Modules]
  /\ \A y \in Offering(k) :
       IF app.local[y][k] # None THEN w[y] = y
       ELSE \E i \in DOMAIN app.imports[y] : FirstAsked(k, y, i) /\ w[y] = w[app.imports[y][i]]

\* A module that re-exports k ranks above the imports that export it.
Ranked(k, n, rank) ==
  /\ rank \in [Modules -> 0 .. n]
  /\ \A y \in Offering(k) : app.local[y][k] = None =>
       \A i \in DOMAIN app.imports[y] :
         app.imports[y][i] \in Offering(k) => rank[app.imports[y][i]] < rank[y]

\* A search past m ends with the first module asked, if that one finds k.
LEMMA FirstDecides ==
  ASSUME Tabled, NEW k \in Toks, NEW m \in Modules, NEW seen \in SUBSET Modules,
         NEW below \in [Searches -> Findings]
  PROVE  /\ \A i : FirstAsked(k, m, i) /\ below[<<Around(m)[i], seen>>].owner # None =>
                     FindElsewhere(k, m, seen, below).owner = below[<<Around(m)[i], seen>>].owner
         /\ (\A i : ~FirstAsked(k, m, i)) => FindElsewhere(k, m, seen, below).owner \in {None, NoModule}
<1>1. PICK u : /\ Passing(u, k, m, seen, below)
               /\ FindElsewhere(k, m, seen, below) =
                    LET last == u[Len(Around(m))]
                    IN IF last.owner # None THEN last ELSE Unfound(k, last.seen)
  BY FindElsewhereRuns
<1>2. PICK n \in Nat : n = Len(Around(m)) BY AroundTyped
<1>3. u[0] = [owner |-> None, seen |-> seen]
  BY <1>1 DEF Passing
<1>4. \A i \in 0 .. n : i < n =>
        u[i + 1] = IF u[i].owner # None \/ ~Asked(k, m, i + 1) THEN u[i] ELSE below[<<Around(m)[i + 1], u[i].seen>>]
  <2>1. ASSUME NEW i \in 0 .. n, i < n
        PROVE  u[i + 1] = IF u[i].owner # None \/ ~Asked(k, m, i + 1) THEN u[i] ELSE below[<<Around(m)[i + 1], u[i].seen>>]
    <3>1. i + 1 \in 1 .. n /\ (i + 1) - 1 = i BY <2>1
    <3>2. QED BY <1>1, <1>2, <3>1 DEF Passing
  <2>2. QED BY <2>1
<1>5. ASSUME NEW i, FirstAsked(k, m, i), below[<<Around(m)[i], seen>>].owner # None
      PROVE  FindElsewhere(k, m, seen, below).owner = below[<<Around(m)[i], seen>>].owner
  <2> DEFINE q == below[<<Around(m)[i], seen>>]
             T == {j \in 0 .. n : u[j] = IF j < i THEN u[0] ELSE q}
  <2>0. i \in 1 .. n /\ Asked(k, m, i) /\ \A j \in 1 .. n : Asked(k, m, j) => i <= j
    BY <1>2, <1>5 DEF FirstAsked
  <2>1. 0 \in T BY <2>0
  <2>2. ASSUME NEW j \in 0 .. n, j \in T, j < n PROVE j + 1 \in T
    <3>1. j + 1 \in 1 .. n /\ j + 1 \in 0 .. n BY <2>2
    <3>2. u[j + 1] = IF u[j].owner # None \/ ~Asked(k, m, j + 1) THEN u[j] ELSE below[<<Around(m)[j + 1], u[j].seen>>]
      BY <1>4, <2>2
    <3>3. CASE j + 1 < i
      <4>1. ~Asked(k, m, j + 1) /\ j < i BY <3>1, <3>3, <2>0
      <4>2. u[j + 1] = u[j] /\ u[j] = u[0] BY <4>1, <3>2, <2>2
      <4>3. QED BY <3>1, <3>3, <4>2
    <3>4. CASE j + 1 = i
      <4>1. j < i BY <3>4
      <4>2. u[j] = u[0] BY <4>1, <2>2
      <4>3. u[j].owner = None /\ u[j].seen = seen BY <4>2, <1>3
      <4>4. u[j + 1] = q BY <3>2, <3>4, <4>3, <2>0
      <4>5. ~(j + 1 < i) BY <3>4, <2>0
      <4>6. QED BY <3>1, <4>4, <4>5
    <3>5. CASE i < j + 1
      <4>1. ~(j < i) /\ ~(j + 1 < i) BY <3>5, <2>0
      <4>2. u[j] = q BY <4>1, <2>2
      <4>3. u[j + 1] = q BY <4>2, <3>2, <1>5
      <4>4. QED BY <3>1, <4>1, <4>3
    <3>6. QED BY <3>3, <3>4, <3>5, <2>0
  <2>3. 0 .. n \subseteq T
    <3> HIDE DEF T
    <3>1. QED BY <2>1, <2>2, UpTo
  <2>4. n \in 0 .. n /\ ~(n < i) BY <2>0
  <2>5. u[n] = q BY <2>3, <2>4
  <2>6. QED BY <2>5, <1>1, <1>2, <1>5
<1>6. ASSUME \A i : ~FirstAsked(k, m, i)
      PROVE  FindElsewhere(k, m, seen, below).owner \in {None, NoModule}
  <2>1. \A j \in 1 .. n : ~Asked(k, m, j)
    <3> DEFINE S == {j \in 1 .. n : Asked(k, m, j)}
    <3>1. SUFFICES ASSUME S # {} PROVE FALSE OBVIOUS
    <3>2. S \subseteq Nat OBVIOUS
    <3>3. PICK i \in S : \A j \in S : i <= j
      <4> HIDE DEF S
      <4>1. QED BY <3>1, <3>2, LeastNumber
    <3>4. FirstAsked(k, m, i) BY <3>3, <1>2 DEF FirstAsked
    <3>5. QED BY <3>4, <1>6
  <2> DEFINE T == {j \in 0 .. n : u[j] = u[0]}
  <2>2. 0 \in T OBVIOUS
  <2>3. ASSUME NEW j \in 0 .. n, j \in T, j < n PROVE j + 1 \in T
    <3>1. j + 1 \in 1 .. n /\ j + 1 \in 0 .. n BY <2>3
    <3>2. u[j + 1] = u[j] BY <3>1, <2>1, <2>3, <1>4
    <3>3. QED BY <3>1, <3>2, <2>3
  <2>4. 0 .. n \subseteq T
    <3> HIDE DEF T
    <3>1. QED BY <2>2, <2>3, UpTo
  <2>5. u[n] = u[0] BY <2>4
  <2>6. u[n].owner = None BY <2>5, <1>3
  <2>7. FindElsewhere(k, m, seen, below) = Unfound(k, u[n].seen) BY <2>6, <1>1, <1>2
  <2>8. QED BY <2>7 DEF Unfound
<1>7. QED BY <1>5, <1>6

LEMMA ImportsFirst ==
  ASSUME Tabled, NEW m \in Modules, NEW i \in DOMAIN app.imports[m]
  PROVE  i \in 1 .. Len(Around(m)) /\ i <= Len(app.imports[m]) /\ Around(m)[i] = app.imports[m][i]
<1>1. app.imports[m] \in Seq(Modules) /\ app.globals \in Seq(Modules) BY DEF Tabled
<1>2. PICK a \in Nat : a = Len(app.imports[m]) BY <1>1
<1>3. PICK b \in Nat : b = Len(app.globals) BY <1>1
<1>4. /\ Len(Around(m)) = Len(app.imports[m]) + Len(app.globals)
      /\ \A j \in 1 .. Len(app.imports[m]) + Len(app.globals) :
           Around(m)[j] = IF j <= Len(app.imports[m]) THEN app.imports[m][j]
                          ELSE app.globals[j - Len(app.imports[m])]
  BY <1>1, ConcatProperties, LenProperties DEF Around
<1>5. i \in 1 .. a BY <1>1, <1>2, LenProperties
<1>6. i \in 1 .. a + b /\ i <= a BY <1>5
<1>7. QED BY <1>2, <1>3, <1>4, <1>6

\* A module that exports k finds what it comes to, from wherever it is asked and
\* whatever was seen before that does not rank below it.
Coming(d, k, w, rank, i) ==
  \A y \in Offering(k), s \in SUBSET Modules :
    /\ Cardinality(Modules \ s) < i
    /\ \A x \in s \cap Offering(k) : app.local[x][k] = None => rank[y] < rank[x]
    => d[i][<<y, s>>].owner = w[y]

LEMMA ComingStep ==
  ASSUME Tabled, NEW k \in Toks, NEW w, ComesTo(k, w), NEW n \in Nat, NEW rank, Ranked(k, n, rank),
         NEW h \in Nat, NEW d, Deeper(d, k, h), NEW i \in 0 .. h, i < h, Coming(d, k, w, rank, i)
  PROVE  Coming(d, k, w, rank, i + 1)
<1>0. i + 1 \in 1 .. h /\ (i + 1) - 1 = i /\ d[i] \in [Searches -> Findings] BY DEF Deeper
<1>1. SUFFICES ASSUME NEW y \in Offering(k), NEW s \in SUBSET Modules, Cardinality(Modules \ s) < i + 1,
                      \A x \in s \cap Offering(k) : app.local[x][k] = None => rank[y] < rank[x]
               PROVE  d[i + 1][<<y, s>>].owner = w[y]
  BY DEF Coming
<1>2. y \in Modules /\ rank[y] \in 0 .. n BY DEF Offering, Ranked
<1>3. d[i + 1][<<y, s>>] = Find(k, y, s, d[i]) BY <1>0, <1>2 DEF Deeper
<1>4. CASE app.local[y][k] # None
  <2>1. w[y] = y BY <1>4 DEF ComesTo
  <2>2. QED BY <2>1, <1>3, <1>4 DEF Find
<1>5. CASE app.local[y][k] = None
  <2>1. y \notin s BY <1>1, <1>2, <1>5
  <2>2. d[i + 1][<<y, s>>] = FindElsewhere(k, y, s \cup {y}, d[i]) BY <2>1, <1>3, <1>5 DEF Find
  <2>3. PICK j \in DOMAIN app.imports[y] : FirstAsked(k, y, j) /\ w[y] = w[app.imports[y][j]]
    BY <1>5 DEF ComesTo
  <2>4. PICK z : z = Around(y)[j] OBVIOUS
  <2>5. z = app.imports[y][j] /\ z \in Modules BY <2>3, <2>4, <1>2, ImportsFirst, AroundTyped
  <2>6. z \in Offering(k) BY <2>3, <2>4, <2>5 DEF FirstAsked, Asked, Offering
  <2>7. rank[z] < rank[y] /\ rank[z] \in 0 .. n BY <1>5, <2>3, <2>5, <2>6 DEF Ranked
  <2>8. \A x \in (s \cup {y}) \cap Offering(k) : app.local[x][k] = None => rank[z] < rank[x]
    <3>1. ASSUME NEW x \in s \cap Offering(k), app.local[x][k] = None PROVE rank[z] < rank[x]
      <4>1. rank[y] < rank[x] /\ rank[x] \in 0 .. n BY <3>1, <1>1 DEF Ranked, Offering
      <4>2. QED BY <4>1, <2>7, <1>2
    <3>2. QED BY <3>1, <2>7
  <2>9. Cardinality(Modules \ (s \cup {y})) < i
    <3>1. Modules \ (s \cup {y}) \in SUBSET (Modules \ s) /\ Modules \ (s \cup {y}) # Modules \ s BY <2>1, <1>2
    <3>2. IsFiniteSet(Modules \ s) /\ Cardinality(Modules \ s) \in Nat BY ScopeAssumption, FS_Subset, FS_CardinalityType
    <3>3. IsFiniteSet(Modules \ (s \cup {y})) /\ Cardinality(Modules \ (s \cup {y})) \in Nat
      BY <3>1, <3>2, FS_Subset, FS_CardinalityType
    <3>4. Cardinality(Modules \ (s \cup {y})) <= Cardinality(Modules \ s)
          /\ Cardinality(Modules \ (s \cup {y})) # Cardinality(Modules \ s)
      BY <3>1, <3>2, FS_Subset
    <3>5. QED BY <3>2, <3>3, <3>4, <1>1
  <2>10. s \cup {y} \in SUBSET Modules BY <1>2
  <2>11. d[i][<<z, s \cup {y}>>].owner = w[z] BY <2>6, <2>8, <2>9, <2>10 DEF Coming
  <2>12. w[z] \in Modules /\ w[z] # None BY <2>5, ScopeAssumption DEF ComesTo, Owners
  <2> DEFINE seen == s \cup {y}
             below == d[i]
  <2>13. FindElsewhere(k, y, seen, below).owner = w[z]
    <3>1. FirstAsked(k, y, j) /\ below[<<Around(y)[j], seen>>].owner = w[z] BY <2>3, <2>4, <2>11
    <3>2. below \in [Searches -> Findings] /\ seen \in SUBSET Modules BY <2>10, <1>0
    <3> HIDE DEF seen, below
    <3>3. QED BY <3>1, <3>2, <2>12, <1>2, FirstDecides
  <2>14. QED BY <2>2, <2>3, <2>5, <2>13
<1>6. QED BY <1>4, <1>5

\* What a whole search answers.
LEMMA OwnerComes ==
  ASSUME Tabled, NEW k \in Toks, NEW w, ComesTo(k, w), NEW n \in Nat, NEW rank, Ranked(k, n, rank),
         NEW m \in Modules
  PROVE  /\ app.local[m][k] # None => Owner(k, m) = m
         /\ \A i : app.local[m][k] = None /\ FirstAsked(k, m, i) => Owner(k, m) = w[Around(m)[i]]
         /\ app.local[m][k] = None /\ (\A i : ~FirstAsked(k, m, i)) => Owner(k, m) \in {None, NoModule}
<1>1. PICK h \in Nat : h = Cardinality(Modules) BY ScopeAssumption, FS_CardinalityType
<1>2. PICK d : Deeper(d, k, h + 1) /\ Locate(k) = d[h + 1] BY <1>1, LocateRuns
<1> DEFINE T == {i \in 0 .. h : Coming(d, k, w, rank, i)}
<1>3. 0 \in T
  <2>1. ASSUME NEW s \in SUBSET Modules PROVE ~(Cardinality(Modules \ s) < 0)
    BY ScopeAssumption, FS_Subset, FS_CardinalityType
  <2>2. Coming(d, k, w, rank, 0) BY <2>1 DEF Coming
  <2>3. QED BY <2>2
<1>4. ASSUME NEW i \in 0 .. h, i \in T, i < h PROVE i + 1 \in T
  <2>1. i \in 0 .. h + 1 /\ i < h + 1 /\ h + 1 \in Nat BY <1>4
  <2>2. Coming(d, k, w, rank, i) BY <1>4
  <2>3. Coming(d, k, w, rank, i + 1) BY <2>1, <2>2, <1>2, ComingStep
  <2>4. i + 1 \in 0 .. h BY <1>4
  <2>5. QED BY <2>3, <2>4
<1>5. Coming(d, k, w, rank, h)
  <2>1. 0 .. h \subseteq T
    <3> HIDE DEF T
    <3>1. QED BY <1>3, <1>4, UpTo
  <2>2. h \in 0 .. h OBVIOUS
  <2>3. QED BY <2>1, <2>2
<1> HIDE DEF T
<1>6. h + 1 \in 1 .. h + 1 /\ (h + 1) - 1 = h /\ h \in 0 .. h + 1 OBVIOUS
<1>7. d[h] \in [Searches -> Findings] BY <1>2, <1>6 DEF Deeper
<1>8. Locate(k)[<<m, {}>>] = Find(k, m, {}, d[h]) BY <1>2, <1>6 DEF Deeper
<1>9. Owner(k, m) = Find(k, m, {}, d[h]).owner
  <2>1. m # NoModule BY ScopeAssumption
  <2>2. QED BY <1>8, <2>1 DEF Owner
<1>10. ASSUME app.local[m][k] # None PROVE Owner(k, m) = m BY <1>9, <1>10 DEF Find
<1>11. ASSUME app.local[m][k] = None PROVE Owner(k, m) = FindElsewhere(k, m, {m}, d[h]).owner
  <2>1. {} \cup {m} = {m} OBVIOUS
  <2>2. QED BY <1>9, <1>11, <2>1 DEF Find
<1>12. ASSUME app.local[m][k] = None, NEW i, FirstAsked(k, m, i) PROVE Owner(k, m) = w[Around(m)[i]]
  <2>1. PICK z : z = Around(m)[i] OBVIOUS
  <2>2. z \in Modules /\ z \in Offering(k) BY <1>12, <2>1, AroundTyped DEF FirstAsked, Asked, Offering
  <2>3. ASSUME m \in Offering(k) PROVE rank[z] < rank[m]
    <3>1. PICK j \in DOMAIN app.imports[m] : FirstAsked(k, m, j) BY <2>3, <1>12 DEF ComesTo
    <3>2. Len(Around(m)) \in Nat BY AroundTyped
    <3>3. i = j BY <3>1, <3>2, <1>12 DEF FirstAsked
    <3>4. z = app.imports[m][j] BY <3>1, <3>3, <2>1, ImportsFirst
    <3>5. QED BY <3>4, <2>2, <2>3, <1>12 DEF Ranked
  <2>4. Cardinality(Modules \ {m}) < h
    <3>1. Modules \ {m} \in SUBSET Modules /\ Modules \ {m} # Modules OBVIOUS
    <3>2. IsFiniteSet(Modules \ {m}) /\ Cardinality(Modules \ {m}) \in Nat
      BY <3>1, ScopeAssumption, FS_Subset, FS_CardinalityType
    <3>3. QED BY <3>1, <3>2, <1>1, ScopeAssumption, FS_Subset
  <2>5. d[h][<<z, {m}>>].owner = w[z] BY <2>2, <2>3, <2>4, <1>5 DEF Coming
  <2>6. w[z] # None BY <2>2, ScopeAssumption DEF ComesTo, Owners
  <2> DEFINE seen == {m}
             below == d[h]
  <2>7. FindElsewhere(k, m, seen, below).owner = w[z]
    <3>1. below[<<Around(m)[i], seen>>].owner = w[z] BY <2>1, <2>5
    <3>2. below \in [Searches -> Findings] /\ seen \in SUBSET Modules BY <1>7
    <3> HIDE DEF seen, below
    <3>3. QED BY <3>1, <3>2, <2>6, <1>12, FirstDecides
  <2>8. QED BY <2>1, <2>7, <1>11, <1>12
<1>13. ASSUME app.local[m][k] = None, \A i : ~FirstAsked(k, m, i) PROVE Owner(k, m) \in {None, NoModule}
  <2>1. FindElsewhere(k, m, {m}, d[h]).owner \in {None, NoModule} BY <1>7, <1>13, FirstDecides
  <2>2. QED BY <2>1, <1>11, <1>13
<1>14. QED BY <1>10, <1>12, <1>13

LEMMA FirstIsAsked ==
  ASSUME Tabled, ExportsValid(app), NEW k \in Toks, NEW y \in Offering(k), app.local[y][k] = None
  PROVE  \E i \in DOMAIN app.imports[y] : FirstAsked(k, y, i) /\ app.imports[y][i] \in Offering(k)
<1>1. y \in Modules /\ k \in app.exports[y] BY DEF Offering
<1>2. PICK j \in DOMAIN app.imports[y] : k \in app.exports[app.imports[y][j]] BY <1>1 DEF ExportsValid
<1>3. j \in 1 .. Len(Around(y)) /\ Asked(k, y, j) BY <1>1, <1>2, ImportsFirst DEF Asked
<1> DEFINE S == {i \in 1 .. Len(Around(y)) : Asked(k, y, i)}
<1>4. Len(Around(y)) \in Nat /\ S \subseteq Nat /\ j \in S BY <1>1, <1>3, AroundTyped
<1>5. PICK i \in S : \A x \in S : i <= x
  <2> HIDE DEF S
  <2>1. QED BY <1>4, LeastNumber
<1>6. FirstAsked(k, y, i) BY <1>5 DEF FirstAsked
<1>7. i \in DOMAIN app.imports[y]
  <2>1. app.imports[y] \in Seq(Modules) BY <1>1 DEF Tabled
  <2>2. DOMAIN app.imports[y] = 1 .. Len(app.imports[y]) /\ Len(app.imports[y]) \in Nat BY <2>1, LenProperties
  <2>3. i <= j /\ i \in 1 .. Len(Around(y)) /\ j \in 1 .. Len(app.imports[y]) BY <1>4, <1>5, <2>2
  <2>4. QED BY <2>2, <2>3, <1>4
<1>8. Around(y)[i] = app.imports[y][i] /\ Around(y)[i] \in Modules BY <1>1, <1>5, <1>7, ImportsFirst, AroundTyped
<1>9. app.imports[y][i] \in Offering(k) BY <1>6, <1>8 DEF FirstAsked, Asked, Offering
<1>10. QED BY <1>6, <1>7, <1>9

LEMMA SomethingComes ==
  ASSUME Tabled, ExportsValid(app), NEW k \in Toks, NEW n \in Nat, NEW rank, Ranked(k, n, rank)
  PROVE  \E w : ComesTo(k, w)
<1> DEFINE Holds(w, y) == IF app.local[y][k] # None THEN w[y] = y
                          ELSE \E i \in DOMAIN app.imports[y] : FirstAsked(k, y, i) /\ w[y] = w[app.imports[y][i]]
           T == {h \in 0 .. n + 1 : \E w \in [Modules -> Modules] : \A y \in Offering(k) : rank[y] < h => Holds(w, y)}
<1>0. \A y \in Offering(k) : y \in Modules /\ rank[y] \in 0 .. n BY DEF Offering, Ranked
<1>1. 0 \in T
  <2>1. PICK w : w = [y \in Modules |-> y] OBVIOUS
  <2>2. w \in [Modules -> Modules] /\ \A y \in Offering(k) : ~(rank[y] < 0) BY <2>1, <1>0
  <2> HIDE DEF Holds
  <2>3. QED BY <2>2
<1>2. ASSUME NEW h \in 0 .. n + 1, h \in T, h < n + 1 PROVE h + 1 \in T
  <2>1. PICK w \in [Modules -> Modules] : \A y \in Offering(k) : rank[y] < h => Holds(w, y) BY <1>2
  <2> DEFINE First(y) == CHOOSE i \in DOMAIN app.imports[y] :
                            FirstAsked(k, y, i) /\ app.imports[y][i] \in Offering(k)
             Highest(y) == y \in Offering(k) /\ rank[y] = h
  <2>2. ASSUME NEW y \in Offering(k), app.local[y][k] = None
        PROVE  First(y) \in DOMAIN app.imports[y] /\ FirstAsked(k, y, First(y)) /\ app.imports[y][First(y)] \in Offering(k)
    BY <2>2, FirstIsAsked
  <2> HIDE DEF First
  <2>3. PICK v : v = [y \in Modules |-> IF ~Highest(y) THEN w[y] ELSE IF app.local[y][k] # None THEN y
                                        ELSE w[app.imports[y][First(y)]]]
    OBVIOUS
  <2>4. v \in [Modules -> Modules]
    <3>1. ASSUME NEW y \in Modules PROVE v[y] \in Modules
      <4>1. CASE ~Highest(y) \/ app.local[y][k] # None BY <4>1, <2>3, <2>1
      <4>2. CASE Highest(y) /\ app.local[y][k] = None
        <5>1. app.imports[y][First(y)] \in Modules BY <4>2, <2>2, <1>0
        <5>2. v[y] = w[app.imports[y][First(y)]] BY <4>2, <2>3
        <5>3. QED BY <5>1, <5>2, <2>1
      <4>3. QED BY <4>1, <4>2
    <3>2. QED BY <3>1, <2>3
  <2>5. ASSUME NEW y \in Offering(k), rank[y] < h PROVE v[y] = w[y] BY <2>3, <2>5, <1>0
  <2>6. ASSUME NEW y \in Offering(k), rank[y] < h + 1 PROVE Holds(v, y)
    <3>1. CASE rank[y] < h
      <4>1. Holds(w, y) BY <3>1, <2>1
      <4>2. CASE app.local[y][k] # None BY <3>1, <4>1, <4>2, <2>5
      <4>3. CASE app.local[y][k] = None
        <5>1. PICK i \in DOMAIN app.imports[y] : FirstAsked(k, y, i) /\ w[y] = w[app.imports[y][i]] BY <4>1, <4>3
        <5>2. PICK z : z = app.imports[y][i] OBVIOUS
        <5>3. z \in Offering(k)
          <6>1. Around(y)[i] = z /\ Around(y)[i] \in Modules BY <5>1, <5>2, <1>0, ImportsFirst, AroundTyped
          <6>2. QED BY <6>1, <5>1 DEF FirstAsked, Asked, Offering
        <5>4. rank[z] < rank[y] BY <5>2, <5>3, <4>3 DEF Ranked
        <5>5. rank[z] < h BY <5>3, <5>4, <3>1, <1>0
        <5>6. v[z] = w[z] /\ v[y] = w[y] BY <5>3, <5>5, <3>1, <2>5
        <5>7. QED BY <5>1, <5>2, <5>6, <4>3
      <4>4. QED BY <4>2, <4>3
    <3>2. CASE ~(rank[y] < h)
      <4>1. Highest(y) BY <3>2, <2>6, <1>0
      <4>2. CASE app.local[y][k] # None BY <4>1, <4>2, <2>3, <1>0
      <4>3. CASE app.local[y][k] = None
        <5>1. PICK z : z = app.imports[y][First(y)] OBVIOUS
        <5>2. v[y] = w[z] BY <4>1, <4>3, <5>1, <2>3, <1>0
        <5>3. z \in Offering(k) /\ First(y) \in DOMAIN app.imports[y] /\ FirstAsked(k, y, First(y))
          BY <4>3, <5>1, <2>2
        <5>4. rank[z] < rank[y] BY <5>1, <5>3, <4>3 DEF Ranked
        <5>5. v[z] = w[z] BY <4>1, <5>3, <5>4, <2>5
        <5>6. QED BY <4>3, <5>1, <5>2, <5>3, <5>5
      <4>4. QED BY <4>2, <4>3
    <3>3. QED BY <3>1, <3>2
  <2>7. h + 1 \in 0 .. n + 1 BY <1>2
  <2> HIDE DEF Holds
  <2>8. QED BY <2>4, <2>6, <2>7
<1>3. n + 1 \in T
  <2> HIDE DEF T
  <2>1. n + 1 \in Nat /\ n + 1 \in 0 .. n + 1 OBVIOUS
  <2>2. QED BY <1>1, <1>2, <2>1, UpTo
<1>4. PICK w \in [Modules -> Modules] : \A y \in Offering(k) : rank[y] < n + 1 => Holds(w, y) BY <1>3
<1>5. \A y \in Offering(k) : Holds(w, y)
  <2> HIDE DEF Holds
  <2>1. ASSUME NEW y \in Offering(k) PROVE Holds(w, y)
    <3>1. rank[y] < n + 1 BY <1>0
    <3>2. QED BY <3>1, <1>4
  <2>2. QED BY <2>1
<1>6. ComesTo(k, w) BY <1>4, <1>5 DEF ComesTo
<1>7. QED BY <1>6

\* What OwnerComes and SomethingComes say, of one state.
OwnersCome ==
  \A k \in Toks, n \in Nat : \A rank, w : Ranked(k, n, rank) /\ ComesTo(k, w) =>
    \A m \in Modules :
      /\ app.local[m][k] # None => Owner(k, m) = m
      /\ \A i : app.local[m][k] = None /\ FirstAsked(k, m, i) => Owner(k, m) = w[Around(m)[i]]
      /\ app.local[m][k] = None /\ (\A i : ~FirstAsked(k, m, i)) => Owner(k, m) \in {None, NoModule}
SomeCome ==
  \A k \in Toks, n \in Nat : \A rank : Ranked(k, n, rank) => \E w : ComesTo(k, w)

LEMMA AllCome == Tabled => OwnersCome /\ (ExportsValid(app) => SomeCome)
<1>1. ASSUME Tabled PROVE OwnersCome BY <1>1, OwnerComes DEF OwnersCome
<1>2. ASSUME Tabled, ExportsValid(app) PROVE SomeCome BY <1>2, SomethingComes DEF SomeCome
<1>3. QED BY <1>1, <1>2

\* No module re-exports a token through a cycle of imports.
ReexportsEnd == \A k \in Toks : \E n \in Nat : \E rank : Ranked(k, n, rank)

LEMMA AroundGrows ==
  ASSUME Tabled, Tabled', NEW K, OnlyHas(K), Adds(K), NEW y \in K
  PROVE  /\ Len(Around(y)) \in Nat /\ Len(Around(y))' \in Nat /\ Len(Around(y)) <= Len(Around(y))'
         /\ \A j \in 1 .. Len(Around(y)) : Around(y)[j] \in K /\ Around(y)'[j] = Around(y)[j]
<1>1. y \in Modules /\ app'.imports[y] = app.imports[y] BY DEF OnlyHas, Adds
<1> DEFINE im == app.imports[y]
           gl == app.globals
           gs == app'.globals
<1>2. im \in Seq(Modules) /\ gl \in Seq(Modules) /\ gs \in Seq(Modules) BY <1>1 DEF Tabled
<1>3. \A i \in DOMAIN im : im[i] \in K BY DEF OnlyHas
<1>4. \A i \in DOMAIN gl : gl[i] \in K /\ gs[i] = gl[i] BY DEF OnlyHas, Adds
<1>5. Len(gl) <= Len(gs) BY DEF Adds
<1>6. Around(y) = im \o gl /\ Around(y)' = im \o gs BY <1>1 DEF Around
<1> HIDE DEF im, gl, gs
<1>7. PICK a \in Nat : a = Len(im) BY <1>2
<1>8. PICK b \in Nat : b = Len(gl) BY <1>2
<1>9. PICK c \in Nat : c = Len(gs) /\ b <= c BY <1>2, <1>5, <1>8
<1>10. DOMAIN im = 1 .. a /\ DOMAIN gl = 1 .. b BY <1>2, <1>7, <1>8, LenProperties
<1>11. /\ Len(im \o gl) = a + b
       /\ \A j \in 1 .. a + b : (im \o gl)[j] = IF j <= a THEN im[j] ELSE gl[j - a]
  BY <1>2, <1>7, <1>8, ConcatProperties
<1>12. /\ Len(im \o gs) = a + c
       /\ \A j \in 1 .. a + c : (im \o gs)[j] = IF j <= a THEN im[j] ELSE gs[j - a]
  BY <1>2, <1>7, <1>9, ConcatProperties
<1>13. ASSUME NEW j \in 1 .. a + b PROVE (im \o gl)[j] \in K /\ (im \o gs)[j] = (im \o gl)[j]
  <2>1. j \in 1 .. a + c BY <1>9
  <2>2. CASE j <= a
    <3>1. j \in 1 .. a BY <2>2
    <3>2. (im \o gl)[j] = im[j] /\ (im \o gs)[j] = im[j] BY <2>1, <2>2, <1>11, <1>12
    <3>3. QED BY <3>1, <3>2, <1>3, <1>10
  <2>3. CASE ~(j <= a)
    <3>1. j - a \in 1 .. b BY <2>3
    <3>2. (im \o gl)[j] = gl[j - a] BY <2>3, <1>11
    <3>3. (im \o gs)[j] = gs[j - a] BY <2>1, <2>3, <1>12
    <3>4. gl[j - a] \in K /\ gs[j - a] = gl[j - a] BY <3>1, <1>4, <1>10
    <3>5. QED BY <3>2, <3>3, <3>4
  <2>4. QED BY <2>2, <2>3
<1>14. a + b \in Nat /\ a + c \in Nat /\ a + b <= a + c BY <1>9
<1>15. QED BY <1>6, <1>11, <1>12, <1>13, <1>14

LEMMA AskedSame ==
  ASSUME Tabled, Tabled', NEW K, OnlyHas(K), Adds(K), NEW k \in Toks, NEW y \in K,
         NEW j \in 1 .. Len(Around(y))
  PROVE  /\ Asked(k, y, j)' <=> Asked(k, y, j)
         /\ FirstAsked(k, y, j)' <=> FirstAsked(k, y, j)
<1>1. /\ Len(Around(y)) \in Nat /\ Len(Around(y))' \in Nat /\ Len(Around(y)) <= Len(Around(y))'
      /\ \A i \in 1 .. Len(Around(y)) : Around(y)[i] \in K /\ Around(y)'[i] = Around(y)[i]
  BY AroundGrows
<1>2. Len(app'.imports[y]) = Len(app.imports[y]) BY DEF Adds
<1>3. \A x \in K : app'.exports[x] = app.exports[x] BY DEF Adds
<1>4. ASSUME NEW i \in 1 .. Len(Around(y)) PROVE Asked(k, y, i)' <=> Asked(k, y, i)
  <2>1. Around(y)[i] \in K /\ Around(y)'[i] = Around(y)[i] BY <1>1
  <2>2. Asked(k, y, i)' <=> k \in app'.exports[Around(y)'[i]] /\ (i <= Len(app'.imports[y]) \/ Around(y)'[i] # y)
    BY DEF Asked
  <2>3. QED BY <2>1, <2>2, <1>2, <1>3 DEF Asked
<1>5. FirstAsked(k, y, j)' <=>
        /\ j \in 1 .. Len(Around(y))' /\ Asked(k, y, j)'
        /\ \A i \in 1 .. Len(Around(y))' : Asked(k, y, i)' => j <= i
  BY DEF FirstAsked
<1>6. ASSUME FirstAsked(k, y, j), NEW i \in 1 .. Len(Around(y))', Asked(k, y, i)' PROVE j <= i
  <2>1. CASE i \in 1 .. Len(Around(y)) BY <2>1, <1>4, <1>6 DEF FirstAsked
  <2>2. CASE i \notin 1 .. Len(Around(y)) BY <2>2, <1>1
  <2>3. QED BY <2>1, <2>2
<1>7. j \in 1 .. Len(Around(y))' BY <1>1
<1>8. FirstAsked(k, y, j) => FirstAsked(k, y, j)'
  <2>1. SUFFICES ASSUME FirstAsked(k, y, j) PROVE FirstAsked(k, y, j)' OBVIOUS
  <2>2. Asked(k, y, j)' BY <2>1, <1>4 DEF FirstAsked
  <2>3. QED BY <2>1, <2>2, <1>5, <1>6, <1>7
<1>9. ASSUME FirstAsked(k, y, j)' PROVE FirstAsked(k, y, j)
  <2>1. Asked(k, y, j) BY <1>4, <1>5, <1>9
  <2>2. ASSUME NEW i \in 1 .. Len(Around(y)), Asked(k, y, i) PROVE j <= i
    <3>1. i \in 1 .. Len(Around(y))' BY <1>1
    <3>2. Asked(k, y, i)' BY <2>2, <1>4
    <3>3. QED BY <3>1, <3>2, <1>5, <1>9
  <2>3. QED BY <2>1, <2>2 DEF FirstAsked
<1>10. QED BY <1>4, <1>8, <1>9

\* Registering modules that the running container does not have yet, after a scan
\* that accepted them, changes the owner of no token that one of the others found
\* (lazy_loader.py:28), as long as no module re-exports a token through a cycle of
\* imports: the global modules added are asked last, and a module that exports a
\* token finds it before any global module is asked.
THEOREM AddedDisturbNobody ==
  ASSUME Tabled, Tabled', NEW K, OnlyHas(K), Adds(K), ExportsValid(app)', ReexportsEnd',
         NEW m \in K, NEW k \in Toks, Owner(k, m) \notin {None, NoModule}
  PROVE  Owner(k, m)' = Owner(k, m)
<1>1. (Tabled => OwnersCome /\ (ExportsValid(app) => SomeCome))' BY AllCome, PTL
<1>2. OwnersCome' /\ SomeCome' /\ OwnersCome BY <1>1, AllCome
<1>3. PICK n \in Nat : \E rank : Ranked(k, n, rank)' BY DEF ReexportsEnd
<1>4. PICK rank : Ranked(k, n, rank)' BY <1>3
<1>5. PICK w : ComesTo(k, w)' BY <1>2, <1>4 DEF SomeCome
<1>6. /\ \A y \in K : /\ app'.local[y] = app.local[y] /\ app'.imports[y] = app.imports[y]
                      /\ app'.exports[y] = app.exports[y] /\ y \in Modules
                      /\ \A i \in DOMAIN app.imports[y] : app.imports[y][i] \in K
      /\ Offering(k) \subseteq K /\ Offering(k) \subseteq Offering(k)'
  BY DEF OnlyHas, Adds, Offering
<1>7. Ranked(k, n, rank)
  <2>1. rank \in [Modules -> 0 .. n] BY <1>4 DEF Ranked
  <2>2. ASSUME NEW y \in Offering(k), app.local[y][k] = None, NEW i \in DOMAIN app.imports[y],
               app.imports[y][i] \in Offering(k)
        PROVE  rank[app.imports[y][i]] < rank[y]
    <3>1. y \in K /\ y \in Offering(k)' /\ app'.local[y][k] = None /\ app'.imports[y] = app.imports[y]
          /\ app.imports[y][i] \in Offering(k)'
      BY <1>6, <2>2
    <3>2. QED BY <3>1, <1>4 DEF Ranked
  <2>3. QED BY <2>1, <2>2 DEF Ranked
<1>8. ComesTo(k, w)
  <2>1. w \in [Modules -> Modules] BY <1>5 DEF ComesTo
  <2>2. ASSUME NEW y \in Offering(k)
        PROVE  IF app.local[y][k] # None THEN w[y] = y
               ELSE \E i \in DOMAIN app.imports[y] : FirstAsked(k, y, i) /\ w[y] = w[app.imports[y][i]]
    <3>1. y \in K /\ y \in Modules /\ y \in Offering(k)' /\ app'.local[y] = app.local[y] /\ app'.imports[y] = app.imports[y]
      BY <1>6
    <3>2. CASE app.local[y][k] # None
      <4>1. w[y] = y BY <3>1, <3>2, <1>5 DEF ComesTo
      <4>2. QED BY <3>2, <4>1
    <3>3. CASE app.local[y][k] = None
      <4>1. PICK i \in DOMAIN app.imports[y] : FirstAsked(k, y, i)' /\ w[y] = w[app.imports[y][i]]
        BY <3>1, <3>3, <1>5 DEF ComesTo
      <4>2. i \in 1 .. Len(Around(y)) BY <3>1, ImportsFirst
      <4>3. FirstAsked(k, y, i) BY <3>1, <4>1, <4>2, AskedSame
      <4>4. QED BY <3>3, <4>1, <4>3
    <3>4. QED BY <3>2, <3>3
  <2>3. QED BY <2>1, <2>2 DEF ComesTo
<1>9. m \in Modules /\ app'.local[m] = app.local[m] BY <1>6
<1>10. /\ app.local[m][k] # None => Owner(k, m) = m
       /\ \A i : app.local[m][k] = None /\ FirstAsked(k, m, i) => Owner(k, m) = w[Around(m)[i]]
       /\ app.local[m][k] = None /\ (\A i : ~FirstAsked(k, m, i)) => Owner(k, m) \in {None, NoModule}
  BY <1>2, <1>7, <1>8, <1>9 DEF OwnersCome
<1>11. /\ app'.local[m][k] # None => Owner(k, m)' = m
       /\ \A i : app'.local[m][k] = None /\ FirstAsked(k, m, i)' => Owner(k, m)' = w[Around(m)'[i]]
  <2>1. (Ranked(k, n, rank) /\ ComesTo(k, w) =>
          \A x \in Modules :
            /\ app.local[x][k] # None => Owner(k, x) = x
            /\ \A i : app.local[x][k] = None /\ FirstAsked(k, x, i) => Owner(k, x) = w[Around(x)[i]]
            /\ app.local[x][k] = None /\ (\A i : ~FirstAsked(k, x, i)) => Owner(k, x) \in {None, NoModule})'
    BY <1>2 DEF OwnersCome
  <2>2. QED BY <2>1, <1>4, <1>5, <1>9
<1>12. CASE app.local[m][k] # None BY <1>9, <1>10, <1>11, <1>12
<1>13. CASE app.local[m][k] = None
  <2>1. PICK i : FirstAsked(k, m, i) BY <1>10, <1>13
  <2>2. i \in 1 .. Len(Around(m)) BY <2>1 DEF FirstAsked
  <2>3. FirstAsked(k, m, i)' BY <2>1, <2>2, AskedSame
  <2>4. Around(m)'[i] = Around(m)[i] BY <2>2, AroundGrows
  <2>5. QED BY <2>1, <2>3, <2>4, <1>9, <1>10, <1>11, <1>13
<1>14. QED BY <1>12, <1>13

\* What a module provides, or what an import or another global module exports, it
\* finds, in a module that provides it: the scan, which accepts a dependency that is
\* visible in this sense (scanner.py:203), and the container's search agree, as long
\* as no module re-exports a token through a cycle of imports.
THEOREM VisibleIsFound ==
  ASSUME Tabled, ExportsValid(app), ReexportsEnd, NEW m \in Modules, NEW k \in Toks,
         app.local[m][k] # None \/ \E y \in Exporting(k, m) \ {m} : TRUE
  PROVE  Owner(k, m) \in Modules /\ app.local[Owner(k, m)][k] # None
<1>1. PICK n \in Nat : \E rank : Ranked(k, n, rank) BY DEF ReexportsEnd
<1>2. PICK rank : Ranked(k, n, rank) BY <1>1
<1>3. PICK w : ComesTo(k, w) BY <1>2, SomethingComes
<1> DEFINE Bad == {y \in Offering(k) : app.local[w[y]][k] = None}
           T == {rank[y] : y \in Bad}
<1>4. Bad = {}
  <2>1. SUFFICES ASSUME Bad # {} PROVE FALSE OBVIOUS
  <2>2. \A y \in Bad : y \in Modules /\ rank[y] \in 0 .. n BY <1>2 DEF Offering, Ranked
  <2>3. T \subseteq Nat /\ T # {} BY <2>1, <2>2
  <2>4. PICK h \in T : \A x \in T : h <= x
    <3> HIDE DEF T
    <3>1. QED BY <2>3, LeastNumber
  <2>5. PICK y \in Bad : rank[y] = h BY <2>4
  <2>6. app.local[y][k] = None BY <1>3, <2>5 DEF ComesTo
  <2>7. PICK i \in DOMAIN app.imports[y] : FirstAsked(k, y, i) /\ w[y] = w[app.imports[y][i]]
    BY <1>3, <2>5, <2>6 DEF ComesTo
  <2>8. PICK z : z = app.imports[y][i] OBVIOUS
  <2>9. z \in Offering(k)
    <3>1. Around(y)[i] = z /\ Around(y)[i] \in Modules BY <2>2, <2>5, <2>7, <2>8, ImportsFirst, AroundTyped
    <3>2. QED BY <3>1, <2>7 DEF FirstAsked, Asked, Offering
  <2>10. z \in Bad /\ rank[z] < rank[y] BY <1>2, <2>5, <2>6, <2>7, <2>8, <2>9 DEF Ranked
  <2>11. rank[z] \in T /\ rank[z] \in 0 .. n BY <2>2, <2>10
  <2>12. h <= rank[z] /\ h \in 0 .. n BY <2>2, <2>4, <2>5, <2>11
  <2>13. QED BY <2>5, <2>10, <2>11, <2>12
<1>5. CASE app.local[m][k] # None BY <1>2, <1>3, <1>5, OwnerComes
<1>6. CASE app.local[m][k] = None
  <2>1. PICK y \in Exporting(k, m) \ {m} : TRUE BY <1>6
  <2>2. PICK j \in 1 .. Len(Around(m)) : Asked(k, m, j) BY <2>1, AroundIsExporting
  <2> DEFINE S == {x \in 1 .. Len(Around(m)) : Asked(k, m, x)}
  <2>3. S \subseteq Nat /\ S # {} BY <2>2
  <2>4. PICK i \in S : \A x \in S : i <= x
    <3> HIDE DEF S
    <3>1. QED BY <2>3, LeastNumber
  <2>5. FirstAsked(k, m, i) BY <2>4 DEF FirstAsked
  <2>6. Owner(k, m) = w[Around(m)[i]] BY <1>2, <1>3, <1>6, <2>5, OwnerComes
  <2>7. Around(m)[i] \in Offering(k) BY <2>5, AroundTyped DEF FirstAsked, Asked, Offering
  <2>8. w[Around(m)[i]] \in Modules BY <2>7, <1>3 DEF ComesTo, Offering
  <2>9. app.local[w[Around(m)[i]]][k] # None BY <2>7, <1>4
  <2>10. QED BY <2>6, <2>8, <2>9
<1>7. QED BY <1>5, <1>6
=============================================================================
