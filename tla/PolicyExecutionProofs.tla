------------------------ MODULE PolicyExecutionProofs -----------------------
(***************************************************************************)
(* Proofs about PolicyExecution, for any policies and any lists that can   *)
(* be made of them: however deep policies are nested, however often the    *)
(* stack is left with TRY_AGAIN and wherever a step fails, the stack of    *)
(* policies is in step with the calls.                                     *)
(***************************************************************************)
EXTENDS PolicyExecution, FiniteSetTheorems, TLAPS

-----------------------------------------------------------------------------
(* The inductive invariant.                                                *)

\* The frames are the levels of the stack from the outermost on.
Aligned == frames = [i \in 1 .. Len(frames) |-> i]

\* Between authorizations nothing is left.
IdleInv == rc \in {"idle", "done", "failed"} => stack = <<>> /\ frames = <<>> /\ err = "none"

\* A policy executes another one just when it is not the innermost.
RunningInv ==
    rc = "running" /\ err = "none" =>
        /\ Aligned /\ cur = Len(frames) /\ Len(frames) <= Len(stack) /\ stack # <<>>
        /\ \A i \in DOMAIN stack : stack[i].nested <=> i < Len(stack)

\* A failure goes up the whole stack.
FailingInv ==
    rc = "running" /\ err # "none" =>
        Aligned /\ cur \in {Len(frames), Dangling} /\ Len(frames) = Len(stack) /\ stack # <<>>

\* A context is at a step of its element, which may execute another policy, and has
\* the key that step needs.
AtStep(c) ==
    /\ c.nested => c.list # <<>> /\ Head(c.list).run.steps[c.step] \in {"sub", "authorize", "authorize_nv"}
    /\ c.list # <<>> =>
          LET steps == Head(c.list).run.steps IN
          /\ c.step \in DOMAIN steps
          /\ c.step > 1 /\ steps[c.step - 1] = "load_key" => c.handle = "key"
StepInv == \A i \in DOMAIN stack : AtStep(stack[i])

\* Each context that has the handle of a key has loaded one.
HasKey(c) == c.object = "key" \/ c.handle = "key"
Holders(cs) == {i \in DOMAIN cs : HasKey(cs[i])}
KeyInv == Cardinality(Holders(stack)) <= keys

IInv == TypeOK /\ IdleInv /\ RunningInv /\ FailingInv /\ StepInv /\ KeyInv

-----------------------------------------------------------------------------
(* Sequences.                                                              *)

LEMMA SubSeqFacts ==
  ASSUME NEW S, NEW s \in Seq(S), NEW n \in 0 .. Len(s)
  PROVE  /\ SubSeq(s, 1, n) \in Seq(S) /\ Len(SubSeq(s, 1, n)) = n /\ DOMAIN SubSeq(s, 1, n) = 1 .. n
         /\ \A i \in 1 .. n : SubSeq(s, 1, n)[i] = s[i] /\ i \in DOMAIN s
  OBVIOUS

LEMMA AppendFacts ==
  ASSUME NEW S, NEW s \in Seq(S), NEW x \in S
  PROVE  /\ Append(s, x) \in Seq(S) /\ Len(Append(s, x)) = Len(s) + 1
         /\ DOMAIN Append(s, x) = 1 .. Len(s) + 1
         /\ \A i \in 1 .. Len(s) : Append(s, x)[i] = s[i]
         /\ Append(s, x)[Len(s) + 1] = x
  OBVIOUS

LEMMA ExceptFacts ==
  ASSUME NEW S, NEW s \in Seq(S), NEW n \in DOMAIN s, NEW x \in S
  PROVE  /\ [s EXCEPT ![n] = x] \in Seq(S) /\ Len([s EXCEPT ![n] = x]) = Len(s)
         /\ DOMAIN [s EXCEPT ![n] = x] = DOMAIN s
         /\ [s EXCEPT ![n] = x][n] = x
         /\ \A i \in DOMAIN s \ {n} : [s EXCEPT ![n] = x][i] = s[i]
  OBVIOUS

LEMMA HeadTailFacts ==
  ASSUME NEW S, NEW s \in Seq(S), s # <<>>
  PROVE  Head(s) \in S /\ Tail(s) \in Seq(S) /\ Len(s) \in Nat /\ Len(s) > 0
  OBVIOUS

\* Sequences of a larger set.
LEMMA SeqMono ==
  ASSUME NEW S, NEW T, S \subseteq T, NEW s \in Seq(S)
  PROVE  s \in Seq(T)
  OBVIOUS

-----------------------------------------------------------------------------
(* The elements of a list.                                                 *)

LEMMA ItemFacts ==
  ASSUME NEW l \in Seq(Items), l # <<>>
  PROVE  LET x == Head(l) IN
         /\ x \in Items /\ x.run.steps \in Seq(StepNames) /\ Len(x.run.steps) \in Nat \ {0}
         /\ DOMAIN x.run.steps = 1 .. Len(x.run.steps) /\ Tail(l) \in Seq(Items)
  <1>1. Head(l) \in Items /\ Tail(l) \in Seq(Items)
    BY HeadTailFacts
  <1> DEFINE x == Head(l)
             steps == x.run.steps
  <1>2. steps \in Seq(StepNames) /\ steps # <<>>
    BY <1>1, ItemAssumption
  <1> HIDE DEF steps
  <1>3. Len(steps) \in Nat \ {0} /\ DOMAIN steps = 1 .. Len(steps)
    BY <1>2
  <1> QED
    BY <1>1, <1>2, <1>3 DEF steps

-----------------------------------------------------------------------------
(* What the steps do to a context.                                         *)

\* A context that is at a step of its element.
Active(c, ids) ==
    c \in Contexts(ids) /\ c.list # <<>> /\ c.step \in DOMAIN Head(c.list).run.steps
StepOf(c) == Head(c.list).run.steps[c.step]

\* The context d is at the step of c.
SamePlace(d, c) == d.list = c.list /\ d.step = c.step
SameHandles(d, c) == d.object = c.object /\ d.handle = c.handle

LEMMA NewContextFacts ==
  ASSUME NEW l \in Seq(Items), NEW ids, None \in ids
  PROVE  /\ NewContext(l) \in Contexts(ids) /\ AtStep(NewContext(l)) /\ ~HasKey(NewContext(l))
         /\ ~NewContext(l).nested
  <1>1. NewContext(l) \in Contexts(ids)
    BY DEF NewContext, Contexts, HandleKinds
  <1>2. ~HasKey(NewContext(l)) /\ ~NewContext(l).nested /\ NewContext(l).list = l /\ NewContext(l).step = 1
    BY DEF NewContext, HasKey
  <1>3. AtStep(NewContext(l))
    <2>1. CASE l = <<>>
      BY <1>2, <2>1 DEF AtStep
    <2>2. CASE l # <<>>
      <3>1. 1 \in DOMAIN Head(l).run.steps
        BY <2>2, ItemFacts
      <3> QED
        BY <1>2, <2>2, <3>1 DEF AtStep
    <2> QED
      BY <2>1, <2>2
  <1> QED
    BY <1>1, <1>2, <1>3

\* The next step, or the next element.
LEMMA AdvanceFacts ==
  ASSUME NEW ids, NEW c, Active(c, ids), StepOf(c) = "load_key" => c.handle = "key"
  PROVE  /\ Advance(c) \in Contexts(ids) /\ AtStep(Advance(c)) /\ ~Advance(c).nested
         /\ SameHandles(Advance(c), c)
  <1> DEFINE steps == Head(c.list).run.steps
             done == \/ c.step = Len(steps)
                     \/ Head(c.list).element.type = "POLICYSECRET" /\ steps[c.step] = "Policy" /\ ~c.flush
             d == Advance(c)
  <1>1. /\ c \in Contexts(ids) /\ c.list \in Seq(Items) /\ c.list # <<>> /\ c.step \in Nat \ {0}
        /\ c.step \in DOMAIN steps
    BY DEF Active, Contexts
  <1>2. /\ Len(steps) \in Nat \ {0} /\ DOMAIN steps = 1 .. Len(steps) /\ Tail(c.list) \in Seq(Items)
    BY <1>1, ItemFacts
  <1> DEFINE next == IF done THEN 1 ELSE c.step + 1
             rest == IF done THEN Tail(c.list) ELSE c.list
  <1>3. d = [c EXCEPT !.sent = FALSE, !.nested = FALSE, !.step = next, !.list = rest]
    BY <1>1 DEF Advance, Contexts
  <1> HIDE DEF done, steps, d
  <1>4. /\ d \in Contexts(ids) /\ ~d.nested /\ d.object = c.object /\ d.handle = c.handle
        /\ d.step = next /\ d.list = rest
    <2>1. next \in Nat \ {0} /\ rest \in Seq(Items)
      BY <1>1, <1>2
    <2> HIDE DEF next, rest
    <2> QED
      BY <1>1, <1>3, <2>1 DEF Contexts
  <1>5. AtStep(d)
    <2>1. CASE done
      <3>1. d.list = Tail(c.list) /\ d.step = 1
        BY <1>4, <2>1
      <3>2. CASE d.list = <<>>
        BY <1>4, <3>2 DEF AtStep
      <3>3. CASE d.list # <<>>
        <4>1. d.list \in Seq(Items)
          BY <1>2, <3>1
        <4>2. 1 \in DOMAIN Head(d.list).run.steps
          BY <3>3, <4>1, ItemFacts
        <4> QED
          BY <1>4, <3>1, <3>3, <4>2 DEF AtStep
      <3> QED
        BY <3>2, <3>3
    <2>2. CASE ~done
      <3>1. d.list = c.list /\ d.step = c.step + 1
        BY <1>4, <2>2
      <3>2. c.step # Len(steps)
        BY <2>2 DEF done
      <3>3. d.step \in DOMAIN steps /\ d.step - 1 = c.step
        BY <1>1, <1>2, <3>1, <3>2
      <3>4. steps[d.step - 1] = "load_key" => d.handle = "key"
        BY <1>4, <3>3 DEF StepOf, steps
      <3> QED
        BY <1>1, <1>4, <3>1, <3>3, <3>4 DEF AtStep, steps
    <2> QED
      BY <2>1, <2>2
  <1> QED
    BY <1>4, <1>5 DEF d, SameHandles

\* What the callbacks and the answers of the TPM change before that.
LEMMA CallbackFacts ==
  ASSUME NEW ids, NEW c \in Contexts(ids)
  PROVE  /\ Built(c) \in Contexts(ids) /\ SamePlace(Built(c), c)
         /\ Built(c).object = "none" /\ Built(c).handle = c.handle
         /\ Signed(c) \in Contexts(ids) /\ SamePlace(Signed(c), c) /\ SameHandles(Signed(c), c)
         /\ Signed(c).nested = c.nested
         /\ Loaded(c) \in Contexts(ids) /\ SamePlace(Loaded(c), c)
         /\ Loaded(c).handle = "key" /\ Loaded(c).object = c.object
         /\ Found(c) \in Contexts(ids) /\ SamePlace(Found(c), c)
         /\ Found(c).object \in {"none", c.object} /\ Found(c).handle = c.handle
  <1>1. /\ Built(c) \in Contexts(ids) /\ SamePlace(Built(c), c)
        /\ Built(c).object = "none" /\ Built(c).handle = c.handle
    BY DEF Built, Contexts, HandleKinds, SamePlace
  <1>2. /\ Signed(c) \in Contexts(ids) /\ SamePlace(Signed(c), c) /\ SameHandles(Signed(c), c)
        /\ Signed(c).nested = c.nested
    BY DEF Signed, Contexts, SamePlace, SameHandles
  <1>3. /\ Loaded(c) \in Contexts(ids) /\ SamePlace(Loaded(c), c)
        /\ Loaded(c).handle = "key" /\ Loaded(c).object = c.object
    BY DEF Loaded, Contexts, HandleKinds, SamePlace
  <1>4. /\ Found(c) \in Contexts(ids) /\ SamePlace(Found(c), c)
        /\ Found(c).object \in {"none", c.object} /\ Found(c).handle = c.handle
    <2> DEFINE f == [c EXCEPT !.found = "list", !.object = "none"]
               g == [c EXCEPT !.found = "list"]
               h == [c EXCEPT !.found = "broken"]
    <2>1. f \in Contexts(ids) /\ SamePlace(f, c) /\ f.object = "none" /\ f.handle = c.handle
      BY DEF Contexts, HandleKinds, SamePlace
    <2>2. g \in Contexts(ids) /\ SamePlace(g, c) /\ g.object = c.object /\ g.handle = c.handle
      BY DEF Contexts, SamePlace
    <2>3. h \in Contexts(ids) /\ SamePlace(h, c) /\ h.object = c.object /\ h.handle = c.handle
      BY DEF Contexts, SamePlace
    <2>4. Found(c) \in {f, g, h}
      BY DEF Found
    <2> HIDE DEF f, g, h
    <2> QED
      BY <2>1, <2>2, <2>3, <2>4
  <1> QED
    BY <1>1, <1>2, <1>3, <1>4

LEMMA SentFacts ==
  ASSUME NEW ids, NEW c \in Contexts(ids), NEW b \in BOOLEAN
  PROVE  LET d == [c EXCEPT !.sent = b] IN
         d \in Contexts(ids) /\ SamePlace(d, c) /\ SameHandles(d, c) /\ d.nested = c.nested
  BY DEF Contexts, SamePlace, SameHandles

\* Flushing the key takes both handles of it away.
LEMMA DisownedFacts ==
  ASSUME NEW ids, NEW c \in Contexts(ids)
  PROVE  Disowned(c) \in Contexts(ids) /\ SamePlace(Disowned(c), c) /\ ~HasKey(Disowned(c))
  <1>1. Stale(c.handle) \in HandleKinds \ {"key"} /\ Stale(c.object) \in HandleKinds \ {"key"}
    BY DEF Stale, Contexts, HandleKinds
  <1> DEFINE d1 == [c EXCEPT !.object = "none", !.handle = Stale(c.handle)]
             d2 == [c EXCEPT !.handle = "none", !.object = Stale(c.object)]
  <1>2. d1 \in Contexts(ids) /\ SamePlace(d1, c) /\ ~HasKey(d1)
    BY <1>1 DEF Contexts, HandleKinds, SamePlace, HasKey
  <1>3. d2 \in Contexts(ids) /\ SamePlace(d2, c) /\ ~HasKey(d2)
    BY <1>1 DEF Contexts, HandleKinds, SamePlace, HasKey
  <1>4. Disowned(c) \in {d1, d2}
    BY DEF Disowned, Contexts
  <1> QED
    BY <1>2, <1>3, <1>4

\* An authorization sets both handles to the object, which is loaded if it is a key.
LEMMA AuthorizedFacts ==
  ASSUME NEW ids, NEW c, Active(c, ids), AtStep(c), NEW s \in ids,
         StepOf(c) \in {"authorize", "authorize_nv"}
  PROVE  /\ Authorized(c, s) \in Contexts(ids) /\ AtStep(Authorized(c, s)) /\ ~Authorized(c, s).nested
         /\ HasKey(Authorized(c, s)) => HasKey(c)
  <1> DEFINE x == Head(c.list)
             o == x.element.object
             h == Handles(c)
             d1 == [h EXCEPT !.auth = s]
             d2 == [c EXCEPT !.auth = s]
  <1>1. x \in Items /\ c.step \in DOMAIN x.run.steps /\ c \in Contexts(ids) /\ c.list # <<>> /\ c.list \in Seq(Items)
    <2>1. c \in Contexts(ids) /\ c.list # <<>> /\ c.list \in Seq(Items) /\ c.step \in DOMAIN x.run.steps
      BY DEF Active, Contexts
    <2> QED
      BY <2>1, ItemFacts
  <1>2. o.kind \in {"hierarchy", "key", "nv", "nvOwner"}
    BY <1>1, ItemAssumption DEF StepOf
  <1>3. StepOf(c) = "authorize" /\ o.kind = "key" => c.handle = "key"
    BY <1>1, ItemAssumption DEF StepOf, AtStep
  <1> DEFINE a == IF o.kind = "nvOwner" THEN "nv" ELSE o.kind
             b == get_nv_auth_object(o).kind
  <1>4. a \in HandleKinds /\ b \in HandleKinds /\ (a = "key" \/ b = "key" => o.kind = "key")
    BY <1>2 DEF get_nv_auth_object, HandleKinds
  <1>5. h = [c EXCEPT !.object = a, !.handle = b]
    BY DEF Handles
  <1> HIDE DEF a, b, h, o, x
  <1>6. /\ d1 \in Contexts(ids) /\ SamePlace(d1, c) /\ d1.object = a /\ d1.handle = b
    <2>1. h \in Contexts(ids) /\ SamePlace(h, c) /\ h.object = a /\ h.handle = b
      BY <1>1, <1>4, <1>5 DEF Contexts, SamePlace
    <2> QED
      BY <2>1 DEF Contexts, SamePlace
  <1>7. d2 \in Contexts(ids) /\ SamePlace(d2, c) /\ SameHandles(d2, c)
    BY <1>1 DEF Contexts, SamePlace, SameHandles
  <1>8. Authorized(c, s) = IF StepOf(c) = "authorize" THEN Advance(d1) ELSE Advance(d2)
    BY DEF Authorized, StepOf, h
  <1> HIDE DEF d1, d2
  <1>9. ASSUME NEW d \in {d1, d2}
        PROVE  /\ Advance(d) \in Contexts(ids) /\ AtStep(Advance(d)) /\ ~Advance(d).nested
               /\ SameHandles(Advance(d), d)
    <2>1. Active(d, ids) /\ StepOf(d) = StepOf(c)
      BY <1>6, <1>7 DEF Active, SamePlace, StepOf
    <2> QED
      BY <2>1, AdvanceFacts
  <1>10. CASE StepOf(c) = "authorize"
    BY <1>3, <1>4, <1>6, <1>8, <1>9, <1>10 DEF SameHandles, HasKey
  <1>11. CASE StepOf(c) # "authorize"
    BY <1>7, <1>8, <1>9, <1>11 DEF SameHandles, HasKey
  <1> QED
    BY <1>10, <1>11

\* The policy that was executed for c is done.
LEMMA ExecutedFacts ==
  ASSUME NEW ids, NEW c, Active(c, ids), StepOf(c) = "sub"
  PROVE  /\ Executed(c) \in Contexts(ids) /\ AtStep(Executed(c)) /\ ~Executed(c).nested
         /\ SameHandles(Executed(c), c)
  <1> DEFINE f == IF Head(c.list).element.type = "POLICYAUTHORIZE" THEN "null" ELSE "freed"
             d == [c EXCEPT !.found = f]
  <1>1. f \in {"null", "freed"} /\ Executed(c) = Advance(d)
    BY DEF Executed
  <1> HIDE DEF f
  <1>2. d \in Contexts(ids) /\ SamePlace(d, c) /\ SameHandles(d, c)
    BY <1>1 DEF Active, Contexts, SamePlace, SameHandles
  <1> HIDE DEF d
  <1>3. Active(d, ids) /\ StepOf(d) = StepOf(c)
    BY <1>2 DEF Active, SamePlace, StepOf
  <1>4. /\ Advance(d) \in Contexts(ids) /\ AtStep(Advance(d)) /\ ~Advance(d).nested
        /\ SameHandles(Advance(d), d)
    BY <1>3, AdvanceFacts
  <1> QED
    BY <1>1, <1>2, <1>4 DEF SameHandles

-----------------------------------------------------------------------------
(* The stack, and the keys.                                                *)

\* The contexts cs, with sessions among ids, account for k keys.
StackOK(cs, ids, k) ==
    /\ cs \in Seq(Contexts(ids)) /\ k \in Nat
    /\ \A i \in DOMAIN cs : AtStep(cs[i])
    /\ Cardinality(Holders(cs)) <= k

LEMMA HoldersFinite ==
  ASSUME NEW S, NEW cs \in Seq(S)
  PROVE  /\ IsFiniteSet(Holders(cs)) /\ Cardinality(Holders(cs)) \in Nat
         /\ Len(cs) \in Nat /\ DOMAIN cs = 1 .. Len(cs)
  <1>1. Len(cs) \in Nat /\ DOMAIN cs = 1 .. Len(cs)
    OBVIOUS
  <1>2. IsFiniteSet(1 .. Len(cs))
    BY <1>1, FS_Interval, 1 \in Int
  <1>3. Holders(cs) \subseteq 1 .. Len(cs)
    BY <1>1 DEF Holders
  <1>4. IsFiniteSet(Holders(cs))
    BY <1>2, <1>3, FS_Subset
  <1> QED
    BY <1>1, <1>4, FS_CardinalityType

\* Fewer holders need fewer keys.
LEMMA HoldersShrink ==
  ASSUME NEW S, NEW cs \in Seq(S), NEW T, NEW ds \in Seq(T), Holders(ds) \subseteq Holders(cs)
  PROVE  /\ Cardinality(Holders(ds)) <= Cardinality(Holders(cs))
         /\ \A i \in Holders(cs) \ Holders(ds) : Cardinality(Holders(ds)) <= Cardinality(Holders(cs)) - 1
  <1>1. IsFiniteSet(Holders(cs)) /\ Cardinality(Holders(cs)) \in Nat /\ Cardinality(Holders(ds)) \in Nat
    BY HoldersFinite
  <1>2. Cardinality(Holders(ds)) <= Cardinality(Holders(cs))
    BY <1>1, FS_Subset
  <1>3. ASSUME NEW i \in Holders(cs) \ Holders(ds)
        PROVE  Cardinality(Holders(ds)) <= Cardinality(Holders(cs)) - 1
    <2>1. Holders(ds) # Holders(cs)
      OBVIOUS
    <2>2. Cardinality(Holders(ds)) < Cardinality(Holders(cs))
      BY <1>1, <1>2, <2>1, FS_Subset
    <2> QED
      BY <1>1, <2>2
  <1> QED
    BY <1>2, <1>3

LEMMA HoldersGrow ==
  ASSUME NEW S, NEW cs \in Seq(S), NEW T, NEW ds \in Seq(T), NEW n, Holders(ds) \subseteq Holders(cs) \union {n}
  PROVE  Cardinality(Holders(ds)) <= Cardinality(Holders(cs)) + 1
  <1>1. /\ IsFiniteSet(Holders(cs)) /\ Cardinality(Holders(cs)) \in Nat /\ Cardinality(Holders(ds)) \in Nat
    BY HoldersFinite
  <1>2. /\ IsFiniteSet(Holders(cs) \union {n})
        /\ Cardinality(Holders(cs) \union {n}) \in {Cardinality(Holders(cs)), Cardinality(Holders(cs)) + 1}
    BY <1>1, FS_AddElement
  <1>3. Cardinality(Holders(ds)) <= Cardinality(Holders(cs) \union {n})
    BY <1>2, FS_Subset
  <1> QED
    BY <1>1, <1>2, <1>3

\* A context with a key is backed by one.
LEMMA HolderBacked ==
  ASSUME NEW cs, NEW ids, NEW k, StackOK(cs, ids, k), NEW n \in DOMAIN cs, HasKey(cs[n])
  PROVE  k > 0
  <1>1. n \in Holders(cs) /\ IsFiniteSet(Holders(cs)) /\ Cardinality(Holders(cs)) \in Nat
    BY HoldersFinite DEF StackOK, Holders
  <1>2. Cardinality(Holders(cs)) # 0
    BY <1>1, FS_EmptySet
  <1> QED
    BY <1>1, <1>2 DEF StackOK

\* Changing a context: how many keys there must be afterwards.
KeyChange(d, c, k, m) ==
    /\ m \in Nat
    /\ HasKey(c) /\ ~HasKey(d) => m >= k - 1
    /\ (HasKey(d) <=> HasKey(c)) => m >= k
    /\ HasKey(d) /\ ~HasKey(c) => m >= k + 1

LEMMA SetContext ==
  ASSUME NEW cs, NEW ids, NEW k, StackOK(cs, ids, k), NEW n \in DOMAIN cs, NEW js, ids \subseteq js,
         NEW d \in Contexts(js), AtStep(d), NEW m, KeyChange(d, cs[n], k, m)
  PROVE  StackOK([cs EXCEPT ![n] = d], js, m)
  <1> DEFINE ds == [cs EXCEPT ![n] = d]
  <1>1. cs \in Seq(Contexts(js))
    <2>1. Contexts(ids) \subseteq Contexts(js)
      BY DEF Contexts
    <2> QED
      BY <2>1, SeqMono DEF StackOK
  <1>2. /\ ds \in Seq(Contexts(js)) /\ DOMAIN ds = DOMAIN cs /\ ds[n] = d
        /\ \A i \in DOMAIN cs \ {n} : ds[i] = cs[i]
    BY <1>1, ExceptFacts
  <1> HIDE DEF ds
  <1>3. \A i \in DOMAIN ds : AtStep(ds[i])
    BY <1>2 DEF StackOK
  <1>4. Cardinality(Holders(cs)) \in Nat /\ Cardinality(Holders(ds)) \in Nat /\ k \in Nat /\ Cardinality(Holders(cs)) <= k
    BY <1>1, <1>2, HoldersFinite DEF StackOK
  <1>5. Cardinality(Holders(ds)) <= m
    <2>1. CASE HasKey(cs[n]) /\ ~HasKey(d)
      <3>1. Holders(ds) \subseteq Holders(cs) /\ n \in Holders(cs) \ Holders(ds)
        BY <1>2, <2>1 DEF Holders
      <3>2. Cardinality(Holders(ds)) <= Cardinality(Holders(cs)) - 1
        BY <1>1, <1>2, <3>1, HoldersShrink
      <3> QED
        BY <1>4, <2>1, <3>2 DEF KeyChange
    <2>2. CASE HasKey(cs[n]) <=> HasKey(d)
      <3>1. Holders(ds) = Holders(cs)
        BY <1>2, <2>2 DEF Holders
      <3> QED
        BY <1>4, <2>2, <3>1 DEF KeyChange
    <2>3. CASE ~HasKey(cs[n]) /\ HasKey(d)
      <3>1. Holders(ds) \subseteq Holders(cs) \union {n}
        BY <1>2 DEF Holders
      <3>2. Cardinality(Holders(ds)) <= Cardinality(Holders(cs)) + 1
        BY <1>1, <1>2, <3>1, HoldersGrow
      <3> QED
        BY <1>4, <2>3, <3>2 DEF KeyChange
    <2> QED
      BY <2>1, <2>2, <2>3
  <1> QED
    BY <1>2, <1>3, <1>5 DEF StackOK, KeyChange, ds

LEMMA StackEmpty == StackOK(<<>>, {None}, 0)
  <1>1. Holders(<<>>) = {}
    BY DEF Holders
  <1>2. Cardinality(Holders(<<>>)) = 0
    BY <1>1, FS_EmptySet
  <1>3. <<>> \in Seq(Contexts({None})) /\ DOMAIN <<>> = {}
    OBVIOUS
  <1>4. \A n : n = 0 => n <= 0
    OBVIOUS
  <1> QED
    BY <1>2, <1>3, <1>4 DEF StackOK

\* The innermost context is freed, with or without its key.
LEMMA PopContext ==
  ASSUME NEW cs, NEW ids, NEW k, StackOK(cs, ids, k), cs # <<>>
  PROVE  LET ds == SubSeq(cs, 1, Len(cs) - 1) IN
         StackOK(ds, ids, k) /\ (HasKey(cs[Len(cs)]) => StackOK(ds, ids, k - 1))
  <1> DEFINE n == Len(cs) - 1
             ds == SubSeq(cs, 1, n)
  <1>1. cs \in Seq(Contexts(ids)) /\ n \in 0 .. Len(cs) /\ Len(cs) \in DOMAIN cs /\ Len(cs) \in Nat
    BY DEF StackOK
  <1>2. /\ ds \in Seq(Contexts(ids)) /\ DOMAIN ds = 1 .. n
        /\ \A i \in 1 .. n : ds[i] = cs[i] /\ i \in DOMAIN cs
    <2> HIDE DEF n
    <2> QED
      BY <1>1, SubSeqFacts
  <1> HIDE DEF ds
  <1>3. \A i \in DOMAIN ds : AtStep(ds[i])
    BY <1>2 DEF StackOK
  <1>4. Cardinality(Holders(cs)) \in Nat /\ Cardinality(Holders(ds)) \in Nat /\ k \in Nat /\ Cardinality(Holders(cs)) <= k
    BY <1>1, <1>2, HoldersFinite DEF StackOK
  <1>5. Holders(ds) \subseteq Holders(cs)
    BY <1>2 DEF Holders
  <1>6. StackOK(ds, ids, k)
    <2>1. Cardinality(Holders(ds)) <= Cardinality(Holders(cs))
      BY <1>1, <1>2, <1>5, HoldersShrink
    <2> QED
      BY <1>2, <1>3, <1>4, <2>1 DEF StackOK
  <1>7. ASSUME HasKey(cs[Len(cs)]) PROVE StackOK(ds, ids, k - 1)
    <2>1. Len(cs) \in Holders(cs) \ Holders(ds)
      BY <1>1, <1>2, <1>7 DEF Holders
    <2>2. Cardinality(Holders(ds)) <= Cardinality(Holders(cs)) - 1
      BY <1>1, <1>2, <1>5, <2>1, HoldersShrink
    <2>3. Cardinality(Holders(ds)) <= k - 1 /\ k - 1 \in Nat
      BY <1>4, <2>2
    <2> QED
      BY <1>2, <1>3, <2>3 DEF StackOK
  <1> QED
    BY <1>6, <1>7 DEF ds

\* A new context has no key.
LEMMA PushContext ==
  ASSUME NEW cs, NEW ids, NEW k, StackOK(cs, ids, k), None \in ids, NEW l \in Seq(Items)
  PROVE  StackOK(Append(cs, NewContext(l)), ids, k)
  <1> DEFINE x == NewContext(l)
             ds == Append(cs, x)
  <1>1. x \in Contexts(ids) /\ AtStep(x) /\ ~HasKey(x)
    BY NewContextFacts
  <1> HIDE DEF x
  <1>2. cs \in Seq(Contexts(ids)) /\ Len(cs) \in Nat /\ DOMAIN cs = 1 .. Len(cs)
    BY DEF StackOK
  <1>3. /\ ds \in Seq(Contexts(ids)) /\ DOMAIN ds = 1 .. Len(cs) + 1
        /\ \A i \in 1 .. Len(cs) : ds[i] = cs[i]
        /\ ds[Len(cs) + 1] = x
    BY <1>1, <1>2, AppendFacts
  <1> HIDE DEF ds
  <1>4. \A i \in DOMAIN ds : AtStep(ds[i])
    BY <1>1, <1>2, <1>3 DEF StackOK
  <1>5. Holders(ds) = Holders(cs)
    BY <1>1, <1>2, <1>3 DEF Holders
  <1> QED
    BY <1>3, <1>4, <1>5 DEF StackOK, ds, x

\* Forgetting a session changes no place and no handle.
LEMMA ForgetContext ==
  ASSUME NEW cs, NEW ids, NEW k, StackOK(cs, ids, k), None \in ids, NEW s
  PROVE  /\ StackOK(SharedForgotten(cs, s), ids, k) /\ Len(SharedForgotten(cs, s)) = Len(cs)
  <1> DEFINE ds == SharedForgotten(cs, s)
             g(c) == IF c.session = s THEN [c EXCEPT !.session = None] ELSE c
  <1>1. cs \in Seq(Contexts(ids)) /\ Len(cs) \in Nat /\ DOMAIN cs = 1 .. Len(cs)
    BY DEF StackOK
  <1>2. ASSUME NEW c \in Contexts(ids)
        PROVE  g(c) \in Contexts(ids) /\ (AtStep(c) => AtStep(g(c))) /\ (HasKey(g(c)) <=> HasKey(c))
    <2> DEFINE d == [c EXCEPT !.session = None]
    <2>1. /\ d \in Contexts(ids) /\ d.list = c.list /\ d.step = c.step /\ d.nested = c.nested
          /\ d.object = c.object /\ d.handle = c.handle
      BY DEF Contexts
    <2> HIDE DEF d
    <2>2. (AtStep(c) => AtStep(d)) /\ (HasKey(d) <=> HasKey(c))
      BY <2>1 DEF AtStep, HasKey
    <2> QED
      BY <2>1, <2>2 DEF d
  <1>3. ds = [i \in 1 .. Len(cs) |-> g(cs[i])]
    BY <1>1 DEF SharedForgotten
  <1>4. \A i \in 1 .. Len(cs) : cs[i] \in Contexts(ids)
    BY <1>1
  <1>5. \A i \in 1 .. Len(cs) : g(cs[i]) \in Contexts(ids)
    BY <1>2, <1>4
  <1>6. DOMAIN ds = 1 .. Len(cs) /\ \A i \in 1 .. Len(cs) : ds[i] = g(cs[i])
    BY <1>3, Zenon
  <1>7. ds \in [1 .. Len(cs) -> Contexts(ids)]
    BY <1>3, <1>5
  <1> HIDE DEF ds, g
  <1>8. ds \in Seq(Contexts(ids)) /\ Len(ds) = Len(cs)
    BY <1>1, <1>7
  <1>9. \A i \in DOMAIN ds : AtStep(ds[i])
    BY <1>1, <1>2, <1>4, <1>6 DEF StackOK
  <1>10. Holders(ds) = Holders(cs)
    BY <1>1, <1>2, <1>4, <1>6 DEF Holders
  <1> QED
    BY <1>8, <1>9, <1>10 DEF StackOK, ds

-----------------------------------------------------------------------------
(* The sessions.                                                           *)

RecordOK(r) ==
    /\ DOMAIN r = {"digest", "live", "flushes", "used"}
    /\ r.live \in BOOLEAN /\ r.flushes \in Nat /\ r.used \in BOOLEAN
SessionsOK(ss) == ss \in Seq(Range(ss)) /\ \A i \in DOMAIN ss : RecordOK(ss[i])

LEMMA RecordChanged ==
  ASSUME NEW r, RecordOK(r), NEW d
  PROVE  /\ RecordOK([r EXCEPT !.digest = d]) /\ RecordOK([r EXCEPT !.used = TRUE])
         /\ RecordOK([r EXCEPT !.live = FALSE, !.used = TRUE])
         /\ RecordOK([r EXCEPT !.live = FALSE, !.flushes = @ + 1])
  BY DEF RecordOK

LEMMA SessionsEmpty == SessionsOK(<<>>) /\ DOMAIN <<>> = {}
  BY DEF SessionsOK, Range

LEMMA SequenceOf ==
  ASSUME NEW n \in Nat, NEW ts, ts = [i \in 1 .. n |-> ts[i]]
  PROVE  ts \in Seq(Range(ts))
  <1>1. ts \in [1 .. n -> Range(ts)]
    BY DEF Range
  <1> QED
    BY <1>1

LEMMA SessionsChanged ==
  ASSUME NEW ss, SessionsOK(ss), NEW s, NEW r, s \in DOMAIN ss => RecordOK(r), NEW ts, ts = [ss EXCEPT ![s] = r]
  PROVE  SessionsOK(ts) /\ DOMAIN ts = DOMAIN ss
  <1>1. ss \in Seq(Range(ss)) /\ Len(ss) \in Nat /\ DOMAIN ss = 1 .. Len(ss)
    BY DEF SessionsOK
  <1>2. DOMAIN ts = 1 .. Len(ss) /\ \A i \in 1 .. Len(ss) : RecordOK(ts[i])
    BY <1>1 DEF SessionsOK
  <1>3. ts = [i \in 1 .. Len(ss) |-> ts[i]]
    BY <1>1
  <1>4. ts \in Seq(Range(ts))
    BY <1>1, <1>3, SequenceOf
  <1> QED
    BY <1>1, <1>2, <1>4 DEF SessionsOK

LEMMA SessionsGrown ==
  ASSUME NEW ss, SessionsOK(ss), NEW r, RecordOK(r)
  PROVE  /\ SessionsOK(Append(ss, r)) /\ DOMAIN Append(ss, r) = DOMAIN ss \union {Len(ss) + 1}
         /\ Len(Append(ss, r)) = Len(ss) + 1
  <1> DEFINE ts == Append(ss, r)
             S == Range(ss) \union {r}
  <1>1. ss \in Seq(S) /\ r \in S /\ Len(ss) \in Nat /\ DOMAIN ss = 1 .. Len(ss)
    BY SeqMono DEF SessionsOK
  <1>2. /\ ts \in Seq(S) /\ Len(ts) = Len(ss) + 1 /\ DOMAIN ts = 1 .. Len(ss) + 1
        /\ \A i \in 1 .. Len(ss) : ts[i] = ss[i]
        /\ ts[Len(ss) + 1] = r
    <2> HIDE DEF S
    <2> QED
      BY <1>1, AppendFacts
  <1> HIDE DEF ts, S
  <1>3. \A i \in DOMAIN ts : RecordOK(ts[i])
    BY <1>1, <1>2 DEF SessionsOK
  <1>4. ts \in Seq(Range(ts))
    <2>1. ts \in [1 .. Len(ts) -> S]
      BY <1>2
    <2>2. ts \in [1 .. Len(ts) -> Range(ts)]
      BY <1>1, <1>2, <2>1 DEF Range
    <2> QED
      BY <1>1, <1>2, <2>2
  <1> QED
    BY <1>1, <1>2, <1>3, <1>4 DEF SessionsOK, ts

-----------------------------------------------------------------------------
(* The invariant, by what the actions change together.                     *)

SimpleOK ==
    /\ policy \in Policies /\ create \in {"INIT", "WAIT"} /\ pending \in {"none", "session", "command"}
    /\ session2 \in {"session1", "NONE"} /\ rc \in {"idle", "running", "done", "failed", "crashed"}
    /\ err \in {"none", "called", "sent", "finished", "create"}
    /\ faults \in 0 .. MaxFaults /\ waits \in 0 .. MaxWaits /\ runs \in 0 .. MaxRuns
CallsOK ==
    /\ cur \in 0 .. Len(stack) \union {Dangling} /\ frames \in Seq(DOMAIN stack)
    /\ IdleInv /\ RunningInv /\ FailingInv
DataOK == StackOK(stack, SessionIds, keys) /\ SessionsOK(sessions) /\ result \in SessionIds

LEMMA Split == IInv <=> SimpleOK /\ CallsOK /\ DataOK
  BY DEF IInv, TypeOK, SimpleOK, CallsOK, DataOK, StackOK, StepInv, KeyInv, SessionsOK, RecordOK

\* The frame that is executing.
LEMMA LevelFacts ==
  ASSUME IInv, Executing, frames # <<>>
  PROVE  /\ Level = Len(frames) /\ cur = Level /\ Level \in DOMAIN stack /\ Level \in Nat \ {0}
         /\ Level <= Len(stack) /\ Len(stack) \in Nat /\ DOMAIN stack = 1 .. Len(stack)
         /\ Top \in Contexts(SessionIds) /\ AtStep(Top)
         /\ ~Top.nested => Level = Len(stack)
         /\ frames[1] = 1
  <1>1. /\ Aligned /\ cur = Len(frames) /\ Len(frames) <= Len(stack) /\ frames \in Seq(DOMAIN stack)
        /\ \A i \in DOMAIN stack : stack[i].nested <=> i < Len(stack)
        /\ stack \in Seq(Contexts(SessionIds)) /\ StepInv
    BY DEF IInv, TypeOK, RunningInv, Executing
  <1>2. Len(frames) \in Nat \ {0} /\ Len(stack) \in Nat /\ DOMAIN stack = 1 .. Len(stack)
    BY <1>1
  <1>3. frames[Len(frames)] = Len(frames) /\ frames[1] = 1
    BY <1>1, <1>2 DEF Aligned
  <1>4. Level = Len(frames)
    BY <1>3 DEF Level, Last
  <1>5. Level \in DOMAIN stack
    BY <1>1, <1>2, <1>4
  <1>6. Top \in Contexts(SessionIds) /\ AtStep(Top)
    BY <1>1, <1>5 DEF Top, StepInv
  <1>7. ~Top.nested => Level = Len(stack)
    BY <1>1, <1>2, <1>4, <1>5 DEF Top
  <1> QED
    BY <1>1, <1>2, <1>3, <1>4, <1>5, <1>6, <1>7

-----------------------------------------------------------------------------
(* The calls.                                                              *)

Innermost == Executing /\ frames # <<>> /\ ~Top.nested
SameShape ==
    /\ Len(stack') = Len(stack) /\ DOMAIN stack' = DOMAIN stack
    /\ \A i \in DOMAIN stack : stack'[i].nested = stack[i].nested

LEMMA UpdateShape ==
  ASSUME IInv, Executing, frames # <<>>, NEW d, Update(d), d.nested = Top.nested
  PROVE  SameShape
  <1>1. Level \in DOMAIN stack /\ stack \in Seq(Contexts(SessionIds))
    BY LevelFacts DEF IInv, TypeOK
  <1>2. stack' = [stack EXCEPT ![Level] = d]
    BY DEF Update
  <1>3. DOMAIN stack' = DOMAIN stack /\ Len(stack') = Len(stack)
    BY <1>1, <1>2
  <1> QED
    BY <1>1, <1>2, <1>3 DEF SameShape, Top

\* A step of the innermost policy.
LEMMA GoesOn ==
  ASSUME IInv, Innermost, SameShape, UNCHANGED <<cur, frames, rc, err>>
  PROVE  CallsOK'
  <1>1. rc = "running" /\ err = "none" /\ RunningInv
    BY DEF IInv, Innermost, Executing
  <1>2. stack' # <<>>
    BY <1>1 DEF RunningInv, SameShape, IInv, TypeOK
  <1>3. RunningInv'
    BY <1>1, <1>2 DEF RunningInv, SameShape, Aligned
  <1>4. IdleInv' /\ FailingInv'
    BY <1>1 DEF IdleInv, FailingInv
  <1> QED
    BY <1>3, <1>4 DEF CallsOK, SameShape, IInv, TypeOK

\* A step fails, in the innermost policy.
LEMMA BeginsToFail ==
  ASSUME IInv, Innermost, SameShape, UNCHANGED frames, cur' \in {cur, Dangling},
         rc' \in {rc, "crashed"}, err' # "none"
  PROVE  CallsOK'
  <1>1. rc = "running" /\ err = "none" /\ RunningInv
    BY DEF IInv, Innermost, Executing
  <1>2. Level = Len(stack) /\ Level = Len(frames) /\ Len(stack) \in Nat \ {0}
    BY LevelFacts DEF Innermost
  <1>3. stack' # <<>>
    BY <1>2 DEF SameShape
  <1>4. FailingInv'
    BY <1>1, <1>2, <1>3 DEF FailingInv, RunningInv, Aligned, SameShape
  <1>5. IdleInv' /\ RunningInv'
    BY <1>1 DEF IdleInv, RunningInv
  <1> QED
    BY <1>4, <1>5 DEF CallsOK, SameShape, IInv, TypeOK

\* TRY_AGAIN leaves all frames, and the next call begins with the outermost.
LEMMA LeavesAll ==
  ASSUME IInv, Executing, frames # <<>>, SameShape, TryAgain, UNCHANGED <<rc, err>>
  PROVE  CallsOK'
  <1>1. rc = "running" /\ err = "none" /\ RunningInv
    BY DEF IInv, Executing
  <1>2. frames' = <<>> /\ cur' = 0
    <2>1. Head(frames) = 1
      BY LevelFacts DEF IInv, TypeOK
    <2> QED
      BY <2>1 DEF TryAgain
  <1>3. Len(stack) \in Nat /\ Len(stack') = Len(stack) /\ stack' # <<>>
    BY <1>1 DEF RunningInv, SameShape, IInv, TypeOK
  <1>4. Len(frames') = 0 /\ Aligned' /\ frames' \in Seq(DOMAIN stack')
    BY <1>2 DEF Aligned
  <1>5. RunningInv'
    BY <1>1, <1>2, <1>3, <1>4 DEF RunningInv, SameShape
  <1>6. IdleInv' /\ FailingInv'
    BY <1>1 DEF IdleInv, FailingInv
  <1> QED
    BY <1>2, <1>3, <1>4, <1>5, <1>6 DEF CallsOK

\* The data stay the same.
LEMMA DataKept ==
  ASSUME IInv, UNCHANGED <<stack, sessions, keys, result>>
  PROVE  DataOK' /\ SameShape
  BY Split DEF DataOK, SessionIds, SameShape, StackOK, SessionsOK

\* Only the context of the innermost policy, and the keys, change.
LEMMA DataUpdated ==
  ASSUME IInv, Executing, frames # <<>>, NEW d, Update(d), d \in Contexts(SessionIds'), AtStep(d),
         SessionsOK(sessions'), SessionIds \subseteq SessionIds', result' = result,
         KeyChange(d, Top, keys, keys')
  PROVE  DataOK'
  <1>1. StackOK(stack, SessionIds, keys) /\ Level \in DOMAIN stack /\ result \in SessionIds
    BY Split, LevelFacts DEF DataOK
  <1>2. StackOK([stack EXCEPT ![Level] = d], SessionIds', keys')
    BY <1>1, SetContext DEF Top
  <1> QED
    BY <1>1, <1>2 DEF DataOK, Update

-----------------------------------------------------------------------------
(* The actions.                                                            *)

\* The variables that stay in small sets.
LEMMA FaultFacts ==
  ASSUME SimpleOK, Fault
  PROVE  faults' \in 0 .. MaxFaults
  BY ExecutionAssumption DEF SimpleOK, Fault

LEMMA WaitFacts ==
  ASSUME SimpleOK, Wait
  PROVE  waits' \in 0 .. MaxWaits
  BY ExecutionAssumption DEF SimpleOK, Wait

LEMMA BeginInv ==
  ASSUME IInv, Begin
  PROVE  IInv'
  <1>1. SimpleOK /\ CallsOK /\ DataOK
    BY Split
  <1>2. PICK list \in Lists[policy] : stack' = <<NewContext(list)>>
    BY DEF Begin
  <1>3. list \in Seq(Items)
    BY <1>1, <1>2, ExecutionAssumption DEF SimpleOK
  <1>4. frames = <<>> /\ err = "none" /\ frames' = <<>> /\ err' = "none" /\ cur' = 0 /\ rc' = "running"
    BY <1>1 DEF CallsOK, IdleInv, Begin
  <1>5. SimpleOK'
    BY <1>1, ExecutionAssumption DEF SimpleOK, Begin
  <1> DEFINE x == NewContext(list)
  <1>6. DataOK'
    <2>1. SessionIds' = {None} /\ SessionsOK(sessions') /\ result' = None /\ keys' = 0
      BY SessionsEmpty DEF Begin, SessionIds
    <2>2. StackOK(Append(<<>>, x), {None}, 0)
      BY <1>3, StackEmpty, PushContext
    <2>3. Append(<<>>, x) = <<x>>
      OBVIOUS
    <2> QED
      BY <1>2, <2>1, <2>2, <2>3 DEF DataOK
  <1>7. CallsOK'
    <2>1. ~x.nested
      BY <1>3, NewContextFacts, None \in {None}
    <2> HIDE DEF x
    <2>2. stack' = <<x>>
      BY <1>2 DEF x
    <2>3. Len(stack') = 1 /\ DOMAIN stack' = {1} /\ stack'[1] = x /\ stack' # <<>>
      BY <2>2
    <2>4. Aligned' /\ Len(frames') = 0
      BY <1>4 DEF Aligned
    <2>5. RunningInv'
      BY <1>4, <2>1, <2>3, <2>4 DEF RunningInv
    <2> QED
      BY <1>4, <2>3, <2>5 DEF CallsOK, IdleInv, FailingInv
  <1> QED
    BY <1>5, <1>6, <1>7, Split, PTL

LEMMA BeginUnselectedInv ==
  ASSUME IInv, BeginUnselected
  PROVE  IInv'
  <1>1. SimpleOK /\ CallsOK /\ DataOK
    BY Split
  <1>2. frames = <<>> /\ err = "none" /\ stack = <<>> /\ stack' = <<>> /\ frames' = <<>> /\ err' = "none"
        /\ cur' = Dangling /\ rc' = "failed"
    BY <1>1 DEF CallsOK, IdleInv, BeginUnselected
  <1>3. SimpleOK'
    BY <1>1, FaultFacts, ExecutionAssumption DEF SimpleOK, BeginUnselected
  <1>4. CallsOK'
    BY <1>2 DEF CallsOK, IdleInv, RunningInv, FailingInv
  <1>5. DataOK'
    <2>1. SessionIds' = {None} /\ SessionsOK(sessions') /\ result' = None /\ keys' = 0
      BY SessionsEmpty DEF BeginUnselected, SessionIds
    <2> QED
      BY <1>2, <2>1, StackEmpty DEF DataOK
  <1> QED
    BY <1>3, <1>4, <1>5, Split, PTL

\* There is always a policy to go down to.
LEMMA EnterInv ==
  ASSUME IInv, Enter
  PROVE  IInv'
  <1>1. SimpleOK /\ CallsOK /\ DataOK
    BY Split
  <1>2. rc = "running" /\ err = "none" /\ RunningInv
    BY <1>1 DEF Enter, Executing, CallsOK
  <1>3. cur = Len(frames) /\ cur \in Nat /\ Len(stack) \in Nat /\ frames \in Seq(DOMAIN stack) /\ DOMAIN stack = 1 .. Len(stack)
    BY <1>1, <1>2 DEF RunningInv, CallsOK, DataOK, StackOK
  <1>4. cur < Len(stack)
    <2>1. CASE frames = <<>>
      BY <1>1, <1>2, <1>3, <2>1 DEF RunningInv, DataOK, StackOK
    <2>2. CASE frames # <<>>
      BY <1>2, <1>3, <2>2, LevelFacts DEF Enter, Executing, RunningInv, Top
    <2> QED
      BY <2>1, <2>2
  <1>5. cur' = cur + 1 /\ frames' = Append(frames, cur + 1) /\ UNCHANGED <<err, at, stack, rc>>
    <2>1. (IF cur < Len(stack) THEN cur + 1 ELSE 0) = cur + 1 /\ cur + 1 # 0
      BY <1>3, <1>4
    <2> QED
      BY <2>1 DEF Enter
  <1>6. SimpleOK'
    BY <1>1, <1>5 DEF SimpleOK, Enter
  <1>7. DataOK'
    BY DataKept DEF Enter
  <1>8. CallsOK'
    <2>1. cur + 1 \in DOMAIN stack
      BY <1>3, <1>4
    <2>2. /\ frames' \in Seq(DOMAIN stack) /\ Len(frames') = cur + 1 /\ DOMAIN frames' = 1 .. cur + 1
          /\ \A i \in 1 .. cur : frames'[i] = frames[i]
          /\ frames'[cur + 1] = cur + 1
      BY <1>3, <1>5, <2>1, AppendFacts
    <2>3. \A i \in 1 .. cur : frames[i] = i
      BY <1>2, <1>3 DEF RunningInv, Aligned
    <2>4. \A i \in 1 .. cur + 1 : frames'[i] = i
      BY <1>3, <2>2, <2>3
    <2>5. Aligned'
      BY <2>2, <2>4 DEF Aligned
    <2>6. RunningInv'
      BY <1>2, <1>3, <1>4, <1>5, <2>2, <2>5 DEF RunningInv
    <2> QED
      BY <1>2, <1>3, <1>4, <1>5, <2>2, <2>6 DEF CallsOK, IdleInv, FailingInv
  <1> QED
    BY <1>6, <1>7, <1>8, Split, PTL

\* A step fails without a change of the data.
LEMMA FailsOnly ==
  ASSUME IInv, Innermost, UNCHANGED <<stack, sessions, keys, result, frames, cur, rc>>, err' # "none"
  PROVE  CallsOK' /\ DataOK'
  <1>1. DataOK' /\ SameShape
    BY DataKept
  <1> QED
    BY <1>1, BeginsToFail

\* The innermost policy changes its context, and its session is there.
LEMMA UpdatesOnly ==
  ASSUME IInv, Innermost, NEW d, Update(d), d \in Contexts(SessionIds'), AtStep(d), ~d.nested,
         SessionsOK(sessions'), SessionIds \subseteq SessionIds', KeyChange(d, Top, keys, keys'),
         UNCHANGED <<cur, frames, rc, err, result>>
  PROVE  CallsOK' /\ DataOK'
  <1>1. Executing /\ frames # <<>> /\ Top.nested \in BOOLEAN /\ ~Top.nested
    BY LevelFacts DEF Innermost, Contexts
  <1>2. d.nested \in BOOLEAN
    BY DEF Contexts
  <1>3. SameShape
    BY <1>1, <1>2, UpdateShape
  <1>4. CallsOK'
    BY <1>3, GoesOn
  <1>5. DataOK'
    BY <1>1, DataUpdated
  <1> QED
    BY <1>4, <1>5

\* Sessions that stay as they are.
LEMMA SameSessions ==
  ASSUME IInv, UNCHANGED sessions
  PROVE  SessionsOK(sessions') /\ SessionIds' = SessionIds
  BY Split DEF DataOK, SessionIds

\* A context that has the same keys.
LEMMA SameKeys ==
  ASSUME IInv, NEW d, NEW c, SameHandles(d, c), keys' = keys
  PROVE  KeyChange(d, c, keys, keys')
  <1>1. keys \in Nat /\ keys >= keys
    BY DEF IInv, TypeOK
  <1> QED
    BY <1>1 DEF KeyChange, HasKey, SameHandles

\* A context that gets the session s, which may be one of its own.
WithSession(c, s) == [c EXCEPT !.ready = TRUE, !.session = s]
WithOwn(c, s) == [c EXCEPT !.ready = TRUE, !.session = s, !.own = s]

LEMMA SessionSet ==
  ASSUME NEW ids, NEW c \in Contexts(ids), AtStep(c), NEW s \in ids, NEW d \in {WithSession(c, s), WithOwn(c, s)}
  PROVE  d \in Contexts(ids) /\ AtStep(d) /\ SameHandles(d, c) /\ d.nested = c.nested
  <1>1. d \in Contexts(ids) /\ SamePlace(d, c) /\ SameHandles(d, c) /\ d.nested = c.nested
    <2>1. CASE d = WithSession(c, s)
      BY <2>1 DEF Contexts, SamePlace, SameHandles, WithSession
    <2>2. CASE d = WithOwn(c, s)
      BY <2>2 DEF Contexts, SamePlace, SameHandles, WithOwn
    <2> QED
      BY <2>1, <2>2
  <1>2. AtStep(d)
    BY <1>1 DEF AtStep, SamePlace, SameHandles
  <1> QED
    BY <1>1, <1>2

LEMMA UseSessionInv ==
  ASSUME IInv, UseSession
  PROVE  IInv'
  <1>1. SimpleOK /\ CallsOK /\ DataOK
    BY Split
  <1>2. Innermost /\ Executing /\ frames # <<>>
    BY DEF UseSession, Unready, Innermost
  <1>3. Top \in Contexts(SessionIds) /\ AtStep(Top) /\ ~Top.nested
    BY <1>2, LevelFacts DEF Innermost
  <1>4. stack[Level - 1].session \in SessionIds
    <2>1. Level - 1 \in DOMAIN stack
      BY <1>2, LevelFacts DEF UseSession, GetsSession
    <2>2. stack[Level - 1] \in Contexts(SessionIds)
      BY <1>1, <2>1 DEF DataOK, StackOK
    <2> QED
      BY <2>2 DEF Contexts
  <1> DEFINE s == stack[Level - 1].session
             d == WithSession(Top, s)
  <1>5. d \in Contexts(SessionIds) /\ AtStep(d) /\ SameHandles(d, Top) /\ ~d.nested
    <2>1. s \in SessionIds /\ d \in {WithSession(Top, s), WithOwn(Top, s)}
      BY <1>4
    <2> HIDE DEF s, d
    <2>2. d \in Contexts(SessionIds) /\ AtStep(d) /\ SameHandles(d, Top) /\ d.nested = Top.nested
      BY <1>3, <2>1, SessionSet
    <2> QED
      BY <1>3, <2>2
  <1>6. Update(d) /\ UNCHANGED <<cur, frames, rc, err, result, sessions, keys>>
    BY DEF UseSession, WithSession
  <1> HIDE DEF d
  <1>7. SessionsOK(sessions') /\ SessionIds' = SessionIds /\ KeyChange(d, Top, keys, keys')
    BY <1>5, <1>6, SameSessions, SameKeys
  <1>8. CallsOK' /\ DataOK'
    BY <1>2, <1>5, <1>6, <1>7, UpdatesOnly
  <1>9. SimpleOK'
    BY <1>1 DEF SimpleOK, UseSession
  <1> QED
    BY <1>8, <1>9, Split, PTL

LEMMA CreateSendInv ==
  ASSUME IInv, create_session_send
  PROVE  IInv'
  <1>1. SimpleOK /\ CallsOK /\ DataOK
    BY Split
  <1>2. Innermost /\ Executing /\ frames # <<>>
    BY DEF create_session_send, Unready, Innermost
  <1>3. DataOK' /\ SameShape
    BY DataKept DEF create_session_send
  <1>4. SimpleOK'
    BY <1>1 DEF SimpleOK, create_session_send, FailsAt
  <1>5. CASE pending = "none"
    <2>1. CallsOK'
      BY <1>2, <1>3, <1>5, LeavesAll DEF create_session_send
    <2> QED
      BY <1>3, <1>4, <2>1, Split, PTL
  <1>6. CASE pending # "none"
    <2>1. CallsOK'
      BY <1>2, <1>3, <1>6, BeginsToFail DEF create_session_send, FailsAt
    <2> QED
      BY <1>3, <1>4, <2>1, Split, PTL
  <1> QED
    BY <1>5, <1>6

LEMMA CreateFinishInv ==
  ASSUME IInv, create_session_finish
  PROVE  IInv'
  <1>1. SimpleOK /\ CallsOK /\ DataOK
    BY Split
  <1>2. Innermost /\ Executing /\ frames # <<>>
    BY DEF create_session_finish, Unready, Innermost
  <1>3. Top \in Contexts(SessionIds) /\ AtStep(Top) /\ ~Top.nested
    BY <1>2, LevelFacts DEF Innermost
  <1> DEFINE r == [digest |-> Zero, live |-> TRUE, flushes |-> 0, used |-> FALSE]
             d == WithOwn(Top, Len(sessions'))
  <1>4. CASE sessions' = Append(sessions, r) /\ Update(d) /\ UNCHANGED <<err, at, faults>>
    <2>1. SessionsOK(sessions') /\ Len(sessions') \in SessionIds' /\ SessionIds \subseteq SessionIds'
      <3>1. RecordOK(r)
        BY DEF RecordOK
      <3> HIDE DEF r
      <3> QED
        BY <1>1, <1>4, <3>1, SessionsGrown DEF DataOK, SessionIds
    <2>2. d \in Contexts(SessionIds') /\ AtStep(d) /\ SameHandles(d, Top) /\ ~d.nested
      <3> DEFINE n == Len(sessions')
      <3>1. n \in SessionIds' /\ d \in {WithSession(Top, n), WithOwn(Top, n)}
        BY <2>1
      <3> HIDE DEF n, d
      <3>2. Top \in Contexts(SessionIds')
        BY <1>3, <2>1 DEF Contexts
      <3>3. d \in Contexts(SessionIds') /\ AtStep(d) /\ SameHandles(d, Top) /\ d.nested = Top.nested
        BY <1>3, <3>1, <3>2, SessionSet
      <3> QED
        BY <1>3, <3>3
    <2>3. UNCHANGED <<cur, frames, rc, result, keys>>
      BY DEF create_session_finish
    <2> HIDE DEF d
    <2>4. KeyChange(d, Top, keys, keys')
      BY <2>2, <2>3, SameKeys
    <2>5. CallsOK' /\ DataOK'
      BY <1>2, <1>4, <2>1, <2>2, <2>3, <2>4, UpdatesOnly
    <2>6. SimpleOK'
      BY <1>1, <1>4 DEF SimpleOK, create_session_finish
    <2> QED
      BY <2>5, <2>6, Split, PTL
  <1>5. CASE Fault /\ FailsAt(<<"session", "create", "finished">>, "create") /\ UNCHANGED <<sessions, stack>>
    <2>1. CallsOK' /\ DataOK'
      BY <1>2, <1>5, FailsOnly DEF create_session_finish, FailsAt
    <2>2. SimpleOK'
      BY <1>1, <1>5, FaultFacts DEF SimpleOK, create_session_finish, FailsAt
    <2> QED
      BY <2>1, <2>2, Split, PTL
  <1> QED
    BY <1>4, <1>5 DEF create_session_finish, WithOwn

LEMMA CreateWaitInv ==
  ASSUME IInv, create_session_wait
  PROVE  IInv'
  <1>1. SimpleOK /\ CallsOK /\ DataOK
    BY Split
  <1>2. Executing /\ frames # <<>> /\ TryAgain /\ UNCHANGED <<rc, err>>
    BY DEF create_session_wait, Unready
  <1>3. DataOK' /\ SameShape
    BY DataKept DEF create_session_wait
  <1>4. CallsOK'
    BY <1>2, <1>3, LeavesAll
  <1>5. SimpleOK'
    BY <1>1, WaitFacts DEF SimpleOK, create_session_wait
  <1> QED
    BY <1>3, <1>4, <1>5, Split, PTL

\* The keys of a context that gets no key, and of one for which a key is loaded.
LEMMA NoNewKey ==
  ASSUME IInv, NEW d, NEW c, HasKey(d) => HasKey(c), keys' = keys
  PROVE  KeyChange(d, c, keys, keys')
  BY DEF IInv, TypeOK, KeyChange

LEMMA NewKey ==
  ASSUME IInv, NEW d, NEW c, keys' = keys + 1
  PROVE  KeyChange(d, c, keys, keys')
  BY DEF IInv, TypeOK, KeyChange

\* An element that is being executed.
LEMMA InElementFacts ==
  ASSUME IInv, InElement
  PROVE  /\ Innermost /\ Executing /\ frames # <<>> /\ ~Top.nested
         /\ Active(Top, SessionIds) /\ AtStep(Top) /\ StepOf(Top) = Step
         /\ Top \in Contexts(SessionIds) /\ Item \in Items /\ Top.step \in DOMAIN Item.run.steps
  <1>1. Innermost /\ Executing /\ frames # <<>> /\ ~Top.nested /\ Top.list # <<>>
    BY DEF InElement, Innermost
  <1>2. Top \in Contexts(SessionIds) /\ AtStep(Top)
    BY <1>1, LevelFacts
  <1>3. Active(Top, SessionIds)
    BY <1>1, <1>2 DEF Active, AtStep
  <1>4. Item \in Items
    BY <1>1, <1>2, ItemFacts DEF Item, Contexts
  <1> QED
    BY <1>1, <1>2, <1>3, <1>4 DEF StepOf, Step, Item, Active

\* The next step of the innermost policy.
LEMMA Advances ==
  ASSUME IInv, InElement, NEW e \in Contexts(SessionIds), SamePlace(e, Top),
         Step = "load_key" => e.handle = "key", Update(Advance(e)),
         KeyChange(e, Top, keys, keys'), SessionsOK(sessions'), SessionIds' = SessionIds,
         UNCHANGED <<cur, frames, rc, err, result>>
  PROVE  CallsOK' /\ DataOK'
  <1>1. Innermost /\ Active(Top, SessionIds) /\ StepOf(Top) = Step
    BY InElementFacts
  <1>2. Active(e, SessionIds) /\ StepOf(e) = Step
    BY <1>1 DEF Active, SamePlace, StepOf
  <1> DEFINE d == Advance(e)
  <1>3. d \in Contexts(SessionIds) /\ AtStep(d) /\ ~d.nested /\ SameHandles(d, e)
    BY <1>2, AdvanceFacts
  <1> HIDE DEF d
  <1>4. KeyChange(d, Top, keys, keys')
    BY <1>3 DEF KeyChange, SameHandles, HasKey
  <1> QED
    BY <1>1, <1>3, <1>4, UpdatesOnly DEF d

LEMMA CallbackInv ==
  ASSUME IInv, Callback
  PROVE  IInv'
  <1>1. SimpleOK /\ CallsOK /\ DataOK
    BY Split
  <1>2. InElement /\ Step \in Callbacks
    BY DEF Callback
  <1>3. Innermost /\ Top \in Contexts(SessionIds)
    BY <1>2, InElementFacts
  <1> DEFINE e == CASE Step = "build" -> Built(Top)
                    [] Step = "sign" -> Signed(Top)
                    [] Step = "load_key" -> Loaded(Top)
                    [] Step = "search" -> Found(Top)
                    [] OTHER -> Top
  <1>4. UNCHANGED <<cur, frames, rc, result, sessions>> /\ SessionsOK(sessions') /\ SessionIds' = SessionIds
    BY SameSessions DEF Callback
  <1>5. CASE /\ Update(Advance(e))
             /\ keys' = IF Step = "load_key" THEN keys + 1 ELSE keys
             /\ session2' = IF Step = "load_key" THEN "NONE" ELSE session2
             /\ UNCHANGED <<err, at, faults>>
    <2>1. /\ e \in Contexts(SessionIds) /\ SamePlace(e, Top)
          /\ (Step = "load_key" => e.handle = "key") /\ KeyChange(e, Top, keys, keys')
      <3>1. CASE Step = "load_key"
        <4>1. e = Loaded(Top) /\ keys' = keys + 1
          BY <1>5, <3>1
        <4> HIDE DEF e
        <4> QED
          BY <1>3, <4>1, CallbackFacts, NewKey
      <3>2. CASE Step # "load_key"
        <4>1. e \in {Built(Top), Signed(Top), Found(Top), Top} /\ keys' = keys
          BY <1>5, <3>2
        <4> HIDE DEF e
        <4>2. e \in Contexts(SessionIds) /\ SamePlace(e, Top) /\ e.object \in {"none", Top.object} /\ e.handle = Top.handle
          BY <1>3, <4>1, CallbackFacts DEF SameHandles, SamePlace
        <4>3. HasKey(e) => HasKey(Top)
          BY <4>2 DEF HasKey
        <4> QED
          BY <3>2, <4>1, <4>2, <4>3, NoNewKey
      <3> QED
        BY <3>1, <3>2
    <2> HIDE DEF e
    <2>2. CallsOK' /\ DataOK'
      BY <1>2, <1>4, <1>5, <2>1, Advances
    <2>3. SimpleOK'
      BY <1>1, <1>5 DEF SimpleOK, Callback
    <2> QED
      BY <2>2, <2>3, Split, PTL
  <1>6. CASE Fault /\ Fails("called") /\ UNCHANGED <<stack, keys, session2>>
    <2>1. CallsOK' /\ DataOK'
      BY <1>3, <1>4, <1>6, FailsOnly DEF Fails, FailsAt
    <2>2. SimpleOK'
      BY <1>1, <1>6, FaultFacts DEF SimpleOK, Callback, Fails, FailsAt
    <2> QED
      BY <2>1, <2>2, Split, PTL
  <1> QED
    BY <1>5, <1>6 DEF Callback

LEMMA CallbackWaitsInv ==
  ASSUME IInv, CallbackWaits
  PROVE  IInv'
  <1>1. SimpleOK /\ CallsOK /\ DataOK
    BY Split
  <1>2. /\ InElement /\ Executing /\ frames # <<>> /\ Top \in Contexts(SessionIds) /\ AtStep(Top)
        /\ TryAgain /\ UNCHANGED <<rc, err, result, sessions, keys>>
    BY InElementFacts DEF CallbackWaits
  <1>3. DataOK' /\ SameShape
    <2>1. CASE Step = "sign"
      <3> DEFINE d == Signed(Top)
      <3>1. Update(d)
        BY <2>1 DEF CallbackWaits
      <3>2. d \in Contexts(SessionIds) /\ SamePlace(d, Top) /\ SameHandles(d, Top) /\ d.nested = Top.nested
        BY <1>2, CallbackFacts
      <3> HIDE DEF d
      <3>3. AtStep(d)
        BY <1>2, <3>2 DEF AtStep, SamePlace, SameHandles
      <3>4. SameShape
        BY <1>2, <3>1, <3>2, UpdateShape
      <3>5. SessionsOK(sessions') /\ SessionIds' = SessionIds /\ KeyChange(d, Top, keys, keys')
        BY <1>2, <3>2, SameSessions, SameKeys
      <3>6. DataOK'
        BY <1>2, <3>1, <3>2, <3>3, <3>5, DataUpdated
      <3> QED
        BY <3>4, <3>6
    <2>2. CASE Step # "sign"
      BY <1>2, <2>2, DataKept DEF CallbackWaits
    <2> QED
      BY <2>1, <2>2
  <1>4. CallsOK'
    BY <1>2, <1>3, LeavesAll
  <1>5. SimpleOK'
    BY <1>1, WaitFacts DEF SimpleOK, CallbackWaits
  <1> QED
    BY <1>3, <1>4, <1>5, Split, PTL

LEMMA SignsNothingInv ==
  ASSUME IInv, SignsNothing
  PROVE  IInv'
  <1>1. SimpleOK /\ CallsOK /\ DataOK
    BY Split
  <1>2. DataOK'
    BY DataKept DEF SignsNothing
  <1>3. CallsOK'
    BY <1>1 DEF CallsOK, IdleInv, RunningInv, FailingInv, SignsNothing
  <1>4. SimpleOK'
    BY <1>1 DEF SimpleOK, SignsNothing
  <1> QED
    BY <1>2, <1>3, <1>4, Split, PTL

LEMMA AuthorizeByValueInv ==
  ASSUME IInv, AuthorizeByValue
  PROVE  IInv'
  <1>1. SimpleOK /\ CallsOK /\ DataOK
    BY Split
  <1>2. InElement /\ Step \in {"authorize", "authorize_nv"}
    BY DEF AuthorizeByValue
  <1>3. Innermost /\ Active(Top, SessionIds) /\ AtStep(Top) /\ StepOf(Top) = Step
    BY <1>2, InElementFacts
  <1>4. /\ UNCHANGED <<cur, frames, rc, result, sessions, keys>>
        /\ SessionsOK(sessions') /\ SessionIds' = SessionIds
    BY SameSessions DEF AuthorizeByValue
  <1> DEFINE d == Authorized(Top, None)
  <1>5. CASE Update(d) /\ session2' = "NONE" /\ UNCHANGED <<err, at, faults>>
    <2>1. d \in Contexts(SessionIds) /\ AtStep(d) /\ ~d.nested /\ (HasKey(d) => HasKey(Top))
      <3>1. None \in SessionIds
        BY DEF SessionIds
      <3> QED
        BY <1>2, <1>3, <3>1, AuthorizedFacts
    <2> HIDE DEF d
    <2>2. KeyChange(d, Top, keys, keys')
      BY <1>4, <2>1, NoNewKey
    <2>3. CallsOK' /\ DataOK'
      BY <1>3, <1>4, <1>5, <2>1, <2>2, UpdatesOnly
    <2>4. SimpleOK'
      BY <1>1, <1>5 DEF SimpleOK, AuthorizeByValue
    <2> QED
      BY <2>3, <2>4, Split, PTL
  <1>6. CASE Fault /\ Fails("called") /\ UNCHANGED <<stack, session2>>
    <2>1. CallsOK' /\ DataOK'
      BY <1>3, <1>4, <1>6, FailsOnly DEF Fails, FailsAt
    <2>2. SimpleOK'
      BY <1>1, <1>6, FaultFacts DEF SimpleOK, AuthorizeByValue, Fails, FailsAt
    <2> QED
      BY <2>1, <2>2, Split, PTL
  <1> QED
    BY <1>5, <1>6 DEF AuthorizeByValue

\* The mark that a command was sent.
LEMMA SentUpdate ==
  ASSUME IInv, InElement, NEW b \in BOOLEAN, Update([Top EXCEPT !.sent = b]),
         SessionsOK(sessions'), SessionIds' = SessionIds, UNCHANGED <<keys, result>>
  PROVE  DataOK' /\ SameShape
  <1>1. Executing /\ frames # <<>> /\ Top \in Contexts(SessionIds) /\ AtStep(Top)
    BY InElementFacts
  <1> DEFINE d == [Top EXCEPT !.sent = b]
  <1>2. d \in Contexts(SessionIds) /\ SamePlace(d, Top) /\ SameHandles(d, Top) /\ d.nested = Top.nested
    BY <1>1, SentFacts
  <1>3. Update(d)
    OBVIOUS
  <1> HIDE DEF d
  <1>4. AtStep(d)
    BY <1>1, <1>2 DEF AtStep, SamePlace, SameHandles
  <1>5. KeyChange(d, Top, keys, keys')
    BY <1>2, SameKeys
  <1>6. SameShape
    BY <1>1, <1>2, <1>3, UpdateShape
  <1>7. DataOK'
    BY <1>1, <1>2, <1>3, <1>4, <1>5, DataUpdated
  <1> QED
    BY <1>6, <1>7

LEMMA SendInv ==
  ASSUME IInv, Send
  PROVE  IInv'
  <1>1. SimpleOK /\ CallsOK /\ DataOK
    BY Split
  <1>2. InElement /\ Innermost
    BY InElementFacts DEF Send
  <1>3. /\ UNCHANGED <<cur, frames, rc, result, sessions, keys>>
        /\ SessionsOK(sessions') /\ SessionIds' = SessionIds
    BY SameSessions DEF Send
  <1>4. CASE Update([Top EXCEPT !.sent = TRUE]) /\ pending' = "command" /\ UNCHANGED <<err, at, faults>>
    <2>1. DataOK' /\ SameShape
      BY <1>2, <1>3, <1>4, SentUpdate
    <2>2. CallsOK'
      BY <1>2, <1>3, <1>4, <2>1, GoesOn
    <2>3. SimpleOK'
      BY <1>1, <1>4 DEF SimpleOK, Send
    <2> QED
      BY <2>1, <2>2, <2>3, Split, PTL
  <1>5. CASE Fault /\ Fails("sent") /\ UNCHANGED <<stack, pending>>
    <2>1. CallsOK' /\ DataOK'
      BY <1>2, <1>3, <1>5, FailsOnly DEF Fails, FailsAt
    <2>2. SimpleOK'
      BY <1>1, <1>5, FaultFacts DEF SimpleOK, Send, Fails, FailsAt
    <2> QED
      BY <2>1, <2>2, Split, PTL
  <1> QED
    BY <1>4, <1>5 DEF Send

LEMMA SendWaitsInv ==
  ASSUME IInv, SendWaits
  PROVE  IInv'
  <1>1. SimpleOK /\ CallsOK /\ DataOK
    BY Split
  <1>2. Executing /\ frames # <<>> /\ TryAgain /\ UNCHANGED <<rc, err>>
    BY InElementFacts DEF SendWaits
  <1>3. DataOK' /\ SameShape
    BY DataKept DEF SendWaits
  <1>4. CallsOK'
    BY <1>2, <1>3, LeavesAll
  <1>5. SimpleOK'
    BY <1>1, WaitFacts DEF SimpleOK, SendWaits
  <1> QED
    BY <1>3, <1>4, <1>5, Split, PTL

\* What a command, or its failure, does to a session.
WithDigest(ss, s, v) == [ss EXCEPT ![s].digest = v]
WithUse(ss, s) == [ss EXCEPT ![s].used = TRUE]
WithEnd(ss, s) == [ss EXCEPT ![s].live = FALSE, ![s].used = TRUE]
WithFlush(ss, s) == [ss EXCEPT ![s].live = FALSE, ![s].flushes = @ + 1]

LEMMA SessionMarked ==
  ASSUME NEW ss, SessionsOK(ss), NEW s
  PROVE  /\ \A v : SessionsOK(WithDigest(ss, s, v)) /\ DOMAIN WithDigest(ss, s, v) = DOMAIN ss
         /\ \A ts \in {WithUse(ss, s), WithEnd(ss, s), WithFlush(ss, s)} : SessionsOK(ts) /\ DOMAIN ts = DOMAIN ss
  <1>1. s \in DOMAIN ss => RecordOK(ss[s])
    BY DEF SessionsOK
  <1>2. ASSUME NEW v
        PROVE  SessionsOK(WithDigest(ss, s, v)) /\ DOMAIN WithDigest(ss, s, v) = DOMAIN ss
    <2> DEFINE q == [ss[s] EXCEPT !.digest = v]
    <2>1. s \in DOMAIN ss => RecordOK(q)
      BY <1>1, RecordChanged
    <2>2. WithDigest(ss, s, v) = [ss EXCEPT ![s] = q]
      BY DEF WithDigest
    <2> HIDE DEF q
    <2> QED
      BY <2>1, <2>2, SessionsChanged
  <1>3. SessionsOK(WithUse(ss, s)) /\ DOMAIN WithUse(ss, s) = DOMAIN ss
    <2> DEFINE q == [ss[s] EXCEPT !.used = TRUE]
    <2>1. s \in DOMAIN ss => RecordOK(q)
      BY <1>1, RecordChanged
    <2>2. WithUse(ss, s) = [ss EXCEPT ![s] = q]
      BY DEF WithUse
    <2> HIDE DEF q
    <2> QED
      BY <2>1, <2>2, SessionsChanged
  <1>4. SessionsOK(WithEnd(ss, s)) /\ DOMAIN WithEnd(ss, s) = DOMAIN ss
    <2> DEFINE q == [ss[s] EXCEPT !.live = FALSE, !.used = TRUE]
    <2>1. s \in DOMAIN ss => RecordOK(q)
      BY <1>1, RecordChanged
    <2>2. WithEnd(ss, s) = [ss EXCEPT ![s] = q]
      BY DEF WithEnd
    <2> HIDE DEF q
    <2> QED
      BY <2>1, <2>2, SessionsChanged
  <1>5. SessionsOK(WithFlush(ss, s)) /\ DOMAIN WithFlush(ss, s) = DOMAIN ss
    <2> DEFINE q == [ss[s] EXCEPT !.live = FALSE, !.flushes = @ + 1]
    <2>1. s \in DOMAIN ss => RecordOK(q)
      BY <1>1, RecordChanged
    <2>2. WithFlush(ss, s) = [ss EXCEPT ![s] = q]
      BY DEF WithFlush
    <2> HIDE DEF q
    <2> QED
      BY <2>1, <2>2, SessionsChanged
  <1> QED
    BY <1>2, <1>3, <1>4, <1>5

LEMMA FinishFailsInv ==
  ASSUME IInv, FinishFails
  PROVE  IInv'
  <1>1. SimpleOK /\ CallsOK /\ DataOK
    BY Split
  <1>2. InElement /\ Innermost
    BY InElementFacts DEF FinishFails
  <1>3. UNCHANGED <<cur, frames, rc, result, keys>> /\ err' = "finished" /\ Update([Top EXCEPT !.sent = FALSE])
    BY DEF FinishFails, Fails, FailsAt
  <1>4. SessionsOK(sessions') /\ DOMAIN sessions' = DOMAIN sessions
    <2>1. CASE UsesAuth
      <3>1. sessions' = WithUse(sessions, Top.auth)
        BY <2>1 DEF FinishFails, WithUse
      <3> QED
        BY <1>1, <3>1, SessionMarked DEF DataOK
    <2>2. CASE ~UsesAuth
      BY <1>1, <2>2 DEF FinishFails, DataOK
    <2> QED
      BY <2>1, <2>2
  <1>5. DataOK' /\ SameShape
    BY <1>2, <1>3, <1>4, SentUpdate DEF SessionIds
  <1>6. CallsOK'
    BY <1>2, <1>3, <1>5, BeginsToFail
  <1>7. SimpleOK'
    <2>1. faults' \in 0 .. MaxFaults
      BY <1>1, FaultFacts DEF FinishFails, SimpleOK
    <2> QED
      BY <1>1, <1>3, <2>1 DEF SimpleOK, FinishFails
  <1> QED
    BY <1>5, <1>6, <1>7, Split, PTL

\* What the answer to a command does to the context.
LEMMA AnsweredFacts ==
  ASSUME IInv, InElement
  PROVE  /\ Answered(Top) \in Contexts(SessionIds) /\ SamePlace(Answered(Top), Top)
         /\ Step = "FlushContext" => ~HasKey(Answered(Top))
         /\ Step \notin {"LoadExternal", "FlushContext"} => SameHandles(Answered(Top), Top)
  <1>1. Top \in Contexts(SessionIds) /\ None \in SessionIds
    BY InElementFacts DEF SessionIds
  <1> DEFINE l == KeyLoaded(Top)
             a == [Top EXCEPT !.auth = None]
  <1>2. l \in Contexts(SessionIds) /\ SamePlace(l, Top)
    BY <1>1 DEF KeyLoaded, Contexts, SamePlace, HandleKinds
  <1>3. a \in Contexts(SessionIds) /\ SamePlace(a, Top) /\ SameHandles(a, Top)
    BY <1>1 DEF Contexts, SamePlace, SameHandles
  <1>4. Disowned(Top) \in Contexts(SessionIds) /\ SamePlace(Disowned(Top), Top) /\ ~HasKey(Disowned(Top))
    BY <1>1, DisownedFacts
  <1>5. Top \in Contexts(SessionIds) /\ SamePlace(Top, Top) /\ SameHandles(Top, Top)
    BY <1>1 DEF SamePlace, SameHandles
  <1>6. CASE Step = "LoadExternal"
    <2>1. Answered(Top) = l
      BY <1>6 DEF Answered, UsesAuth
    <2> QED
      BY <1>2, <1>6, <2>1
  <1>7. CASE Step = "FlushContext"
    <2>1. Answered(Top) = Disowned(Top)
      BY <1>7 DEF Answered, UsesAuth
    <2> QED
      BY <1>4, <1>7, <2>1
  <1>8. CASE Step \notin {"LoadExternal", "FlushContext"}
    <2>1. Answered(Top) \in {a, Top}
      BY <1>8 DEF Answered
    <2> QED
      BY <1>3, <1>5, <1>8, <2>1
  <1> QED
    BY <1>6, <1>7, <1>8

LEMMA FinishInv ==
  ASSUME IInv, Finish
  PROVE  IInv'
  <1>1. SimpleOK /\ CallsOK /\ DataOK
    BY Split
  <1>2. InElement /\ Executing /\ frames # <<>> /\ Step \in Commands /\ Accepted
    BY InElementFacts DEF Finish
  <1> DEFINE e == Answered(Top)
  <1>3. UNCHANGED <<cur, frames, rc, err, result>> /\ Update(Advance(e))
    BY DEF Finish
  <1>4. SessionsOK(sessions') /\ SessionIds' = SessionIds
    <2> DEFINE ss == Extended(sessions)
    <2>1. SessionsOK(ss) /\ DOMAIN ss = DOMAIN sessions
      <3>1. CASE Step = "Policy"
        <4>1. \E v : ss = WithDigest(sessions, Top.session, v)
          BY <3>1 DEF Extended, WithDigest
        <4> HIDE DEF ss
        <4> QED
          BY <1>1, <4>1, SessionMarked DEF DataOK
      <3>2. CASE Step # "Policy"
        BY <1>1, <3>2 DEF Extended, DataOK
      <3> QED
        BY <3>1, <3>2
    <2> HIDE DEF ss
    <2>2. SessionsOK(Ended(ss)) /\ DOMAIN Ended(ss) = DOMAIN ss
      <3>1. CASE UsesAuth
        <4>1. Ended(ss) = WithEnd(ss, Top.auth)
          BY <3>1 DEF Ended, WithEnd
        <4> QED
          BY <2>1, <4>1, SessionMarked
      <3>2. CASE ~UsesAuth
        BY <2>1, <3>2 DEF Ended
      <3> QED
        BY <3>1, <3>2
    <2>3. sessions' = Ended(ss)
      BY DEF Finish, ss
    <2> QED
      BY <2>1, <2>2, <2>3 DEF SessionIds
  <1>5. /\ e \in Contexts(SessionIds) /\ SamePlace(e, Top)
        /\ Step = "FlushContext" => ~HasKey(e)
        /\ Step \notin {"LoadExternal", "FlushContext"} => SameHandles(e, Top)
    BY <1>2, AnsweredFacts
  <1> HIDE DEF e
  <1>6. KeyChange(e, Top, keys, keys')
    <2>1. CASE Step = "LoadExternal"
      <3>1. keys' = keys + 1
        BY <2>1 DEF Finish
      <3> QED
        BY <3>1, NewKey
    <2>2. CASE Step = "FlushContext"
      <3>1. keys' = keys - 1
        BY <2>2 DEF Finish
      <3>2. HasKey(Top)
        BY <1>2, <2>2 DEF Accepted, Owned, HasKey
      <3>3. keys > 0 /\ keys \in Nat
        <4>1. Level \in DOMAIN stack
          BY <1>2, LevelFacts
        <4> QED
          BY <1>1, <3>2, <4>1, HolderBacked DEF DataOK, Top, StackOK
      <3> QED
        BY <1>5, <2>2, <3>1, <3>2, <3>3 DEF KeyChange
    <2>3. CASE Step \notin {"LoadExternal", "FlushContext"}
      <3>1. keys' = keys
        BY <2>3 DEF Finish
      <3> QED
        BY <1>5, <2>3, <3>1, SameKeys
    <2> QED
      BY <2>1, <2>2, <2>3
  <1>7. Step # "load_key"
    BY <1>2 DEF Commands
  <1>8. CallsOK' /\ DataOK'
    BY <1>2, <1>3, <1>4, <1>5, <1>6, <1>7, Advances
  <1>9. SimpleOK'
    BY <1>1 DEF SimpleOK, Finish, Encryption
  <1> QED
    BY <1>8, <1>9, Split, PTL

\* A policy that an element executes has lists.
LEMMA NestedLists ==
  ASSUME IInv, InElement, NeedsPolicy, NEW list \in Lists[AuthPolicy]
  PROVE  list \in Seq(Items)
  <1>1. Item \in Items /\ Top.step \in DOMAIN Item.run.steps /\ Step = Item.run.steps[Top.step]
    BY InElementFacts DEF Step
  <1>2. AuthPolicy \in DOMAIN Lists
    <2>1. CASE Step = "sub"
      BY <1>1, <2>1, ItemAssumption DEF AuthPolicy
    <2>2. CASE Step # "sub"
      BY <1>1, <2>2, ItemAssumption DEF AuthPolicy, NeedsPolicy, Object
    <2> QED
      BY <2>1, <2>2
  <1> QED
    BY <1>2, ExecutionAssumption

LEMMA NestInv ==
  ASSUME IInv, Nest
  PROVE  IInv'
  <1>1. SimpleOK /\ CallsOK /\ DataOK
    BY Split
  <1>2. InElement /\ NeedsPolicy /\ Executing /\ frames # <<>> /\ ~Top.nested /\ Active(Top, SessionIds) /\ AtStep(Top)
    BY InElementFacts DEF Nest
  <1>3. /\ Level = Len(frames) /\ cur = Level /\ Level = Len(stack) /\ Level \in Nat \ {0}
        /\ DOMAIN stack = 1 .. Len(stack) /\ Level \in DOMAIN stack
    BY <1>2, LevelFacts
  <1>4. PICK list \in Lists[AuthPolicy] : stack' = [new_policy(list) EXCEPT ![Level].nested = TRUE]
    BY DEF Nest
  <1>5. list \in Seq(Items)
    BY <1>2, <1>4, NestedLists
  <1> DEFINE x == NewContext(list)
             cs == Append(stack, x)
             d == [Top EXCEPT !.nested = TRUE]
  <1>6. stack \in Seq(Contexts(SessionIds)) /\ StackOK(stack, SessionIds, keys) /\ SubSeq(stack, 1, Len(stack)) = stack
    BY <1>1 DEF DataOK, StackOK
  <1>7. x \in Contexts(SessionIds) /\ ~x.nested /\ None \in SessionIds
    BY <1>5, NewContextFacts DEF SessionIds
  <1> HIDE DEF x
  <1>8. StackOK(cs, SessionIds, keys)
    BY <1>5, <1>6, <1>7, PushContext DEF x
  <1>9. /\ cs \in Seq(Contexts(SessionIds)) /\ Len(cs) = Level + 1 /\ DOMAIN cs = 1 .. Level + 1
        /\ \A i \in 1 .. Level : cs[i] = stack[i]
        /\ cs[Level + 1] = x
    BY <1>3, <1>6, <1>7, AppendFacts
  <1>10. cs = new_policy(list)
    BY <1>3, <1>6 DEF new_policy, x
  <1> HIDE DEF cs
  <1>11. cs[Level] = Top /\ Level \in DOMAIN cs
    BY <1>3, <1>9 DEF Top
  <1>12. stack' = [cs EXCEPT ![Level] = d]
    BY <1>4, <1>10, <1>11
  <1>13. d \in Contexts(SessionIds) /\ SamePlace(d, Top) /\ SameHandles(d, Top) /\ d.nested
    BY <1>2 DEF Active, Contexts, SamePlace, SameHandles
  <1> HIDE DEF d
  <1>14. AtStep(d)
    <2>1. Top.list # <<>> /\ Head(Top.list).run.steps[Top.step] \in {"sub", "authorize", "authorize_nv"}
      BY <1>2 DEF Active, NeedsPolicy, Step, Item
    <2> QED
      BY <1>2, <1>13, <2>1 DEF AtStep, SamePlace, SameHandles
  <1>15. DataOK'
    <2>1. /\ UNCHANGED <<keys, sessions, result>> /\ SessionsOK(sessions') /\ SessionIds' = SessionIds
      BY SameSessions DEF Nest
    <2>2. KeyChange(d, cs[Level], keys, keys')
      BY <1>11, <1>13, <2>1, SameKeys
    <2>3. StackOK(stack', SessionIds, keys')
      BY <1>8, <1>11, <1>12, <1>13, <1>14, <2>2, SetContext
    <2> QED
      BY <1>1, <2>1, <2>3 DEF DataOK
  <1>16. CallsOK'
    <2>1. /\ Len(stack') = Level + 1 /\ DOMAIN stack' = 1 .. Level + 1 /\ stack'[Level] = d
          /\ stack'[Level + 1] = x /\ \A i \in 1 .. Level - 1 : stack'[i] = stack[i]
      BY <1>3, <1>9, <1>11, <1>12, <1>13, ExceptFacts
    <2>2. UNCHANGED <<cur, frames, rc, err>> /\ rc = "running" /\ err = "none" /\ RunningInv
      BY <1>1, <1>2 DEF Nest, Executing, CallsOK
    <2>3. \A i \in 1 .. Level - 1 : stack'[i].nested
      BY <1>3, <2>1, <2>2 DEF RunningInv
    <2>4. \A i \in DOMAIN stack' : stack'[i].nested <=> i < Len(stack')
      BY <1>3, <1>7, <1>13, <2>1, <2>3
    <2>5. RunningInv'
      BY <1>3, <2>1, <2>2, <2>4 DEF RunningInv, Aligned
    <2>6. frames \in Seq(DOMAIN stack')
      BY <1>1, <1>3, <2>1, SeqMono DEF CallsOK
    <2>7. cur' \in 0 .. Len(stack') /\ frames' \in Seq(DOMAIN stack')
      <3>1. cur' = Level /\ frames' = frames
        BY <1>3, <2>2
      <3>2. Level \in 0 .. Level + 1
        BY <1>3
      <3> QED
        BY <2>1, <2>6, <3>1, <3>2
    <2>8. IdleInv' /\ FailingInv'
      BY <2>2 DEF IdleInv, FailingInv
    <2> QED
      BY <2>5, <2>7, <2>8 DEF CallsOK
  <1>17. SimpleOK'
    BY <1>1 DEF SimpleOK, Nest
  <1> QED
    BY <1>15, <1>16, <1>17, Split, PTL

LEMMA NestUnselectedInv ==
  ASSUME IInv, NestUnselected
  PROVE  IInv'
  <1>1. SimpleOK /\ CallsOK /\ DataOK
    BY Split
  <1>2. Innermost /\ frames' = frames /\ cur' = Dangling /\ rc' \in {rc, "crashed"} /\ err' = "called"
    BY InElementFacts DEF NestUnselected, FailsAt
  <1>3. DataOK' /\ SameShape
    BY DataKept DEF NestUnselected
  <1>4. CallsOK'
    BY <1>2, <1>3, BeginsToFail
  <1>5. SimpleOK'
    BY <1>1, <1>2, FaultFacts DEF SimpleOK, NestUnselected
  <1> QED
    BY <1>3, <1>4, <1>5, Split, PTL

\* The innermost policy is freed, and its frame left.
LEMMA PopFacts ==
  ASSUME IInv, frames # <<>>, Aligned, Len(frames) = Len(stack)
  PROVE  /\ Level = Len(frames) /\ Level \in Nat \ {0} /\ Level = Len(stack) /\ Level \in DOMAIN stack
         /\ Top = stack[Len(stack)] /\ Top \in Contexts(SessionIds) /\ AtStep(Top) /\ stack # <<>>
         /\ StackOK(stack, SessionIds, keys) /\ SessionsOK(sessions)
         /\ Len(Front(frames)) = Level - 1 /\ Front(frames) = [i \in 1 .. Level - 1 |-> i]
         /\ Len(SubSeq(stack, 1, Level - 1)) = Level - 1 /\ DOMAIN SubSeq(stack, 1, Level - 1) = 1 .. Level - 1
         /\ \A i \in 1 .. Level - 1 : SubSeq(stack, 1, Level - 1)[i] = stack[i] /\ i \in DOMAIN stack
         /\ Level = 1 => Front(frames) = <<>> /\ SubSeq(stack, 1, Level - 1) = <<>>
  <1>1. /\ StackOK(stack, SessionIds, keys) /\ SessionsOK(sessions) /\ frames \in Seq(DOMAIN stack)
        /\ stack \in Seq(Contexts(SessionIds))
    BY Split DEF DataOK, CallsOK, StackOK
  <1>2. Len(frames) \in Nat \ {0} /\ Len(stack) \in Nat /\ DOMAIN stack = 1 .. Len(stack) /\ stack # <<>>
    BY <1>1
  <1>3. Level = Len(frames)
    BY <1>1, <1>2 DEF Level, Last, Aligned
  <1>4. Level \in DOMAIN stack /\ Top = stack[Len(stack)]
    BY <1>2, <1>3 DEF Top
  <1>5. Top \in Contexts(SessionIds) /\ AtStep(Top)
    BY <1>1, <1>4 DEF StackOK, Top
  <1> DEFINE n == Level - 1
             fs == SubSeq(frames, 1, n)
             cs == SubSeq(stack, 1, n)
  <1>6. n \in 0 .. Len(frames) /\ n \in 0 .. Len(stack) /\ n \in Nat
    BY <1>2, <1>3
  <1> HIDE DEF n
  <1>7. /\ cs \in Seq(Contexts(SessionIds)) /\ Len(cs) = n /\ DOMAIN cs = 1 .. n
        /\ \A i \in 1 .. n : cs[i] = stack[i] /\ i \in DOMAIN stack
    BY <1>1, <1>6, SubSeqFacts
  <1>8. /\ fs \in Seq(DOMAIN stack) /\ Len(fs) = n /\ DOMAIN fs = 1 .. n
        /\ \A i \in 1 .. n : fs[i] = frames[i] /\ i \in DOMAIN frames
    BY <1>1, <1>6, SubSeqFacts
  <1>9. Front(frames) = fs
    BY <1>3 DEF Front, n
  <1> HIDE DEF fs, cs
  <1>10. fs = [i \in 1 .. n |-> i]
    <2>1. \A i \in 1 .. n : fs[i] = i
      BY <1>1, <1>2, <1>8 DEF Aligned
    <2>2. fs = [i \in 1 .. n |-> fs[i]]
      BY <1>8
    <2> QED
      BY <2>1, <2>2
  <1>11. n = 0 => fs = <<>> /\ cs = <<>>
    BY <1>7, <1>8
  <1>12. Level = 1 => n = 0
    BY DEF n
  <1> QED
    BY <1>1, <1>2, <1>3, <1>4, <1>5, <1>7, <1>8, <1>9, <1>10, <1>11, <1>12 DEF n, cs

\* The calls after that, when the one above goes on or fails.
LEMMA PopCalls ==
  ASSUME IInv, frames # <<>>, Aligned, Len(frames) = Len(stack), Len(stack') = Level - 1,
         DOMAIN stack' = 1 .. Level - 1, cur' = Level - 1, frames' = Front(frames)
  PROVE  /\ cur' \in 0 .. Len(stack') /\ frames' \in Seq(DOMAIN stack') /\ Aligned' /\ Len(frames') = Level - 1
         /\ Level # 1 => stack' # <<>>
  <1>1. Level \in Nat \ {0} /\ Len(Front(frames)) = Level - 1 /\ Front(frames) = [i \in 1 .. Level - 1 |-> i]
    BY PopFacts
  <1> DEFINE n == Level - 1
  <1>2. n \in Nat /\ cur' = n /\ Len(stack') = n /\ DOMAIN stack' = 1 .. n /\ Len(frames') = n
        /\ frames' = [i \in 1 .. n |-> i] /\ (Level # 1 => n # 0)
    BY <1>1
  <1> HIDE DEF n
  <1>3. frames' \in Seq(DOMAIN stack')
    BY <1>2
  <1>4. Level # 1 => stack' # <<>>
    BY <1>2
  <1>5. Aligned'
    BY <1>2 DEF Aligned
  <1> QED
    BY <1>2, <1>3, <1>4, <1>5 DEF n

LEMMA ReturnInv ==
  ASSUME IInv, Return
  PROVE  IInv'
  <1>1. SimpleOK /\ CallsOK /\ DataOK
    BY Split
  <1>2. Executing /\ frames # <<>> /\ Top.list = <<>>
    BY DEF Return
  <1>3. rc = "running" /\ err = "none" /\ RunningInv /\ Aligned /\ cur = Len(frames)
    BY <1>1, <1>2 DEF Executing, CallsOK, RunningInv
  <1>4. Len(frames) = Len(stack) /\ cur = Level
    <2>1. ~Top.nested
      BY <1>2, LevelFacts DEF AtStep
    <2> QED
      BY <1>2, <2>1, LevelFacts
  <1>5. /\ Level = Len(frames) /\ Level \in Nat \ {0} /\ Level = Len(stack) /\ Level \in DOMAIN stack
        /\ Top = stack[Len(stack)] /\ Top \in Contexts(SessionIds) /\ AtStep(Top) /\ stack # <<>>
        /\ StackOK(stack, SessionIds, keys) /\ SessionsOK(sessions)
        /\ Len(SubSeq(stack, 1, Level - 1)) = Level - 1 /\ DOMAIN SubSeq(stack, 1, Level - 1) = 1 .. Level - 1
        /\ \A i \in 1 .. Level - 1 : SubSeq(stack, 1, Level - 1)[i] = stack[i] /\ i \in DOMAIN stack
        /\ Level = 1 => Front(frames) = <<>> /\ SubSeq(stack, 1, Level - 1) = <<>>
    BY <1>2, <1>3, <1>4, PopFacts
  <1> DEFINE cs == SubSeq(stack, 1, Level - 1)
  <1>6. ClearCurrent = cs
    BY <1>4, <1>5 DEF ClearCurrent
  <1>7. StackOK(cs, SessionIds, keys)
    BY <1>5, PopContext
  <1>8. /\ cur' = Level - 1 /\ frames' = Front(frames) /\ UNCHANGED <<keys, sessions, err>>
        /\ SessionsOK(sessions') /\ SessionIds' = SessionIds
    BY SameSessions DEF Return, Previous
  <1>9. SimpleOK'
    BY <1>1 DEF SimpleOK, Return
  <1>10. CASE Level = 1
    <2>1. stack' = <<>> /\ frames' = <<>> /\ cur' = 0 /\ rc' = "done" /\ result' = Top.own /\ cs = <<>>
      BY <1>5, <1>6, <1>8, <1>10 DEF Return
    <2>2. DataOK'
      BY <1>5, <1>7, <1>8, <2>1 DEF DataOK, Contexts
    <2>3. cur' \in 0 .. Len(stack') /\ frames' \in Seq(DOMAIN stack')
      BY <2>1
    <2>4. IdleInv' /\ RunningInv' /\ FailingInv'
      BY <1>3, <1>8, <2>1 DEF IdleInv, RunningInv, FailingInv
    <2>5. CallsOK'
      BY <2>3, <2>4 DEF CallsOK
    <2> QED
      BY <1>9, <2>2, <2>5, Split, PTL
  <1>11. CASE Level # 1
    <2> DEFINE p == stack[Level - 1]
               sub == Head(p.list).run.steps[p.step] = "sub"
               d == IF sub THEN Executed(p) ELSE Authorized(p, Top.own)
    <2>1. stack' = [cs EXCEPT ![Level - 1] = d] /\ rc' \in {rc, "crashed"} /\ result' = result
      BY <1>6, <1>11 DEF Return
    <2>2. Level - 1 \in DOMAIN stack /\ Level - 1 \in DOMAIN cs /\ cs[Level - 1] = p /\ p.nested
      BY <1>3, <1>5, <1>11 DEF RunningInv
    <2>3. p \in Contexts(SessionIds) /\ AtStep(p)
      BY <1>5, <2>2 DEF StackOK
    <2> HIDE DEF p
    <2>4. Active(p, SessionIds) /\ StepOf(p) \in {"sub", "authorize", "authorize_nv"} /\ (sub <=> StepOf(p) = "sub")
      BY <2>2, <2>3 DEF Active, AtStep, StepOf
    <2>5. d \in Contexts(SessionIds) /\ AtStep(d) /\ ~d.nested /\ (HasKey(d) => HasKey(p))
      <3>1. CASE sub
        <4>1. d = Executed(p)
          BY <3>1
        <4> HIDE DEF d, sub
        <4> QED
          BY <2>4, <3>1, <4>1, ExecutedFacts DEF SameHandles, HasKey
      <3>2. CASE ~sub
        <4>1. d = Authorized(p, Top.own) /\ Top.own \in SessionIds
          BY <1>5, <3>2 DEF Contexts
        <4> HIDE DEF d, sub
        <4> QED
          BY <2>3, <2>4, <3>2, <4>1, AuthorizedFacts
      <3> QED
        BY <3>1, <3>2
    <2> HIDE DEF d, sub, cs
    <2>6. DataOK'
      <3>1. KeyChange(d, cs[Level - 1], keys, keys')
        BY <1>8, <2>2, <2>5, NoNewKey
      <3>2. StackOK(stack', SessionIds, keys')
        BY <1>7, <2>1, <2>2, <2>5, <3>1, SetContext
      <3> QED
        BY <1>1, <1>8, <2>1, <3>2 DEF DataOK
    <2>7. /\ Len(stack') = Level - 1 /\ DOMAIN stack' = 1 .. Level - 1 /\ stack'[Level - 1] = d
          /\ \A i \in 1 .. Level - 2 : stack'[i] = stack[i] /\ i \in DOMAIN stack
      <3>1. /\ cs \in Seq(Contexts(SessionIds)) /\ Len(cs) = Level - 1 /\ DOMAIN cs = 1 .. Level - 1
            /\ \A i \in 1 .. Level - 1 : cs[i] = stack[i] /\ i \in DOMAIN stack
        BY <1>5, <1>7 DEF cs, StackOK
      <3> QED
        BY <1>5, <2>1, <2>2, <2>5, <3>1, ExceptFacts
    <2>8. /\ cur' \in 0 .. Len(stack') /\ frames' \in Seq(DOMAIN stack') /\ Aligned' /\ Len(frames') = Level - 1
          /\ stack' # <<>>
      BY <1>2, <1>3, <1>4, <1>8, <1>11, <2>7, PopCalls
    <2>9. \A i \in DOMAIN stack' : stack'[i].nested <=> i < Len(stack')
      <3> DEFINE n == Level - 1
      <3>1. /\ n \in Nat /\ Len(stack) = n + 1 /\ DOMAIN stack = 1 .. n + 1 /\ Len(stack') = n
            /\ DOMAIN stack' = 1 .. n /\ stack'[n] = d
            /\ \A i \in 1 .. n - 1 : stack'[i] = stack[i]
        BY <1>5, <2>7 DEF StackOK
      <3> HIDE DEF n
      <3>2. \A i \in 1 .. n - 1 : stack[i].nested
        BY <1>3, <3>1 DEF RunningInv, Executing
      <3>3. \A i \in 1 .. n : i # n => i \in 1 .. n - 1
        BY <3>1
      <3>4. \A i \in 1 .. n : stack'[i].nested <=> i < n
        BY <2>5, <3>1, <3>2, <3>3
      <3> QED
        BY <3>1, <3>4
    <2>10. RunningInv'
      BY <1>5, <1>8, <2>7, <2>8, <2>9 DEF RunningInv
    <2>11. IdleInv' /\ FailingInv'
      BY <1>3, <1>8, <2>1 DEF IdleInv, FailingInv
    <2>12. CallsOK'
      BY <2>8, <2>10, <2>11 DEF CallsOK
    <2> QED
      BY <1>9, <2>6, <2>12, Split, PTL
  <1> QED
    BY <1>10, <1>11

\* The policy above has failed with it, or the authorization.
LEMMA PopFails ==
  ASSUME IInv, rc = "running", frames # <<>>, Aligned, Len(frames) = Len(stack), Len(stack') = Level - 1,
         DOMAIN stack' = 1 .. Level - 1, cur' = Level - 1, frames' = Front(frames), Level = 1 => stack' = <<>>,
         rc' = IF Level = 1 THEN "failed" ELSE rc, err' = IF Level = 1 THEN "none" ELSE "called"
  PROVE  CallsOK'
  <1>1. /\ cur' \in 0 .. Len(stack') /\ frames' \in Seq(DOMAIN stack') /\ Aligned' /\ Len(frames') = Level - 1
        /\ Level # 1 => stack' # <<>>
    BY PopCalls
  <1>2. CASE Level = 1
    <2>1. stack' = <<>> /\ frames' = <<>> /\ err' = "none" /\ rc' = "failed"
      BY <1>2, PopFacts
    <2> QED
      BY <1>1, <2>1 DEF CallsOK, IdleInv, RunningInv, FailingInv
  <1>3. CASE Level # 1
    <2>1. rc' = "running" /\ err' = "called" /\ cur' = Len(frames') /\ Len(frames') = Len(stack') /\ stack' # <<>>
      BY <1>1, <1>3
    <2> QED
      BY <1>1, <2>1 DEF CallsOK, IdleInv, RunningInv, FailingInv
  <1> QED
    BY <1>2, <1>3

LEMMA ReturnWithoutAuthInv ==
  ASSUME IInv, ReturnWithoutAuth
  PROVE  IInv'
  <1>1. SimpleOK /\ CallsOK /\ DataOK
    BY Split
  <1>2. Executing /\ frames # <<>> /\ Top.list = <<>>
    BY DEF ReturnWithoutAuth
  <1>3. rc = "running" /\ err = "none" /\ Aligned
    BY <1>1, <1>2 DEF Executing, CallsOK, RunningInv
  <1>4. Len(frames) = Len(stack) /\ cur = Level
    <2>1. ~Top.nested
      BY <1>2, LevelFacts DEF AtStep
    <2> QED
      BY <1>2, <2>1, LevelFacts
  <1>5. /\ Level \in Nat \ {0} /\ Level = Len(stack) /\ stack # <<>>
        /\ StackOK(stack, SessionIds, keys) /\ SessionsOK(sessions)
        /\ Len(SubSeq(stack, 1, Level - 1)) = Level - 1 /\ DOMAIN SubSeq(stack, 1, Level - 1) = 1 .. Level - 1
        /\ Level = 1 => SubSeq(stack, 1, Level - 1) = <<>>
    BY <1>2, <1>3, <1>4, PopFacts
  <1>6. stack' = SubSeq(stack, 1, Level - 1)
    BY <1>4, <1>5 DEF ReturnWithoutAuth, ClearCurrent
  <1>7. /\ cur' = Level - 1 /\ frames' = Front(frames) /\ UNCHANGED <<keys, result>>
        /\ rc' = (IF Level = 1 THEN "failed" ELSE rc) /\ err' = (IF Level = 1 THEN "none" ELSE "called")
    BY DEF ReturnWithoutAuth, FailsAt
  <1>8. CallsOK'
    BY <1>2, <1>3, <1>4, <1>5, <1>6, <1>7, PopFails
  <1>9. DataOK'
    <2>1. sessions' = WithFlush(sessions, Top.own)
      BY DEF ReturnWithoutAuth, WithFlush
    <2>2. SessionsOK(sessions') /\ DOMAIN sessions' = DOMAIN sessions
      BY <1>5, <2>1, SessionMarked
    <2>3. StackOK(stack', SessionIds, keys)
      BY <1>5, <1>6, PopContext
    <2> QED
      BY <1>1, <1>7, <2>2, <2>3 DEF DataOK, SessionIds
  <1>10. SimpleOK'
    BY <1>1, <1>7, FaultFacts DEF SimpleOK, ReturnWithoutAuth
  <1> QED
    BY <1>8, <1>9, <1>10, Split, PTL

LEMMA UnwindInv ==
  ASSUME IInv, Unwind
  PROVE  IInv'
  <1>1. SimpleOK /\ CallsOK /\ DataOK
    BY Split
  <1>2. rc = "running" /\ err # "none" /\ frames # <<>>
    BY DEF Unwind
  <1>3. Aligned /\ cur \in {Len(frames), Dangling} /\ Len(frames) = Len(stack)
    BY <1>1, <1>2 DEF CallsOK, FailingInv
  <1>4. /\ Level \in Nat \ {0} /\ Level = Len(frames) /\ Level = Len(stack) /\ stack # <<>> /\ Top = stack[Len(stack)]
        /\ StackOK(stack, SessionIds, keys) /\ SessionsOK(sessions)
        /\ Len(SubSeq(stack, 1, Level - 1)) = Level - 1 /\ DOMAIN SubSeq(stack, 1, Level - 1) = 1 .. Level - 1
        /\ Level = 1 => SubSeq(stack, 1, Level - 1) = <<>>
    BY <1>2, <1>3, PopFacts
  <1>5. CASE cur = Dangling \/ FreesTwice
    <2>1. rc' = "crashed" /\ UNCHANGED <<stack, cur, frames, sessions, keys, err, result>>
      BY <1>5 DEF Unwind
    <2>2. DataOK'
      BY <2>1, DataKept
    <2>3. CallsOK'
      BY <1>1, <2>1 DEF CallsOK, IdleInv, RunningInv, FailingInv
    <2>4. SimpleOK'
      BY <1>1, <2>1 DEF SimpleOK, Unwind
    <2> QED
      BY <2>2, <2>3, <2>4, Split, PTL
  <1>6. CASE ~(cur = Dangling \/ FreesTwice)
    <2> DEFINE cs == SubSeq(stack, 1, Level - 1)
    <2>1. /\ keys' = IF CleansUp /\ pending = "none" THEN keys - 1 ELSE keys
          /\ sessions' = IF FlushesSession /\ pending = "none" THEN WithFlush(sessions, Top.session) ELSE sessions
          /\ stack' = IF FlushesSession THEN SharedForgotten(ClearCurrent, Top.session) ELSE ClearCurrent
          /\ cur' = Level - 1 /\ frames' = Front(frames) /\ result' = result
          /\ rc' = (IF Level = 1 THEN "failed" ELSE rc) /\ err' = (IF Level = 1 THEN "none" ELSE "called")
      BY <1>6 DEF Unwind, WithFlush
    <2>2. ClearCurrent = cs
      BY <1>3, <1>4, <1>6 DEF ClearCurrent
    <2>3. StackOK(cs, SessionIds, keys') /\ None \in SessionIds
      <3>1. StackOK(cs, SessionIds, keys) /\ (HasKey(Top) => StackOK(cs, SessionIds, keys - 1))
        BY <1>4, PopContext
      <3>2. CleansUp => HasKey(Top)
        BY DEF CleansUp, Owned, HasKey
      <3> QED
        BY <2>1, <3>1, <3>2 DEF SessionIds
    <2>4. Len(cs) = Level - 1 /\ DOMAIN cs = 1 .. Level - 1 /\ (Level = 1 => cs = <<>>)
      BY <1>4
    <2> HIDE DEF cs
    <2>5. StackOK(stack', SessionIds, keys') /\ Len(stack') = Level - 1 /\ DOMAIN stack' = 1 .. Level - 1
      <3>1. CASE FlushesSession
        <4>1. stack' = SharedForgotten(cs, Top.session)
          BY <2>1, <2>2, <3>1
        <4>2. StackOK(stack', SessionIds, keys') /\ Len(stack') = Len(cs)
          BY <2>3, <4>1, ForgetContext
        <4> QED
          BY <2>4, <4>2 DEF StackOK
      <3>2. CASE ~FlushesSession
        BY <2>1, <2>2, <2>3, <2>4, <3>2
      <3> QED
        BY <3>1, <3>2
    <2>6. Level = 1 => stack' = <<>>
      BY <2>5 DEF StackOK
    <2>7. CallsOK'
      BY <1>2, <1>3, <2>1, <2>5, <2>6, PopFails
    <2>8. SessionsOK(sessions') /\ DOMAIN sessions' = DOMAIN sessions
      BY <1>4, <2>1, SessionMarked
    <2>9. DataOK'
      BY <1>1, <2>1, <2>5, <2>8 DEF DataOK, SessionIds
    <2>10. SimpleOK'
      BY <1>1, <2>1 DEF SimpleOK, Unwind
    <2> QED
      BY <2>7, <2>9, <2>10, Split, PTL
  <1> QED
    BY <1>5, <1>6

LEMMA StutterInv ==
  ASSUME IInv, UNCHANGED vars
  PROVE  IInv'
  <1>1. SimpleOK /\ CallsOK /\ DataOK
    BY Split
  <1>2. SimpleOK'
    BY <1>1 DEF SimpleOK, vars
  <1>3. CallsOK'
    BY <1>1 DEF CallsOK, IdleInv, RunningInv, FailingInv, Aligned, vars
  <1>4. DataOK'
    BY DataKept DEF vars
  <1> QED
    BY <1>2, <1>3, <1>4, Split, PTL

-----------------------------------------------------------------------------
(* The theorem.                                                            *)

LEMMA InitInv == Init => IInv
  <1> SUFFICES ASSUME Init PROVE IInv
    OBVIOUS
  <1>1. SimpleOK
    BY ExecutionAssumption DEF Init, SimpleOK
  <1>2. CallsOK
    BY DEF Init, CallsOK, IdleInv, RunningInv, FailingInv
  <1>3. DataOK
    <2>1. SessionIds = {None} /\ SessionsOK(sessions)
      BY SessionsEmpty DEF Init, SessionIds
    <2> QED
      BY <2>1, StackEmpty DEF Init, DataOK
  <1> QED
    BY <1>1, <1>2, <1>3, Split

LEMMA NextInv == IInv /\ [Next]_vars => IInv'
  BY BeginInv, BeginUnselectedInv, EnterInv, UseSessionInv, CreateSendInv, CreateFinishInv, CreateWaitInv,
     CallbackInv, CallbackWaitsInv, SignsNothingInv, AuthorizeByValueInv, NestInv, NestUnselectedInv,
     ReturnInv, ReturnWithoutAuthInv, SendInv, SendWaitsInv, FinishInv, FinishFailsInv, UnwindInv, StutterInv
  DEF Next

LEMMA InvHolds == Spec => []IInv
  BY InitInv, NextInv, PTL DEF Spec

\* Whatever policies execute one another, and wherever their execution is left with
\* TRY_AGAIN or fails, util_current_policy is the policy whose element is executed,
\* the contexts refer to sessions that were started, no more keys are flushed than
\* were loaded, and no context is left when the authorization has ended
\* (ifapi_policyutil_execute).
THEOREM StackInStep == Spec => []StackInv
  <1>1. IInv => StackInv
    BY DEF IInv, StackInv, CurrentIsExecuting, RunningInv, IdleInv, Executing, Aligned
  <1> QED
    BY <1>1, InvHolds, PTL

=============================================================================
