------------------------- MODULE PolicyCleanupProofs ------------------------
(***************************************************************************)
(* What the execution of a policy leaves behind (PolicyExecution): the     *)
(* keys and the sessions in the TPM, the memory that was freed, and        *)
(* whether parameters are encrypted.                                       *)
(***************************************************************************)
EXTENDS PolicyExecutionProofs

-----------------------------------------------------------------------------
(* The hypotheses, and the invariants.                                     *)

\* No PolicySigned is signed with a keyed hash that has a policy.
SignedByValue ==
    \A x \in Items : x.element.type = "POLICYSIGNED" =>
        \A i \in DOMAIN x.run.steps :
            x.run.steps[i] \in {"authorize", "authorize_nv"} => get_nv_auth_object(x.element.object).policy = <<>>

\* No policy has two PolicyAuthorizeNV.
OneNv(l) ==
    \A i, j \in DOMAIN l :
        l[i].element.type = "POLICYAUTHORIZENV" /\ l[j].element.type = "POLICYAUTHORIZENV" => i = j
NvOnce == \A p \in DOMAIN Lists : \A l \in Lists[p] : OneNv(l)

TypeOf(c) == Head(c.list).element.type
Inner == stack[Len(stack)]

\* A failure is the first one, and a context that was freed is the current one only
\* after a branch could not be selected.
Select == <<"POLICYOR", "select", "called">>
AtInv ==
    /\ Executing => at = Nowhere
    /\ rc = "running" /\ cur = Dangling => at = Select

\* The list of policies is there when the policy found is executed, and what was
\* freed is not looked at again, as long as there is one PolicyAuthorizeNV.
FoundOK(c) ==
    /\ OneNv(c.list) /\ c.found # "broken"
    /\ c.found = "list" => c.list # <<>> /\ StepOf(c) = "sub"
    /\ c.found = "freed" =>
          /\ \A i \in 2 .. Len(c.list) : c.list[i].element.type # "POLICYAUTHORIZENV"
          /\ c.list # <<>> /\ TypeOf(c) = "POLICYAUTHORIZENV" =>
                \E j \in 1 .. c.step - 1 : Head(c.list).run.steps[j] = "sub"
FoundInv == \A i \in DOMAIN stack : FoundOK(stack[i])

\* A context has the handle of a key from the step that loads it to the one that
\* flushes it, in the place from which the clean-up of its element takes it.
KeyOK(c) ==
    /\ HasKey(c) <=> c.list # <<>> /\ LoadedBefore(Head(c.list), c.step)
    /\ HasKey(c) /\ TypeOf(c) = "POLICYSECRET" => c.handle = "key" /\ c.flush
    /\ HasKey(c) /\ TypeOf(c) # "POLICYSECRET" /\ StepOf(c) # "authorize" => c.object = "key"

\* The session of an authorization is held just until the command it is for.
AuthOK(c) ==
    /\ c.auth # None =>
          c.list # <<>> /\ StepOf(c) \in {"Policy", "NV_Read"} /\ TypeOf(c) # "POLICYSIGNED"
    /\ c.nested /\ StepOf(c) # "sub" => get_nv_auth_object(Head(c.list).element.object).policy # <<>>

\* Before a policy has its session nothing has happened.
CallOK(c) ==
    /\ ~c.ready => c.step = 1 /\ ~c.sent /\ c.auth = None /\ ~c.nested /\ c.own = None /\ c.session = None
    /\ c.own # None => c.session \in {c.own, None}
    /\ c.sent => c.list # <<>> /\ StepOf(c) \in Commands

ContextInv == \A i \in DOMAIN stack : KeyOK(stack[i]) /\ AuthOK(stack[i]) /\ CallOK(stack[i])

\* What ESYS has sent is what the innermost policy waits for.
AtSub(i) == StepOf(stack[i - 1]) = "sub"
PendingInv ==
    /\ Executing =>
          \/ pending = "none" /\ create = "INIT" /\ ~Inner.sent
          \/ pending = "command" /\ create = "INIT" /\ Inner.sent
          \/ pending = "session" /\ ~Inner.ready /\ (Len(stack) > 1 => ~AtSub(Len(stack)))
    /\ rc # "crashed" /\ ~Executing => create = "INIT" /\ pending \in {"none", "session"}

\* A failure arose at the step of the innermost context, or in the policy that step
\* executed, or its session could not be created.
FailInv ==
    rc = "running" /\ err # "none" /\ cur # Dangling =>
        LET c == Inner IN
        /\ \A i \in 1 .. Len(stack) - 1 : stack[i].nested
        /\ \/ c.nested /\ err = "called"
           \/ ~c.nested /\ ~c.ready
           \/ /\ ~c.nested /\ c.ready /\ c.list # <<>>
              /\ at = <<TypeOf(c), StepOf(c), err>> /\ err \in Failures(StepOf(c))

\* Sessions are flushed once: no context has the handle of one that was flushed, and a
\* policy that creates its session shares it with none of those below.
FlushInv ==
    /\ \A s \in DOMAIN sessions : sessions[s].flushes <= 1
    /\ rc # "crashed" =>
        /\ \A i \in DOMAIN stack : stack[i].session # None => sessions[stack[i].session].flushes = 0
        /\ \A i, j \in DOMAIN stack : i < j /\ stack[j].own # None => stack[i].session < stack[j].own
        /\ Executing => \A i \in DOMAIN stack : stack[i].own # None => stack[i].session = stack[i].own

\* A policy that another one executes has no session of its own.
OwnInv == \A i \in DOMAIN stack : i > 1 /\ AtSub(i) => stack[i].own = None

\* A session that is there is known to the policy that created it, or to the one it
\* authorizes a command of, or the command it was given to has failed.
SentOut == at # Nowhere /\ at[2] \in {"Policy", "NV_Read"} /\ at[3] = "sent"
Known(s) ==
    \/ \E i \in DOMAIN stack : stack[i].own = s /\ stack[i].session = s
    \/ Executing /\ \E i \in DOMAIN stack : stack[i].auth = s
    \/ sessions[s].used
    \/ rc = "done" /\ s = result
    \/ ~Executing /\ (SentOut \/ SessionLost)
KnownInv == rc # "crashed" => \A s \in DOMAIN sessions : sessions[s].live => Known(s)

\* As many keys are loaded as contexts have one, until a failure loses one.
CountInv ==
    rc # "crashed" => \/ keys = Cardinality(Holders(stack))
                      \/ ~Executing /\ (at \in Unflushed \/ SessionLost)

-----------------------------------------------------------------------------
(* The place of a context.                                                 *)

\* What the order of the steps says of the one a context is at.
LEMMA OrderFacts ==
  ASSUME NEW ids, NEW c, Active(c, ids)
  PROVE  LET x == Head(c.list)
             s == x.run.steps
             i == c.step
         IN /\ x \in Items /\ Len(s) \in Nat \ {0} /\ DOMAIN s = 1 .. Len(s) /\ i \in 1 .. Len(s) /\ i \in Nat
            /\ StepOf(c) = s[i] /\ StepOf(c) \in StepNames
            /\ x.run.owned = IF TypeOf(c) = "POLICYSECRET" THEN "auth" ELSE "object"
            /\ StepOf(c) = "sign" => TypeOf(c) = "POLICYSIGNED"
            /\ StepOf(c) = "search" => i < Len(s) /\ s[i + 1] = "sub"
            /\ StepOf(c) = "search" => TypeOf(c) \in {"POLICYAUTHORIZE", "POLICYAUTHORIZENV"}
            /\ StepOf(c) = "sub" => TypeOf(c) \in {"POLICYAUTHORIZE", "POLICYAUTHORIZENV"}
            /\ StepOf(c) \in {"read_nv", "authorize_nv", "NV_Read", "search", "sub"} => \A j \in 1 .. i - 1 : s[j] # "sub"
            /\ StepOf(c) = "authorize" => i < Len(s) /\ s[i + 1] = "Policy"
            /\ StepOf(c) = "authorize_nv" => i < Len(s) /\ s[i + 1] = "NV_Read"
            /\ StepOf(c) = "load_key" => x.element.object.kind = "key" /\ i < Len(s) /\ s[i + 1] = "authorize"
            /\ StepOf(c) = "LoadExternal" => TypeOf(c) # "POLICYSECRET"
            /\ StepOf(c) \in Loaders => s[Len(s)] = "FlushContext"
            /\ StepOf(c) = "FlushContext" => i = Len(s)
            /\ LoadedBefore(x, i) =>
                  StepOf(c) \in Commands \ Loaders \/ (StepOf(c) = "authorize" /\ x.element.object.kind = "key")
            /\ StepOf(c) = "authorize" /\ x.element.object.kind = "key" =>
                  LoadedBefore(x, i) /\ TypeOf(c) \in {"POLICYSECRET", "POLICYSIGNED"}
            /\ LoadedBefore(x, i) => s[Len(s)] = "FlushContext"
            /\ CleanedUp(x)
  <1> DEFINE x == Head(c.list)
             s == x.run.steps
             i == c.step
  <1>1. /\ x \in Items /\ s \in Seq(StepNames) /\ Len(s) \in Nat \ {0} /\ DOMAIN s = 1 .. Len(s)
        /\ i \in DOMAIN s
    BY ItemFacts DEF Active, Contexts
  <1>2. StepsInOrder(x) /\ CleanedUp(x)
    BY <1>1, OrderAssumption
  <1>3. i \in Nat /\ i \in 1 .. Len(s) /\ StepOf(c) = s[i] /\ StepOf(c) \in StepNames /\ TypeOf(c) = x.element.type
    BY <1>1 DEF StepOf, TypeOf
  <1>4. s[i] = "authorize" /\ x.element.object.kind = "key" => i > 1 /\ s[i - 1] = "load_key"
    BY <1>1, ItemAssumption
  <1> HIDE DEF x, i
  <1>5. LoadedBefore(x, i) => i > 1
    BY <1>3 DEF LoadedBefore
  <1>6. s[i] = "authorize" /\ x.element.object.kind = "key" => LoadedBefore(x, i)
    <2> SUFFICES ASSUME s[i] = "authorize", x.element.object.kind = "key" PROVE LoadedBefore(x, i)
      OBVIOUS
    <2>1. i - 1 \in 1 .. i - 1 /\ s[i - 1] \in Loaders
      BY <1>3, <1>4 DEF Loaders
    <2> QED
      BY <2>1 DEF LoadedBefore
  <1>11. s[i] = "authorize" /\ x.element.object.kind = "key" => x.element.type \in {"POLICYSECRET", "POLICYSIGNED"}
    <2> SUFFICES ASSUME i > 1, s[i - 1] = "load_key" PROVE x.element.type \in {"POLICYSECRET", "POLICYSIGNED"}
      BY <1>4
    <2>1. i - 1 \in DOMAIN s
      BY <1>1, <1>3
    <2> QED
      BY <1>2, <2>1 DEF StepsInOrder
  <1>7. LoadedBefore(x, i) => s[Len(s)] = "FlushContext"
    <2> SUFFICES ASSUME LoadedBefore(x, i) PROVE s[Len(s)] = "FlushContext"
      OBVIOUS
    <2>1. PICK j \in 1 .. i - 1 : s[j] \in Loaders
      BY DEF LoadedBefore
    <2>2. j \in DOMAIN s
      BY <1>1, <1>3, <2>1
    <2> QED
      BY <1>2, <2>1, <2>2 DEF StepsInOrder
  <1>8. /\ x.run.owned = IF x.element.type = "POLICYSECRET" THEN "auth" ELSE "object"
        /\ s[i] = "sign" => x.element.type = "POLICYSIGNED"
        /\ s[i] = "search" => i < Len(s) /\ s[i + 1] = "sub"
        /\ s[i] = "sub" => x.element.type \in {"POLICYAUTHORIZE", "POLICYAUTHORIZENV"}
        /\ s[i] \in {"read_nv", "authorize_nv", "NV_Read", "search", "sub"} => \A j \in 1 .. i - 1 : s[j] # "sub"
        /\ s[i] = "authorize" => i < Len(s) /\ s[i + 1] = "Policy"
        /\ s[i] = "authorize_nv" => i < Len(s) /\ s[i + 1] = "NV_Read"
        /\ s[i] = "load_key" => x.element.object.kind = "key" /\ i < Len(s) /\ s[i + 1] = "authorize"
        /\ s[i] = "LoadExternal" => x.element.type # "POLICYSECRET"
        /\ s[i] \in Loaders => s[Len(s)] = "FlushContext"
        /\ s[i] = "FlushContext" => i = Len(s)
        /\ LoadedBefore(x, i) => s[i] \in Commands \ Loaders \/ s[i - 1] = "load_key"
    BY <1>1, <1>2 DEF StepsInOrder, i
  <1>9. LoadedBefore(x, i) => s[i] \in Commands \ Loaders \/ (s[i] = "authorize" /\ x.element.object.kind = "key")
    <2> SUFFICES ASSUME LoadedBefore(x, i), s[i - 1] = "load_key"
                 PROVE  s[i] = "authorize" /\ x.element.object.kind = "key"
      BY <1>8
    <2>1. i - 1 \in DOMAIN s /\ (i - 1) + 1 = i
      BY <1>1, <1>3, <1>5
    <2> QED
      BY <1>2, <2>1 DEF StepsInOrder
  <1>10. s[i] = "search" => x.element.type \in {"POLICYAUTHORIZE", "POLICYAUTHORIZENV"}
    <2> SUFFICES ASSUME s[i] = "search" PROVE x.element.type \in {"POLICYAUTHORIZE", "POLICYAUTHORIZENV"}
      OBVIOUS
    <2>1. i + 1 \in DOMAIN s /\ s[i + 1] = "sub"
      BY <1>1, <1>3, <1>8
    <2> QED
      BY <1>2, <2>1 DEF StepsInOrder
  <1> HIDE DEF s
  <1> QED
    BY <1>1, <1>2, <1>3, <1>6, <1>7, <1>8, <1>9, <1>10, <1>11 DEF x, i, s

\* Everything but the place, the handles and what is held for the next step.
SameCall(d, c) ==
    d.list = c.list /\ d.step = c.step /\ d.ready = c.ready /\ d.session = c.session /\ d.own = c.own
\* What is held for the next step.
SameHeld(d, c) ==
    d.auth = c.auth /\ d.object = c.object /\ d.handle = c.handle /\ d.flush = c.flush /\ d.found = c.found

\* The next step of the element, or the first one of the next.
Moves(d, c) == d.list = c.list /\ d.step = c.step + 1 /\ d.step \in DOMAIN Head(c.list).run.steps
Leaves(d, c) ==
    /\ d.list = Tail(c.list) /\ d.step = 1
    /\ c.step = Len(Head(c.list).run.steps) \/ (TypeOf(c) = "POLICYSECRET" /\ StepOf(c) = "Policy" /\ ~c.flush)

LEMMA AdvanceTo ==
  ASSUME NEW ids, NEW c, Active(c, ids)
  PROVE  LET d == Advance(c) IN
         /\ ~d.sent /\ ~d.nested /\ d.ready = c.ready /\ d.session = c.session /\ d.own = c.own
         /\ SameHeld(d, c)
         /\ Moves(d, c) \/ Leaves(d, c)
         /\ StepOf(c) \notin {"FlushContext", "Policy"} /\ c.step # Len(Head(c.list).run.steps) => Moves(d, c)
  <1> DEFINE steps == Head(c.list).run.steps
             done == \/ c.step = Len(steps)
                     \/ Head(c.list).element.type = "POLICYSECRET" /\ steps[c.step] = "Policy" /\ ~c.flush
             d == Advance(c)
             next == IF done THEN 1 ELSE c.step + 1
             rest == IF done THEN Tail(c.list) ELSE c.list
  <1>1. c \in Contexts(ids) /\ Len(steps) \in Nat \ {0} /\ DOMAIN steps = 1 .. Len(steps) /\ c.step \in 1 .. Len(steps)
    BY OrderFacts DEF Active
  <1>2. d = [c EXCEPT !.sent = FALSE, !.nested = FALSE, !.step = next, !.list = rest]
    BY <1>1 DEF Advance, Contexts
  <1> HIDE DEF d, done, steps, next, rest
  <1>3. /\ ~d.sent /\ ~d.nested /\ d.ready = c.ready /\ d.session = c.session /\ d.own = c.own
        /\ SameHeld(d, c) /\ d.step = next /\ d.list = rest
    BY <1>1, <1>2 DEF Contexts, SameHeld
  <1>4. CASE done
    BY <1>3, <1>4 DEF next, rest, Leaves, TypeOf, StepOf, done, steps, d
  <1>5. CASE ~done
    <2>1. c.step # Len(steps)
      BY <1>5 DEF done
    <2>2. c.step + 1 \in DOMAIN steps
      BY <1>1, <2>1
    <2> QED
      BY <1>3, <1>5, <2>2 DEF next, rest, Moves, steps, d
  <1> QED
    BY <1>4, <1>5

\* A key is loaded before the next step if it was before this one, or by this one.
LEMMA LoadedNext ==
  ASSUME NEW x, NEW i \in Nat \ {0}
  PROVE  /\ LoadedBefore(x, i + 1) <=> LoadedBefore(x, i) \/ x.run.steps[i] \in Loaders
         /\ ~LoadedBefore(x, 1)
  <1>1. \A j : j \in 1 .. (i + 1) - 1 <=> j \in 1 .. i - 1 \/ j = i
    OBVIOUS
  <1>2. 1 .. 1 - 1 = {}
    OBVIOUS
  <1> QED
    BY <1>1, <1>2 DEF LoadedBefore

\* What a step may do to the handles of the key, the session of an authorization and
\* the list of policies.
KeyDone(e, c) ==
    /\ StepOf(c) = "load_key" => e.handle = "key" /\ e.flush
    /\ StepOf(c) = "LoadExternal" => e.object = "key"
    /\ StepOf(c) = "FlushContext" => ~HasKey(e)
    /\ StepOf(c) \notin Loaders \union {"FlushContext"} =>
          /\ HasKey(e) <=> HasKey(c)
          /\ HasKey(c) => IF TypeOf(c) = "POLICYSECRET" THEN e.handle = "key" /\ e.flush ELSE e.object = "key"
AuthDone(e, c) == e.auth # None => StepOf(c) \in {"authorize", "authorize_nv"} /\ TypeOf(c) # "POLICYSIGNED"
FoundDone(e, c) ==
    \/ e.found = "null"
    \/ e.found = "list" /\ StepOf(c) = "search"
    \/ e.found = "freed" /\ c.found = "freed"
    \/ e.found = "freed" /\ StepOf(c) = "sub" /\ TypeOf(c) = "POLICYAUTHORIZENV"

LEMMA KeyAdvance ==
  ASSUME NEW ids, NEW c, Active(c, ids), KeyOK(c), NEW e \in Contexts(ids), SameCall(e, c), KeyDone(e, c)
  PROVE  KeyOK(Advance(e)) /\ (HasKey(Advance(e)) <=> HasKey(e))
  <1> DEFINE d == Advance(e)
             x == Head(c.list)
  <1>1. Active(e, ids) /\ StepOf(e) = StepOf(c) /\ TypeOf(e) = TypeOf(c) /\ e.list = c.list /\ e.step = c.step
    BY DEF Active, SameCall, StepOf, TypeOf
  <1>2. SameHeld(d, e) /\ (Moves(d, e) \/ Leaves(d, e))
    BY <1>1, AdvanceTo
  <1>3. HasKey(d) <=> HasKey(e)
    BY <1>2 DEF SameHeld, HasKey
  <1> HIDE DEF d
  <1>4. /\ c.step \in Nat \ {0} /\ StepOf(c) = x.run.steps[c.step]
        /\ (StepOf(c) = "load_key" => c.step < Len(x.run.steps) /\ x.run.steps[c.step + 1] = "authorize")
        /\ (StepOf(c) = "LoadExternal" => TypeOf(c) # "POLICYSECRET")
        /\ StepOf(c) \in Loaders => x.run.steps[Len(x.run.steps)] = "FlushContext"
        /\ StepOf(c) = "FlushContext" => c.step = Len(x.run.steps)
        /\ LoadedBefore(x, c.step) => x.run.steps[Len(x.run.steps)] = "FlushContext"
        /\ c.list # <<>> /\ c.step \in 1 .. Len(x.run.steps) /\ Len(x.run.steps) \in Nat
    BY OrderFacts DEF Active
  <1>5. /\ LoadedBefore(x, c.step + 1) <=> LoadedBefore(x, c.step) \/ StepOf(c) \in Loaders
        /\ \A y : ~LoadedBefore(y, 1)
    BY <1>4, LoadedNext
  <1>6. HasKey(c) <=> LoadedBefore(x, c.step)
    BY <1>4 DEF KeyOK
  <1>7. ASSUME Moves(d, e) PROVE KeyOK(d)
    <2>1. d.list = c.list /\ d.list # <<>> /\ d.step = c.step + 1 /\ TypeOf(d) = TypeOf(c) /\ StepOf(d) = x.run.steps[c.step + 1]
          /\ c.step + 1 \in 1 .. Len(x.run.steps)
      <3>1. DOMAIN x.run.steps = 1 .. Len(x.run.steps)
        BY OrderFacts
      <3> QED
        BY <1>1, <1>4, <1>7, <3>1 DEF Moves, TypeOf, StepOf
    <2>2. StepOf(c) # "FlushContext"
      BY <1>4, <2>1
    <2>3. HasKey(d) <=> LoadedBefore(Head(d.list), d.step)
      BY <1>3, <1>5, <1>6, <2>1, <2>2 DEF KeyDone, HasKey, Loaders
    <2>4. CASE StepOf(c) = "load_key"
      <3>1. d.handle = "key" /\ d.flush /\ StepOf(d) = "authorize"
        BY <1>2, <1>4, <2>1, <2>4 DEF KeyDone, SameHeld
      <3> QED
        BY <2>1, <2>3, <3>1 DEF KeyOK
    <2>5. CASE StepOf(c) = "LoadExternal"
      <3>1. d.object = "key" /\ TypeOf(d) # "POLICYSECRET"
        BY <1>2, <1>4, <2>1, <2>5 DEF KeyDone, SameHeld
      <3> QED
        BY <2>1, <2>3, <3>1 DEF KeyOK
    <2>6. CASE StepOf(c) \notin Loaders \union {"FlushContext"}
      <3>1. HasKey(d) => IF TypeOf(d) = "POLICYSECRET" THEN d.handle = "key" /\ d.flush ELSE d.object = "key"
        BY <1>2, <1>3, <2>1, <2>6 DEF KeyDone, SameHeld
      <3> QED
        BY <2>1, <2>3, <3>1 DEF KeyOK
    <2> QED
      BY <2>2, <2>4, <2>5, <2>6 DEF Loaders
  <1>8. ASSUME Leaves(d, e) PROVE KeyOK(d)
    <2>1. d.step = 1 /\ ~HasKey(d)
      <3>1. d.step = 1
        BY <1>8 DEF Leaves
      <3>2. CASE StepOf(c) = "FlushContext"
        BY <1>3, <3>1, <3>2 DEF KeyDone
      <3>3. CASE StepOf(c) # "FlushContext"
        <4>1. ~HasKey(c) \/ (TypeOf(c) = "POLICYSECRET" /\ StepOf(c) = "Policy" /\ ~e.flush)
          BY <1>1, <1>4, <1>6, <1>8, <3>3 DEF Leaves
        <4>2. StepOf(c) \notin Loaders
          BY <1>1, <1>4, <1>8, <3>3 DEF Leaves, Loaders
        <4>3. HasKey(e) <=> HasKey(c)
          BY <3>3, <4>2 DEF KeyDone
        <4>4. HasKey(c) /\ TypeOf(c) = "POLICYSECRET" => e.flush
          BY <3>3, <4>2 DEF KeyDone
        <4> QED
          BY <1>3, <3>1, <4>1, <4>3, <4>4
      <3> QED
        BY <3>2, <3>3
    <2> QED
      BY <1>5, <2>1 DEF KeyOK
  <1> QED
    BY <1>2, <1>3, <1>7, <1>8 DEF d

LEMMA AuthAdvance ==
  ASSUME NEW ids, NEW c, Active(c, ids), NEW e \in Contexts(ids), SameCall(e, c), AuthDone(e, c)
  PROVE  AuthOK(Advance(e))
  <1> DEFINE d == Advance(e)
             x == Head(c.list)
  <1>1. Active(e, ids) /\ StepOf(e) = StepOf(c) /\ TypeOf(e) = TypeOf(c) /\ e.list = c.list /\ e.step = c.step
    BY DEF Active, SameCall, StepOf, TypeOf
  <1>2. d.auth = e.auth /\ ~d.nested /\ (Moves(d, e) \/ Leaves(d, e))
    BY <1>1, AdvanceTo DEF SameHeld
  <1>3. StepOf(c) \in {"authorize", "authorize_nv"} => Moves(d, e)
    <2>1. StepOf(c) \in {"authorize", "authorize_nv"} => c.step # Len(x.run.steps)
      BY OrderFacts
    <2> QED
      BY <1>1, <2>1, AdvanceTo
  <1> HIDE DEF d
  <1>4. CASE d.auth # None
    <2>1. StepOf(c) \in {"authorize", "authorize_nv"} /\ TypeOf(c) # "POLICYSIGNED"
      BY <1>2, <1>4 DEF AuthDone
    <2>2. d.list = c.list /\ d.step = c.step + 1 /\ c.list # <<>>
      BY <1>1, <1>3, <2>1 DEF Moves, Active
    <2>3. x.run.steps[c.step + 1] \in {"Policy", "NV_Read"}
      BY <2>1, OrderFacts
    <2> QED
      BY <1>2, <2>1, <2>2, <2>3 DEF AuthOK, StepOf, TypeOf, d
  <1>5. CASE d.auth = None
    BY <1>2, <1>5 DEF AuthOK, d
  <1> QED
    BY <1>4, <1>5

LEMMA CallAdvance ==
  ASSUME NEW ids, NEW c, Active(c, ids), NEW e \in Contexts(ids), SameCall(e, c), CallOK(c), c.ready
  PROVE  CallOK(Advance(e))
  <1> DEFINE d == Advance(e)
  <1>1. Active(e, ids)
    BY DEF Active, SameCall
  <1>2. ~d.sent /\ d.ready = c.ready /\ d.session = c.session /\ d.own = c.own
    BY <1>1, AdvanceTo DEF SameCall
  <1> HIDE DEF d
  <1> QED
    BY <1>2 DEF CallOK, d

-----------------------------------------------------------------------------
(* What the steps do to their context.                                     *)

ContextOK(c) == KeyOK(c) /\ AuthOK(c) /\ CallOK(c)
Effect(e, c, ids) == e \in Contexts(ids) /\ SameCall(e, c) /\ KeyDone(e, c) /\ AuthDone(e, c)

\* The step is done, and the session stays.
Stepped(d, c) == d.ready = c.ready /\ d.session = c.session /\ d.own = c.own /\ ~d.sent /\ ~d.nested

LEMMA EffectAdvances ==
  ASSUME NEW ids, NEW c, Active(c, ids), ContextOK(c), c.ready, NEW e, Effect(e, c, ids)
  PROVE  /\ ContextOK(Advance(e)) /\ Stepped(Advance(e), c) /\ Advance(e).auth = e.auth
         /\ HasKey(Advance(e)) <=> HasKey(e)
  <1>1. Active(e, ids)
    BY DEF Active, Effect, SameCall
  <1>2. Stepped(Advance(e), c) /\ Advance(e).auth = e.auth
    BY <1>1, AdvanceTo DEF Stepped, Effect, SameCall, SameHeld
  <1>3. KeyOK(Advance(e)) /\ (HasKey(Advance(e)) <=> HasKey(e)) /\ AuthOK(Advance(e)) /\ CallOK(Advance(e))
    BY KeyAdvance, AuthAdvance, CallAdvance DEF Effect, ContextOK
  <1> QED
    BY <1>2, <1>3 DEF ContextOK

\* What is held before a step that is neither a command nor an authorization.
LEMMA NothingHeld ==
  ASSUME NEW ids, NEW c, Active(c, ids), ContextOK(c)
  PROVE  /\ StepOf(c) \notin {"Policy", "NV_Read"} => c.auth = None
         /\ StepOf(c) \notin (Commands \ Loaders) \union {"authorize"} => ~HasKey(c)
         /\ StepOf(c) = "authorize" => (HasKey(c) <=> Head(c.list).element.object.kind = "key")
  <1> DEFINE x == Head(c.list)
  <1>1. /\ LoadedBefore(x, c.step) =>
              StepOf(c) \in Commands \ Loaders \/ (StepOf(c) = "authorize" /\ x.element.object.kind = "key")
        /\ StepOf(c) = "authorize" /\ x.element.object.kind = "key" => LoadedBefore(x, c.step)
    BY OrderFacts
  <1>2. HasKey(c) <=> LoadedBefore(x, c.step)
    BY DEF ContextOK, KeyOK, Active
  <1>3. "authorize" \notin Commands
    BY DEF Commands
  <1>4. StepOf(c) \notin {"Policy", "NV_Read"} => c.auth = None
    BY DEF ContextOK, AuthOK
  <1> QED
    BY <1>1, <1>2, <1>3, <1>4

CalledBack(c) ==
    CASE StepOf(c) = "build" -> Built(c)
      [] StepOf(c) = "sign" -> Signed(c)
      [] StepOf(c) = "load_key" -> Loaded(c)
      [] StepOf(c) = "search" -> Found(c)
      [] OTHER -> c

LEMMA CalledBackFacts ==
  ASSUME NEW ids, NEW c \in Contexts(ids)
  PROVE  LET e == CalledBack(c) IN
         /\ e \in Contexts(ids) /\ SameCall(e, c) /\ e.auth = c.auth
         /\ StepOf(c) = "load_key" => e.handle = "key" /\ e.flush
         /\ StepOf(c) # "load_key" => e.object \in {"none", c.object} /\ e.handle = c.handle
         /\ e.found = IF StepOf(c) # "search" THEN c.found
                      ELSE IF TypeOf(c) = "POLICYAUTHORIZE" \/ c.found = "null" THEN "list" ELSE "broken"
  <1> DEFINE e == CalledBack(c)
  <1>1. CASE StepOf(c) = "load_key"
    <2>1. e = Loaded(c)
      BY <1>1 DEF CalledBack
    <2>2. e \in Contexts(ids) /\ SameCall(e, c) /\ e.handle = "key" /\ e.flush /\ e.auth = c.auth /\ e.found = c.found
      BY <2>1 DEF Loaded, Contexts, HandleKinds, SameCall
    <2> QED
      BY <1>1, <2>2
  <1>2. CASE StepOf(c) = "build"
    <2>1. e = Built(c)
      BY <1>2 DEF CalledBack
    <2>2. /\ e \in Contexts(ids) /\ SameCall(e, c) /\ e.auth = c.auth /\ e.found = c.found
          /\ e.object = "none" /\ e.handle = c.handle
      BY <2>1 DEF Built, Contexts, HandleKinds, SameCall
    <2> QED
      BY <1>2, <2>2
  <1>3. CASE StepOf(c) = "sign"
    <2>1. e = Signed(c)
      BY <1>3 DEF CalledBack
    <2>2. /\ e \in Contexts(ids) /\ SameCall(e, c) /\ e.auth = c.auth /\ e.found = c.found
          /\ e.object = c.object /\ e.handle = c.handle
      BY <2>1 DEF Signed, Contexts, SameCall
    <2> QED
      BY <1>3, <2>2
  <1>4. CASE StepOf(c) = "search"
    <2> DEFINE f == [c EXCEPT !.found = "list", !.object = "none"]
               g == [c EXCEPT !.found = "list"]
               h == [c EXCEPT !.found = "broken"]
    <2>1. /\ f \in Contexts(ids) /\ SameCall(f, c) /\ f.auth = c.auth /\ f.found = "list" /\ f.object = "none" /\ f.handle = c.handle
          /\ g \in Contexts(ids) /\ SameCall(g, c) /\ g.auth = c.auth /\ g.found = "list" /\ g.object = c.object /\ g.handle = c.handle
          /\ h \in Contexts(ids) /\ SameCall(h, c) /\ h.auth = c.auth /\ h.found = "broken" /\ h.object = c.object /\ h.handle = c.handle
      BY DEF Contexts, HandleKinds, SameCall
    <2>2. e = IF TypeOf(c) = "POLICYAUTHORIZE" THEN f ELSE IF c.found = "null" THEN g ELSE h
      BY <1>4 DEF CalledBack, Found, TypeOf
    <2> HIDE DEF e, f, g, h
    <2> QED
      BY <1>4, <2>1, <2>2 DEF e
  <1>5. CASE StepOf(c) \notin {"build", "sign", "load_key", "search"}
    <2>1. e = c
      BY <1>5 DEF CalledBack
    <2> QED
      BY <1>5, <2>1 DEF SameCall
  <1> QED
    BY <1>1, <1>2, <1>3, <1>4, <1>5

LEMMA CalledBackEffect ==
  ASSUME NEW ids, NEW c, Active(c, ids), ContextOK(c), StepOf(c) \in Callbacks
  PROVE  /\ Effect(CalledBack(c), c, ids) /\ CalledBack(c).auth = None /\ c.auth = None /\ ~HasKey(c)
         /\ HasKey(CalledBack(c)) <=> StepOf(c) = "load_key"
  <1> DEFINE e == CalledBack(c)
  <1>1. c \in Contexts(ids) /\ c.auth = None /\ ~HasKey(c)
    BY NothingHeld DEF Active, Callbacks, Commands
  <1>2. StepOf(c) \notin {"LoadExternal", "FlushContext"}
    BY DEF Callbacks
  <1>3. /\ e \in Contexts(ids) /\ SameCall(e, c) /\ e.auth = c.auth
        /\ StepOf(c) = "load_key" => e.handle = "key" /\ e.flush
        /\ StepOf(c) # "load_key" => e.object \in {"none", c.object} /\ e.handle = c.handle
    BY <1>1, CalledBackFacts
  <1> HIDE DEF e
  <1> QED
    BY <1>1, <1>2, <1>3 DEF Effect, KeyDone, AuthDone, HasKey, Loaders, e

\* The session s authorizes the next command.
AuthorizedBy(c, s) == [(IF StepOf(c) = "authorize" THEN Handles(c) ELSE c) EXCEPT !.auth = s]

LEMMA AuthorizedByFacts ==
  ASSUME NEW ids, NEW c, Active(c, ids), NEW s \in ids, StepOf(c) \in {"authorize", "authorize_nv"}
  PROVE  LET e == AuthorizedBy(c, s) IN
         /\ Authorized(c, s) = Advance(e) /\ e \in Contexts(ids) /\ SameCall(e, c) /\ e.auth = s
         /\ e.flush = c.flush /\ e.found = c.found
         /\ StepOf(c) = "authorize" =>
               /\ e.object = "key" <=> Head(c.list).element.object.kind = "key"
               /\ e.handle = "key" <=> Head(c.list).element.object.kind = "key"
         /\ StepOf(c) # "authorize" => SameHandles(e, c)
  <1> DEFINE e == AuthorizedBy(c, s)
             o == Head(c.list).element.object
             a == IF o.kind = "nvOwner" THEN "nv" ELSE o.kind
             b == get_nv_auth_object(o).kind
             h == Handles(c)
  <1>1. Authorized(c, s) = Advance(e)
    BY DEF Authorized, AuthorizedBy, StepOf
  <1>2. c \in Contexts(ids) /\ Head(c.list) \in Items
    BY OrderFacts DEF Active
  <1>3. o.kind \in {"hierarchy", "key", "nv", "nvOwner"}
    BY <1>2, ItemAssumption DEF Active, StepOf
  <1>4. a \in HandleKinds /\ b \in HandleKinds /\ (a = "key" <=> o.kind = "key") /\ (b = "key" <=> o.kind = "key")
    BY <1>3 DEF get_nv_auth_object, HandleKinds
  <1>5. h = [c EXCEPT !.object = a, !.handle = b]
    BY DEF Handles
  <1> HIDE DEF a, b, h, o
  <1>6. h \in Contexts(ids) /\ SameCall(h, c) /\ h.object = a /\ h.handle = b /\ h.flush = c.flush /\ h.found = c.found
    BY <1>2, <1>4, <1>5 DEF Contexts, SameCall
  <1>7. CASE StepOf(c) = "authorize"
    <2>1. e = [h EXCEPT !.auth = s]
      BY <1>7 DEF AuthorizedBy, h
    <2>2. /\ e \in Contexts(ids) /\ SameCall(e, c) /\ e.object = a /\ e.handle = b /\ e.flush = c.flush /\ e.auth = s
          /\ e.found = c.found
      BY <1>6, <2>1 DEF Contexts, SameCall
    <2> HIDE DEF e
    <2> QED
      BY <1>1, <1>4, <1>7, <2>2 DEF e, o
  <1>8. CASE StepOf(c) # "authorize"
    <2>1. e = [c EXCEPT !.auth = s]
      BY <1>8 DEF AuthorizedBy
    <2>2. e \in Contexts(ids) /\ SameCall(e, c) /\ SameHandles(e, c) /\ e.auth = s /\ e.found = c.found /\ e.flush = c.flush
      BY <1>2, <2>1 DEF Contexts, SameCall, SameHandles
    <2> HIDE DEF e
    <2> QED
      BY <1>1, <1>8, <2>2 DEF e
  <1> QED
    BY <1>7, <1>8

LEMMA AuthorizedEffect ==
  ASSUME NEW ids, NEW c, Active(c, ids), ContextOK(c), NEW s \in ids, s # None => TypeOf(c) # "POLICYSIGNED",
         StepOf(c) \in {"authorize", "authorize_nv"}
  PROVE  LET e == AuthorizedBy(c, s) IN
         /\ Authorized(c, s) = Advance(e) /\ Effect(e, c, ids) /\ e.auth = s /\ c.auth = None
         /\ HasKey(e) <=> HasKey(c)
  <1> DEFINE e == AuthorizedBy(c, s)
             o == Head(c.list).element.object
  <1>1. /\ Authorized(c, s) = Advance(e) /\ e \in Contexts(ids) /\ SameCall(e, c) /\ e.auth = s /\ e.flush = c.flush
        /\ StepOf(c) = "authorize" => (e.object = "key" <=> o.kind = "key") /\ (e.handle = "key" <=> o.kind = "key")
        /\ StepOf(c) # "authorize" => SameHandles(e, c)
    BY AuthorizedByFacts
  <1>2. c.auth = None
    BY NothingHeld
  <1>3. StepOf(c) = "authorize" => (HasKey(c) <=> o.kind = "key")
    BY NothingHeld
  <1>4. StepOf(c) # "authorize" => ~HasKey(c)
    BY NothingHeld DEF Commands
  <1>5. HasKey(c) /\ TypeOf(c) = "POLICYSECRET" => c.flush
    BY DEF ContextOK, KeyOK
  <1> HIDE DEF e, o
  <1>6. (HasKey(e) <=> HasKey(c)) /\ (HasKey(c) => e.object = "key" /\ e.handle = "key")
    BY <1>1, <1>3, <1>4 DEF HasKey, SameHandles
  <1>7. Effect(e, c, ids)
    BY <1>1, <1>5, <1>6 DEF Effect, KeyDone, AuthDone, Loaders
  <1> QED
    BY <1>1, <1>2, <1>6, <1>7 DEF e

\* The policy that was executed is done with its list.
ExecutedBy(c) == [c EXCEPT !.found = IF Head(c.list).element.type = "POLICYAUTHORIZE" THEN "null" ELSE "freed"]

LEMMA ExecutedByFacts ==
  ASSUME NEW ids, NEW c \in Contexts(ids)
  PROVE  LET e == ExecutedBy(c) IN
         /\ Executed(c) = Advance(e) /\ e \in Contexts(ids) /\ SameCall(e, c) /\ SameHandles(e, c) /\ e.auth = c.auth
         /\ e.found = IF TypeOf(c) = "POLICYAUTHORIZE" THEN "null" ELSE "freed"
  <1> DEFINE e == ExecutedBy(c)
             f == IF Head(c.list).element.type = "POLICYAUTHORIZE" THEN "null" ELSE "freed"
  <1>1. Executed(c) = Advance(e) /\ e = [c EXCEPT !.found = f]
    BY DEF Executed, ExecutedBy
  <1>2. f \in {"null", "freed"} /\ f = IF TypeOf(c) = "POLICYAUTHORIZE" THEN "null" ELSE "freed"
    BY DEF TypeOf
  <1> HIDE DEF f
  <1>3. e \in Contexts(ids) /\ SameCall(e, c) /\ SameHandles(e, c) /\ e.auth = c.auth /\ e.found = f
    BY <1>1, <1>2 DEF Contexts, SameCall, SameHandles
  <1> HIDE DEF e
  <1> QED
    BY <1>1, <1>2, <1>3 DEF e

LEMMA ExecutedEffect ==
  ASSUME NEW ids, NEW c, Active(c, ids), ContextOK(c), StepOf(c) = "sub"
  PROVE  LET e == ExecutedBy(c) IN
         /\ Executed(c) = Advance(e) /\ Effect(e, c, ids) /\ e.auth = None /\ c.auth = None
         /\ HasKey(e) <=> HasKey(c)
  <1> DEFINE e == ExecutedBy(c)
  <1>1. c \in Contexts(ids) /\ c.auth = None /\ ~HasKey(c)
    BY NothingHeld DEF Active, Commands
  <1>2. Executed(c) = Advance(e) /\ e \in Contexts(ids) /\ SameCall(e, c) /\ SameHandles(e, c) /\ e.auth = c.auth
    BY <1>1, ExecutedByFacts
  <1> HIDE DEF e
  <1>3. HasKey(e) <=> HasKey(c)
    BY <1>2 DEF HasKey, SameHandles
  <1>4. Effect(e, c, ids)
    BY <1>1, <1>2, <1>3 DEF Effect, KeyDone, AuthDone, Loaders
  <1> QED
    BY <1>1, <1>2, <1>3, <1>4 DEF e

\* The answer to a command.
LEMMA AnsweredByFacts ==
  ASSUME IInv, InElement
  PROVE  LET e == Answered(Top) IN
         /\ e \in Contexts(SessionIds) /\ SameCall(e, Top) /\ e.found = Top.found
         /\ e.auth = IF Step \notin {"LoadExternal", "FlushContext"} /\ UsesAuth THEN None ELSE Top.auth
         /\ Step = "LoadExternal" => e.object = "key"
         /\ Step = "FlushContext" => ~HasKey(e)
         /\ Step \notin {"LoadExternal", "FlushContext"} => SameHandles(e, Top) /\ e.flush = Top.flush
  <1> DEFINE c == Top
             e == Answered(Top)
             l == KeyLoaded(Top)
             a == [Top EXCEPT !.auth = None]
  <1>1. c \in Contexts(SessionIds) /\ None \in SessionIds
    BY InElementFacts DEF SessionIds
  <1>2. CASE Step = "LoadExternal"
    <2>1. e = l
      BY <1>2 DEF Answered, UsesAuth
    <2>2. l \in Contexts(SessionIds) /\ SameCall(l, c) /\ l.object = "key" /\ l.auth = c.auth /\ l.found = c.found
      BY <1>1 DEF KeyLoaded, Contexts, SameCall, HandleKinds
    <2> HIDE DEF e, l
    <2> QED
      BY <1>2, <2>1, <2>2 DEF e
  <1>3. CASE Step = "FlushContext"
    <2>1. e = Disowned(c)
      BY <1>3 DEF Answered, UsesAuth
    <2>2. e \in Contexts(SessionIds) /\ ~HasKey(e)
      BY <1>1, <2>1, DisownedFacts
    <2>3. SameCall(e, c) /\ e.auth = c.auth /\ e.found = c.found
      <3> DEFINE d1 == [c EXCEPT !.object = "none", !.handle = Stale(c.handle)]
                 d2 == [c EXCEPT !.handle = "none", !.object = Stale(c.object)]
      <3>1. SameCall(d1, c) /\ d1.auth = c.auth /\ d1.found = c.found /\ SameCall(d2, c) /\ d2.auth = c.auth /\ d2.found = c.found
        <4> HIDE DEF c
        <4> QED
          BY <1>1 DEF Contexts, SameCall
      <3>2. e \in {d1, d2}
        BY <1>1, <2>1 DEF Disowned, Contexts
      <3> HIDE DEF d1, d2, e
      <3> QED
        BY <3>1, <3>2
    <2> HIDE DEF e
    <2> QED
      BY <1>3, <2>2, <2>3 DEF e
  <1>4. CASE Step \notin {"LoadExternal", "FlushContext"}
    <2>1. e = (IF UsesAuth THEN a ELSE c)
      BY <1>4 DEF Answered
    <2>2. a \in Contexts(SessionIds) /\ SameCall(a, c) /\ SameHandles(a, c) /\ a.auth = None /\ a.flush = c.flush /\ a.found = c.found
      BY <1>1 DEF Contexts, SameCall, SameHandles
    <2>3. SameCall(c, c) /\ SameHandles(c, c)
      BY DEF SameCall, SameHandles
    <2> HIDE DEF e, a
    <2> QED
      BY <1>1, <1>4, <2>1, <2>2, <2>3 DEF e
  <1> QED
    BY <1>2, <1>3, <1>4

LEMMA AnsweredEffect ==
  ASSUME IInv, InElement, ContextOK(Top), Step \in Commands, Accepted
  PROVE  LET e == Answered(Top) IN
         /\ Effect(e, Top, SessionIds) /\ e.auth = None /\ (Top.auth # None => UsesAuth)
         /\ Step = "LoadExternal" => ~HasKey(Top) /\ HasKey(e)
         /\ Step = "FlushContext" => HasKey(Top) /\ ~HasKey(e)
         /\ Step \notin {"LoadExternal", "FlushContext"} => (HasKey(e) <=> HasKey(Top))
  <1> DEFINE c == Top
             e == Answered(Top)
  <1>1. Active(c, SessionIds) /\ StepOf(c) = Step /\ TypeOf(c) = Type
    BY InElementFacts DEF TypeOf, Type, Item
  <1>2. /\ e \in Contexts(SessionIds) /\ SameCall(e, c)
        /\ e.auth = (IF Step \notin {"LoadExternal", "FlushContext"} /\ UsesAuth THEN None ELSE c.auth)
        /\ Step = "LoadExternal" => e.object = "key"
        /\ Step = "FlushContext" => ~HasKey(e)
        /\ Step \notin {"LoadExternal", "FlushContext"} => SameHandles(e, c) /\ e.flush = c.flush
    BY AnsweredByFacts
  <1>3. Step \notin {"Policy", "NV_Read"} => c.auth = None
    BY <1>1, NothingHeld
  <1>4. Step \in Loaders => ~HasKey(c)
    BY <1>1, NothingHeld DEF Loaders
  <1>5. c.auth # None => UsesAuth
    BY <1>1 DEF ContextOK, AuthOK, UsesAuth
  <1>6. Step # "load_key" /\ Step # "authorize"
    BY DEF Commands
  <1>7. Step = "FlushContext" => HasKey(c)
    BY DEF Accepted, Owned, HasKey
  <1>8. HasKey(c) => IF TypeOf(c) = "POLICYSECRET" THEN c.handle = "key" /\ c.flush ELSE c.object = "key"
    BY <1>1, <1>6 DEF ContextOK, KeyOK
  <1> HIDE DEF e, c
  <1>9. e.auth = None
    BY <1>2, <1>3, <1>5
  <1>10. Step \notin {"LoadExternal", "FlushContext"} =>
           /\ HasKey(e) <=> HasKey(c)
           /\ HasKey(c) => IF TypeOf(c) = "POLICYSECRET" THEN e.handle = "key" /\ e.flush ELSE e.object = "key"
    BY <1>2, <1>8 DEF SameHandles, HasKey
  <1>11. Effect(e, c, SessionIds)
    BY <1>1, <1>2, <1>6, <1>9, <1>10 DEF Effect, KeyDone, AuthDone, Loaders
  <1>12. Step = "LoadExternal" => HasKey(e)
    BY <1>2 DEF HasKey
  <1> QED
    BY <1>2, <1>4, <1>5, <1>7, <1>9, <1>10, <1>11, <1>12 DEF e, c, Loaders

-----------------------------------------------------------------------------
(* Where a failure arose.                                                  *)

\* The innermost policy is executing.
LEMMA InnerFacts ==
  ASSUME IInv, Innermost
  PROVE  /\ rc = "running" /\ err = "none" /\ Executing /\ frames # <<>> /\ ~Top.nested
         /\ Level = Len(stack) /\ Len(stack) \in Nat \ {0} /\ DOMAIN stack = 1 .. Len(stack)
         /\ Inner = Top /\ Top \in Contexts(SessionIds) /\ AtStep(Top)
         /\ stack \in Seq(Contexts(SessionIds)) /\ cur = Len(stack) /\ cur # Dangling
         /\ \A i \in DOMAIN stack : i < Len(stack) => stack[i].nested
  <1>1. rc = "running" /\ err = "none" /\ Executing /\ frames # <<>> /\ ~Top.nested
    BY DEF Innermost, Executing
  <1>2. /\ Level = Len(stack) /\ Len(stack) \in Nat \ {0} /\ DOMAIN stack = 1 .. Len(stack)
        /\ Top \in Contexts(SessionIds) /\ AtStep(Top) /\ cur = Level
    BY <1>1, LevelFacts
  <1>3. stack \in Seq(Contexts(SessionIds)) /\ \A i \in DOMAIN stack : i < Len(stack) => stack[i].nested
    BY <1>1 DEF IInv, TypeOK, RunningInv
  <1> QED
    BY <1>1, <1>2, <1>3 DEF Inner, Top, Dangling

\* util_current_policy is there unless a failure made it dangle.
LEMMA CurrentThere == IInv /\ rc = "running" /\ err = "none" => cur # Dangling /\ cur \in Nat
  BY DEF IInv, RunningInv, Dangling, TypeOK

LEMMA CurrentThereNext ==
  ASSUME IInv', rc' = "running", err' = "none"
  PROVE  cur' # Dangling
  BY DEF IInv, RunningInv, Dangling, TypeOK

\* A step without a failure leaves at as it is.
LEMMA AtKept ==
  ASSUME IInv', AtInv, Executing, UNCHANGED <<at, err>>, rc' \in {rc, "done", "failed", "crashed"}
  PROVE  AtInv'
  <1>1. rc = "running" /\ err = "none" /\ at = Nowhere
    BY DEF Executing, AtInv
  <1>2. rc' = "running" => cur' # Dangling
    BY <1>1, CurrentThereNext
  <1> QED
    BY <1>1, <1>2 DEF AtInv, Executing

\* A step fails.
LEMMA AtFails ==
  ASSUME IInv, Executing, err' # "none", cur' # Dangling \/ at' = Select
  PROVE  AtInv'
  BY DEF AtInv, Executing

LEMMA AtNext ==
  ASSUME IInv, IInv', AtInv, [Next]_vars
  PROVE  AtInv'
  <1>1. Executing => cur # Dangling /\ at = Nowhere
    BY CurrentThere DEF Executing, AtInv
  <1>2. CASE Begin
    <2>1. at' = Nowhere /\ cur' # Dangling
      BY <1>2 DEF Begin, Dangling
    <2> QED
      BY <2>1 DEF AtInv
  <1>3. CASE BeginUnselected
    BY <1>3 DEF BeginUnselected, AtInv, Executing
  <1>4. CASE Enter
    <2>1. Executing /\ rc' = rc
      BY <1>4 DEF Enter
    <2>2. CASE err' = err /\ at' = at
      BY <2>1, <2>2, AtKept
    <2>3. CASE err' = "called"
      <3>1. cur \in Nat
        BY <2>1, CurrentThere DEF Executing
      <3>2. cur' # Dangling
        <4>1. cur' \in {cur + 1, 0}
          BY <1>4 DEF Enter
        <4> QED
          BY <3>1, <4>1 DEF Dangling
      <3> QED
        BY <2>1, <2>3, <3>2, AtFails
    <2> QED
      BY <1>4, <2>2, <2>3 DEF Enter, FailsAt
  <1>5. CASE UseSession
    BY <1>5, AtKept DEF UseSession, Unready
  <1>6. CASE create_session_send
    <2>1. Executing /\ rc' = rc
      BY <1>6 DEF create_session_send, Unready
    <2>2. CASE pending = "none"
      BY <1>6, <2>1, <2>2, AtKept DEF create_session_send
    <2>3. CASE pending # "none"
      BY <1>1, <1>6, <2>1, <2>3, AtFails DEF create_session_send, FailsAt
    <2> QED
      BY <2>2, <2>3
  <1>7. CASE create_session_finish
    <2>1. Executing /\ rc' = rc /\ cur' = cur
      BY <1>7 DEF create_session_finish, Unready
    <2>2. CASE UNCHANGED <<err, at>>
      BY <2>1, <2>2, AtKept
    <2>3. CASE err' = "create"
      BY <1>1, <2>1, <2>3, AtFails
    <2> QED
      BY <1>7, <2>2, <2>3 DEF create_session_finish, FailsAt
  <1>8. CASE create_session_wait
    BY <1>8, AtKept DEF create_session_wait, Unready
  <1>9. CASE Callback \/ AuthorizeByValue \/ Send
    <2>1. Executing /\ rc' = rc /\ cur' = cur
      BY <1>9 DEF Callback, AuthorizeByValue, Send, InElement
    <2>2. CASE UNCHANGED <<err, at>>
      BY <2>1, <2>2, AtKept
    <2>3. CASE err' # "none"
      BY <1>1, <2>1, <2>3, AtFails
    <2> QED
      BY <1>9, <2>2, <2>3 DEF Callback, AuthorizeByValue, Send, Fails, FailsAt
  <1>10. CASE CallbackWaits \/ SendWaits \/ Nest \/ Finish
    BY <1>10, AtKept DEF CallbackWaits, SendWaits, Nest, Finish, InElement
  <1>11. CASE SignsNothing
    BY <1>11 DEF SignsNothing, AtInv, Executing
  <1>12. CASE NestUnselected
    <2>1. Executing /\ err' = "called" /\ at' = Select
      BY <1>1, <1>12 DEF NestUnselected, InElement, FailsAt, Select
    <2> QED
      BY <2>1, AtFails
  <1>13. CASE Return
    <2>1. Executing /\ UNCHANGED <<at, err>> /\ rc' \in {rc, "done", "failed", "crashed"}
      BY <1>13 DEF Return
    <2> QED
      BY <2>1, AtKept
  <1>14. CASE ReturnWithoutAuth
    <2>1. Executing /\ frames # <<>>
      BY <1>14 DEF ReturnWithoutAuth
    <2>2. Level \in Nat \ {0}
      BY <2>1, LevelFacts
    <2>3. cur' # Dangling /\ ~Executing'
      BY <1>14, <2>2 DEF ReturnWithoutAuth, FailsAt, Dangling, Executing
    <2> QED
      BY <2>3 DEF AtInv
  <1>15. CASE FinishFails
    BY <1>1, <1>15, AtFails DEF FinishFails, InElement, Fails, FailsAt
  <1>16. CASE Unwind
    <2>1. rc = "running" /\ err # "none" /\ frames # <<>> /\ at' = at
      BY <1>16 DEF Unwind
    <2>2. CASE rc' = "crashed"
      BY <2>2 DEF AtInv, Executing
    <2>3. CASE rc' # "crashed"
      <3>1. cur' = Level - 1 /\ ~Executing'
        BY <1>16, <2>1, <2>3 DEF Unwind, Executing
      <3>2. Level \in Nat \ {0}
        BY <2>1, PopFacts DEF IInv, FailingInv
      <3>3. cur' # Dangling
        BY <3>1, <3>2 DEF Dangling
      <3> QED
        BY <3>1, <3>3 DEF AtInv
    <2> QED
      BY <2>2, <2>3
  <1>17. CASE UNCHANGED vars
    BY <1>17 DEF AtInv, Executing, vars
  <1> QED
    BY <1>2, <1>3, <1>4, <1>5, <1>6, <1>7, <1>8, <1>9, <1>10, <1>11, <1>12, <1>13, <1>14, <1>15, <1>16, <1>17 DEF Next

-----------------------------------------------------------------------------
(* How the actions change the stack.                                       *)

LEMMA UpdateFacts ==
  ASSUME IInv, Innermost, NEW d, Update(d)
  PROVE  /\ Len(stack') = Len(stack) /\ DOMAIN stack' = DOMAIN stack /\ stack'[Len(stack)] = d /\ Inner' = d
         /\ \A i \in DOMAIN stack : i < Len(stack) => stack'[i] = stack[i]
         /\ \A i \in DOMAIN stack : i < Len(stack) \/ i = Len(stack)
  <1>1. /\ Level = Len(stack) /\ Len(stack) \in Nat \ {0} /\ DOMAIN stack = 1 .. Len(stack)
        /\ stack \in Seq(Contexts(SessionIds)) /\ stack' = [stack EXCEPT ![Level] = d]
    BY InnerFacts DEF Update
  <1>2. DOMAIN stack' = DOMAIN stack /\ Len(stack') = Len(stack)
    BY <1>1
  <1>3. stack'[Len(stack)] = d /\ \A i \in DOMAIN stack : i < Len(stack) => stack'[i] = stack[i]
    BY <1>1
  <1> QED
    BY <1>1, <1>2, <1>3 DEF Inner

LEMMA BeginFacts ==
  ASSUME IInv, Begin
  PROVE  \E list \in Lists[policy] :
            /\ list \in Seq(Items) /\ policy \in DOMAIN Lists
            /\ Len(stack') = 1 /\ DOMAIN stack' = {1} /\ stack'[1] = NewContext(list) /\ Inner' = NewContext(list)
  <1>1. PICK list \in Lists[policy] : stack' = <<NewContext(list)>>
    BY DEF Begin
  <1>2. list \in Seq(Items) /\ policy \in DOMAIN Lists
    BY <1>1, ExecutionAssumption DEF IInv, TypeOK
  <1> DEFINE x == NewContext(list)
  <1> HIDE DEF x
  <1>3. stack' = <<x>>
    BY <1>1 DEF x
  <1>4. Len(stack') = 1 /\ DOMAIN stack' = {1} /\ stack'[1] = x /\ Inner' = x
    BY <1>3 DEF Inner
  <1> QED
    BY <1>2, <1>4 DEF x

Nested(c) == [c EXCEPT !.nested = TRUE]

LEMMA NestFacts ==
  ASSUME IInv, Nest
  PROVE  /\ Innermost /\ InElement /\ NeedsPolicy
         /\ \E list \in Lists[AuthPolicy] :
              /\ list \in Seq(Items) /\ AuthPolicy \in DOMAIN Lists
              /\ Len(stack') = Len(stack) + 1 /\ DOMAIN stack' = 1 .. Len(stack) + 1
              /\ stack'[Len(stack) + 1] = NewContext(list) /\ Inner' = NewContext(list)
              /\ stack'[Len(stack)] = Nested(Top)
              /\ \A i \in DOMAIN stack : i < Len(stack) => stack'[i] = stack[i]
  <1>1. InElement /\ NeedsPolicy /\ Innermost
    BY InElementFacts DEF Nest
  <1>2. /\ Level = Len(stack) /\ cur = Level /\ Len(stack) \in Nat \ {0} /\ DOMAIN stack = 1 .. Len(stack)
        /\ stack \in Seq(Contexts(SessionIds)) /\ Top \in Contexts(SessionIds)
    BY <1>1, InnerFacts
  <1>3. PICK list \in Lists[AuthPolicy] : stack' = [new_policy(list) EXCEPT ![Level].nested = TRUE]
    BY DEF Nest
  <1>4. list \in Seq(Items)
    BY <1>1, <1>3, NestedLists
  <1>5. AuthPolicy \in DOMAIN Lists
    <2>1. Item \in Items /\ Top.step \in DOMAIN Item.run.steps /\ Step = Item.run.steps[Top.step]
      BY <1>1, InElementFacts DEF Step
    <2>2. CASE Step = "sub"
      BY <2>1, <2>2, ItemAssumption DEF AuthPolicy
    <2>3. CASE Step # "sub"
      BY <1>1, <2>1, <2>3, ItemAssumption DEF AuthPolicy, NeedsPolicy, Object
    <2> QED
      BY <2>2, <2>3
  <1> DEFINE x == NewContext(list)
             cs == Append(stack, x)
             n == Len(stack)
             d == Nested(Top)
  <1>6. x \in Contexts(SessionIds) /\ None \in SessionIds
    BY <1>4, NewContextFacts DEF SessionIds
  <1>7. d \in Contexts(SessionIds)
    BY <1>2 DEF Contexts, Nested
  <1>8. new_policy(list) = cs
    <2>1. SubSeq(stack, 1, Len(stack)) = stack
      BY <1>2
    <2> QED
      BY <1>2, <2>1 DEF new_policy
  <1> HIDE DEF x
  <1>9. /\ cs \in Seq(Contexts(SessionIds)) /\ Len(cs) = n + 1 /\ DOMAIN cs = 1 .. n + 1
        /\ \A i \in 1 .. n : cs[i] = stack[i]
        /\ cs[n + 1] = x
    BY <1>2, <1>6, AppendFacts
  <1>10. stack' = [cs EXCEPT ![n].nested = TRUE] /\ n \in DOMAIN cs /\ cs[n] = Top
    BY <1>2, <1>3, <1>8, <1>9 DEF Top
  <1> HIDE DEF cs
  <1>11. stack' = [cs EXCEPT ![n] = d]
    BY <1>10 DEF Nested
  <1> HIDE DEF d
  <1>12. /\ Len(stack') = n + 1 /\ DOMAIN stack' = 1 .. n + 1 /\ stack'[n + 1] = x /\ stack'[n] = d
         /\ \A i \in 1 .. n : i < n => stack'[i] = stack[i]
    BY <1>2, <1>7, <1>9, <1>10, <1>11
  <1>13. Inner' = x
    BY <1>12 DEF Inner
  <1> QED
    BY <1>1, <1>2, <1>4, <1>5, <1>12, <1>13 DEF x, d

\* A policy that is done, or could not get the authorization value.
LEMMA DoneFacts ==
  ASSUME IInv, Return \/ ReturnWithoutAuth
  PROVE  /\ Innermost /\ Top.ready /\ Top.list = <<>> /\ Level = Len(stack) /\ Level \in Nat \ {0}
         /\ ClearCurrent = SubSeq(stack, 1, Level - 1)
         /\ Len(ClearCurrent) = Level - 1 /\ DOMAIN ClearCurrent = 1 .. Level - 1
         /\ ClearCurrent \in Seq(Contexts(SessionIds))
         /\ \A i \in 1 .. Level - 1 : ClearCurrent[i] = stack[i] /\ i \in DOMAIN stack
         /\ Level = 1 => ClearCurrent = <<>>
  <1>1. Executing /\ frames # <<>> /\ Top.list = <<>> /\ Top.ready
    BY DEF Return, ReturnWithoutAuth
  <1>2. ~Top.nested
    BY <1>1, LevelFacts DEF AtStep
  <1>3. Innermost
    BY <1>1, <1>2 DEF Innermost
  <1>4. Level = Len(stack) /\ cur = Level /\ Level \in Nat \ {0} /\ Level = Len(frames)
    BY <1>1, <1>3, InnerFacts, LevelFacts
  <1>5. Aligned
    BY <1>1 DEF IInv, RunningInv, Executing
  <1>6. ClearCurrent = SubSeq(stack, 1, Level - 1)
    BY <1>4 DEF ClearCurrent
  <1>7. /\ Len(SubSeq(stack, 1, Level - 1)) = Level - 1 /\ DOMAIN SubSeq(stack, 1, Level - 1) = 1 .. Level - 1
        /\ \A i \in 1 .. Level - 1 : SubSeq(stack, 1, Level - 1)[i] = stack[i] /\ i \in DOMAIN stack
        /\ Level = 1 => SubSeq(stack, 1, Level - 1) = <<>>
        /\ StackOK(stack, SessionIds, keys) /\ stack # <<>>
    BY <1>1, <1>4, <1>5, PopFacts
  <1>8. SubSeq(stack, 1, Level - 1) \in Seq(Contexts(SessionIds))
    BY <1>4, <1>7, PopContext DEF StackOK
  <1> QED
    BY <1>1, <1>3, <1>4, <1>6, <1>7, <1>8

\* The policy that executed it goes on with d.
Resumed(p, own) == IF StepOf(p) = "sub" THEN Executed(p) ELSE Authorized(p, own)

LEMMA ReturnFacts ==
  ASSUME IInv, Return, Level # 1
  PROVE  LET n == Len(stack) - 1
             p == stack[n]
             d == Resumed(p, Top.own)
         IN /\ n \in Nat \ {0} /\ n \in DOMAIN stack /\ Len(stack) = n + 1 /\ Len(stack') = n /\ DOMAIN stack' = 1 .. n
            /\ p.nested /\ Active(p, SessionIds) /\ AtStep(p) /\ StepOf(p) \in {"sub", "authorize", "authorize_nv"}
            /\ Top.own \in SessionIds
            /\ stack'[n] = d /\ Inner' = d /\ \A i \in 1 .. n : i < n => stack'[i] = stack[i] /\ i \in DOMAIN stack
            /\ rc' = (IF StepOf(p) = "sub" /\ p.found = "broken" THEN "crashed" ELSE rc)
  <1> DEFINE n == Len(stack) - 1
             p == stack[n]
             d == Resumed(p, Top.own)
             cs == ClearCurrent
  <1>1. /\ Innermost /\ Level = Len(stack) /\ Level \in Nat \ {0}
        /\ Len(cs) = Level - 1 /\ DOMAIN cs = 1 .. Level - 1 /\ cs \in Seq(Contexts(SessionIds))
        /\ \A i \in 1 .. Level - 1 : cs[i] = stack[i] /\ i \in DOMAIN stack
    BY DoneFacts
  <1>2. n = Level - 1 /\ n \in Nat \ {0} /\ n \in 1 .. n /\ Len(stack) = n + 1
    BY <1>1
  <1>3. n \in DOMAIN stack /\ p.nested /\ p \in Contexts(SessionIds) /\ AtStep(p) /\ Top.own \in SessionIds
    <2>1. n \in DOMAIN stack /\ n < Len(stack)
      BY <1>1, <1>2
    <2> HIDE DEF n
    <2>2. p.nested /\ p \in Contexts(SessionIds) /\ Top \in Contexts(SessionIds)
      <3>1. /\ stack \in Seq(Contexts(SessionIds)) /\ Top \in Contexts(SessionIds)
            /\ \A i \in DOMAIN stack : i < Len(stack) => stack[i].nested
        BY <1>1, InnerFacts
      <3> QED
        BY <2>1, <3>1
    <2>3. AtStep(p)
      BY <2>1 DEF IInv, StepInv
    <2> QED
      BY <2>1, <2>2, <2>3 DEF Contexts
  <1>4. Active(p, SessionIds) /\ StepOf(p) \in {"sub", "authorize", "authorize_nv"}
    BY <1>3 DEF Active, AtStep, StepOf
  <1>5. /\ stack' = [cs EXCEPT ![n] = d]
        /\ rc' = (IF StepOf(p) = "sub" /\ p.found = "broken" THEN "crashed" ELSE rc)
    BY <1>2 DEF Return, Resumed, StepOf
  <1> HIDE DEF n, p, d, cs
  <1>6. /\ Len(stack') = n /\ DOMAIN stack' = 1 .. n /\ stack'[n] = d
        /\ \A i \in 1 .. n : i < n => stack'[i] = stack[i] /\ i \in DOMAIN stack
    BY <1>1, <1>2, <1>5
  <1>7. Inner' = d
    BY <1>6 DEF Inner
  <1> QED
    BY <1>2, <1>3, <1>4, <1>5, <1>6, <1>7 DEF n, p, d

\* A policy that has failed is freed, and its session taken from those that share it.
Forgetting(c, s) == IF c.session = s THEN [c EXCEPT !.session = None] ELSE c
Pops == Unwind /\ rc' # "crashed"

LEMMA PopsFacts ==
  ASSUME IInv, Pops
  PROVE  LET n == Len(stack) - 1 IN
         /\ rc = "running" /\ err # "none" /\ cur # Dangling /\ ~FreesTwice
         /\ Level = Len(stack) /\ Len(stack) \in Nat \ {0} /\ DOMAIN stack = 1 .. Len(stack) /\ Top = Inner
         /\ Top \in Contexts(SessionIds) /\ AtStep(Top) /\ stack \in Seq(Contexts(SessionIds))
         /\ n \in Nat /\ Len(stack') = n /\ DOMAIN stack' = 1 .. n
         /\ \A i \in 1 .. n : i \in DOMAIN stack /\ i < Len(stack)
         /\ FlushesSession => \A i \in 1 .. n : stack'[i] = Forgetting(stack[i], Top.session)
         /\ ~FlushesSession => \A i \in 1 .. n : stack'[i] = stack[i]
         /\ keys' = (IF CleansUp /\ pending = "none" THEN keys - 1 ELSE keys)
         /\ sessions' = (IF FlushesSession /\ pending = "none" THEN WithFlush(sessions, Top.session) ELSE sessions)
         /\ rc' = (IF Level = 1 THEN "failed" ELSE rc) /\ err' = (IF Level = 1 THEN "none" ELSE "called")
         /\ UNCHANGED <<pending, create, at, result>>
  <1> DEFINE n == Len(stack) - 1
             cs == SubSeq(stack, 1, Level - 1)
  <1>1. rc = "running" /\ err # "none" /\ frames # <<>> /\ UNCHANGED <<pending, create, at, result>>
    BY DEF Pops, Unwind
  <1>2. ~(cur = Dangling \/ FreesTwice)
    BY DEF Pops, Unwind
  <1>3. Aligned /\ cur \in {Len(frames), Dangling} /\ Len(frames) = Len(stack) /\ stack \in Seq(Contexts(SessionIds))
    BY <1>1 DEF IInv, FailingInv, TypeOK
  <1>4. /\ Level = Len(stack) /\ Level \in Nat \ {0} /\ Top = Inner /\ Top \in Contexts(SessionIds) /\ AtStep(Top)
        /\ Len(cs) = Level - 1 /\ DOMAIN cs = 1 .. Level - 1
        /\ \A i \in 1 .. Level - 1 : cs[i] = stack[i] /\ i \in DOMAIN stack
        /\ cur = Level
    BY <1>1, <1>2, <1>3, PopFacts DEF Inner
  <1>5. n = Level - 1 /\ n \in Nat /\ Len(stack) \in Nat \ {0} /\ DOMAIN stack = 1 .. Len(stack)
        /\ \A i \in 1 .. n : i < Len(stack)
    BY <1>3, <1>4
  <1>6. ClearCurrent = cs
    BY <1>4 DEF ClearCurrent
  <1>7. /\ keys' = (IF CleansUp /\ pending = "none" THEN keys - 1 ELSE keys)
        /\ sessions' = (IF FlushesSession /\ pending = "none" THEN WithFlush(sessions, Top.session) ELSE sessions)
        /\ stack' = (IF FlushesSession THEN SharedForgotten(cs, Top.session) ELSE cs)
        /\ rc' = (IF Level = 1 THEN "failed" ELSE rc) /\ err' = (IF Level = 1 THEN "none" ELSE "called")
    BY <1>2, <1>6 DEF Pops, Unwind, WithFlush
  <1>8. StackOK(stack, SessionIds, keys)
    BY Split DEF DataOK
  <1>9. StackOK(cs, SessionIds, keys) /\ None \in SessionIds
    BY <1>3, <1>4, <1>8, PopContext DEF SessionIds
  <1> HIDE DEF cs, n
  <1>10. CASE FlushesSession
    <2>1. stack' = SharedForgotten(cs, Top.session)
      BY <1>7, <1>10
    <2>2. Len(stack') = n
      BY <1>4, <1>5, <1>9, <2>1, ForgetContext
    <2>3. DOMAIN stack' = 1 .. n /\ \A i \in 1 .. n : stack'[i] = Forgetting(cs[i], Top.session)
      BY <1>4, <1>5, <2>1 DEF SharedForgotten, Forgetting
    <2>4. \A i \in 1 .. n : cs[i] = stack[i] /\ i \in DOMAIN stack
      BY <1>4, <1>5
    <2>5. \A i \in 1 .. n : stack'[i] = Forgetting(stack[i], Top.session)
      BY <2>3, <2>4
    <2> QED
      BY <1>1, <1>2, <1>3, <1>4, <1>5, <1>7, <1>10, <2>2, <2>3, <2>4, <2>5 DEF n
  <1>11. CASE ~FlushesSession
    <2>1. stack' = cs
      BY <1>7, <1>11
    <2>2. Len(stack') = n /\ DOMAIN stack' = 1 .. n /\ \A i \in 1 .. n : stack'[i] = stack[i] /\ i \in DOMAIN stack
      BY <1>4, <1>5, <2>1
    <2> QED
      BY <1>1, <1>2, <1>3, <1>4, <1>5, <1>7, <1>11, <2>2 DEF n
  <1> QED
    BY <1>10, <1>11

\* The policy being executed is at the same step, with the same handles.
Touched(d, c) == d.list = c.list /\ d.step = c.step /\ d.nested = c.nested /\ SameHeld(d, c)

LEMMA TouchedBy ==
  ASSUME NEW ids, NEW c \in Contexts(ids), NEW s \in ids, NEW b \in BOOLEAN
  PROVE  /\ Touched(WithSession(c, s), c) /\ Touched(WithOwn(c, s), c) /\ Touched(Signed(c), c)
         /\ Touched([c EXCEPT !.sent = b], c)
  BY DEF Contexts, Touched, SameHeld, WithSession, WithOwn, Signed

LEMMA TouchedKeeps ==
  ASSUME NEW c, NEW d, Touched(d, c)
  PROVE  /\ StepOf(d) = StepOf(c) /\ TypeOf(d) = TypeOf(c) /\ (HasKey(d) <=> HasKey(c)) /\ d.auth = c.auth
         /\ FoundOK(c) => FoundOK(d)
         /\ KeyOK(c) /\ AuthOK(c) => KeyOK(d) /\ AuthOK(d)
  <1>1. /\ StepOf(d) = StepOf(c) /\ TypeOf(d) = TypeOf(c) /\ (HasKey(d) <=> HasKey(c)) /\ d.auth = c.auth
        /\ d.list = c.list /\ d.step = c.step /\ d.found = c.found /\ d.handle = c.handle /\ d.object = c.object
        /\ d.flush = c.flush /\ d.nested = c.nested
    BY DEF Touched, SameHeld, StepOf, TypeOf, HasKey
  <1>2. FoundOK(c) => FoundOK(d)
    BY <1>1 DEF FoundOK
  <1>3. KeyOK(c) /\ AuthOK(c) => KeyOK(d) /\ AuthOK(d)
    BY <1>1 DEF KeyOK, AuthOK
  <1> QED
    BY <1>1, <1>2, <1>3

\* What a step that is done has done to its context.
Steps(e) ==
    /\ InElement
    /\ \/ Step \in Callbacks /\ e = CalledBack(Top)
       \/ Step \in {"authorize", "authorize_nv"} /\ e = AuthorizedBy(Top, None)
       \/ Step \in Commands /\ Accepted /\ e = Answered(Top)

\* The ways in which the stack changes.
StackChange ==
    \/ stack' = stack
    \/ Innermost /\ \E d : Update(d) /\ Touched(d, Top) /\ (CallOK(Top) => CallOK(d))
    \/ \E e : Steps(e) /\ Update(Advance(e))
    \/ Begin \/ Nest \/ Return \/ ReturnWithoutAuth \/ Pops

LEMMA StackChanges ==
  ASSUME IInv, [Next]_vars
  PROVE  StackChange
  <1>1. CASE Begin \/ Nest \/ Return \/ ReturnWithoutAuth
    BY <1>1 DEF StackChange
  <1>2. CASE BeginUnselected \/ Enter \/ create_session_send \/ create_session_wait \/ SignsNothing \/ NestUnselected
             \/ SendWaits \/ UNCHANGED vars
    BY <1>2 DEF StackChange, BeginUnselected, Enter, create_session_send, create_session_wait, SignsNothing,
                NestUnselected, SendWaits, vars
  <1>3. CASE UseSession
    <2> DEFINE s == stack[Level - 1].session
               d == WithSession(Top, s)
    <2>1. Innermost /\ Update(d) /\ ~Top.ready
      BY <1>3 DEF UseSession, Unready, Innermost, WithSession
    <2>2. Top \in Contexts(SessionIds) /\ s \in SessionIds
      <3>1. Level > 1 /\ Level = Len(stack) /\ Len(stack) \in Nat \ {0} /\ DOMAIN stack = 1 .. Len(stack)
            /\ stack \in Seq(Contexts(SessionIds)) /\ Top \in Contexts(SessionIds)
        BY <1>3, <2>1, InnerFacts DEF UseSession, GetsSession
      <3>2. stack[Level - 1] \in Contexts(SessionIds)
        BY <3>1
      <3> QED
        BY <3>1, <3>2 DEF Contexts
    <2>3. d.ready /\ d.own = Top.own /\ d.sent = Top.sent /\ d.list = Top.list /\ d.step = Top.step
      BY <2>2 DEF WithSession, Contexts
    <2>4. Touched(d, Top)
      BY <2>2, TouchedBy
    <2> HIDE DEF d
    <2>5. CallOK(Top) => CallOK(d)
      BY <2>1, <2>3 DEF CallOK, StepOf
    <2> QED
      BY <2>1, <2>4, <2>5 DEF StackChange
  <1>4. CASE create_session_finish
    <2> DEFINE s == Len(sessions')
               d == WithOwn(Top, s)
    <2>1. Innermost /\ (stack' = stack \/ Update(d))
      BY <1>4 DEF create_session_finish, Unready, Innermost, WithOwn
    <2>2. Top \in Contexts(SessionIds)
      BY <2>1, InnerFacts
    <2>3. d.ready /\ d.own = s /\ d.session = s /\ d.sent = Top.sent /\ Touched(d, Top)
      BY <2>2 DEF WithOwn, Contexts, Touched, SameHeld
    <2> HIDE DEF d
    <2>4. CallOK(Top) => CallOK(d)
      BY <2>3 DEF CallOK, StepOf, Touched
    <2> QED
      BY <2>1, <2>3, <2>4 DEF StackChange
  <1>5. CASE Callback
    <2>1. InElement /\ Step \in Callbacks /\ StepOf(Top) = Step
      BY <1>5, InElementFacts DEF Callback
    <2>2. CASE stack' = stack
      BY <2>2 DEF StackChange
    <2>3. CASE stack' # stack
      <3>1. Update(Advance(CalledBack(Top)))
        BY <1>5, <2>1, <2>3 DEF Callback, CalledBack
      <3> QED
        BY <2>1, <3>1 DEF StackChange, Steps
    <2> QED
      BY <2>2, <2>3
  <1>6. CASE CallbackWaits
    <2> DEFINE d == Signed(Top)
    <2>1. InElement /\ (stack' = stack \/ Update(d))
      BY <1>6 DEF CallbackWaits
    <2>2. Innermost /\ Top \in Contexts(SessionIds)
      BY <2>1, InElementFacts
    <2>3. Touched(d, Top) /\ d.ready = Top.ready /\ d.own = Top.own /\ d.session = Top.session /\ d.sent = Top.sent
      BY <2>2 DEF Signed, Contexts, Touched, SameHeld
    <2> HIDE DEF d
    <2>4. CallOK(Top) => CallOK(d)
      BY <2>3 DEF CallOK, StepOf, Touched, SameHeld
    <2> QED
      BY <2>1, <2>2, <2>3, <2>4 DEF StackChange
  <1>7. CASE AuthorizeByValue
    <2>1. InElement /\ Step \in {"authorize", "authorize_nv"} /\ StepOf(Top) = Step /\ Active(Top, SessionIds)
      BY <1>7, InElementFacts DEF AuthorizeByValue
    <2>2. Authorized(Top, None) = Advance(AuthorizedBy(Top, None))
      BY <2>1, AuthorizedByFacts DEF SessionIds
    <2>3. stack' = stack \/ Update(Authorized(Top, None))
      BY <1>7 DEF AuthorizeByValue
    <2> QED
      BY <2>1, <2>2, <2>3 DEF StackChange, Steps
  <1>8. CASE Send \/ FinishFails
    <2>1. InElement /\ Step \in Commands /\ StepOf(Top) = Step /\ Innermost /\ Top \in Contexts(SessionIds) /\ Top.list # <<>> /\ Top.ready
      BY <1>8, InElementFacts DEF Send, FinishFails, InElement
    <2>2. ASSUME NEW b \in BOOLEAN, Update([Top EXCEPT !.sent = b]) PROVE StackChange
      <3> DEFINE d == [Top EXCEPT !.sent = b]
      <3>1. Touched(d, Top) /\ d.ready = Top.ready /\ d.own = Top.own /\ d.session = Top.session
        BY <2>1 DEF Contexts, Touched, SameHeld
      <3> HIDE DEF d
      <3>2. CallOK(Top) => CallOK(d)
        BY <2>1, <3>1 DEF CallOK, StepOf, Touched
      <3> QED
        BY <2>1, <2>2, <3>1, <3>2 DEF StackChange, d
    <2>3. stack' = stack \/ \E b \in BOOLEAN : Update([Top EXCEPT !.sent = b])
      BY <1>8 DEF Send, FinishFails
    <2> QED
      BY <2>2, <2>3 DEF StackChange
  <1>9. CASE Finish
    BY <1>9 DEF Finish, StackChange, Steps
  <1>10. CASE Unwind
    BY <1>10 DEF Unwind, Pops, StackChange
  <1> QED
    BY <1>1, <1>2, <1>3, <1>4, <1>5, <1>6, <1>7, <1>8, <1>9, <1>10 DEF Next

-----------------------------------------------------------------------------
(* The lists of policies.                                                  *)

LEMMA TailFacts ==
  ASSUME NEW l \in Seq(Items), l # <<>>
  PROVE  /\ Len(Tail(l)) \in Nat /\ DOMAIN Tail(l) = 1 .. Len(Tail(l)) /\ DOMAIN l = 1 .. Len(l) /\ Head(l) = l[1]
         /\ Len(l) \in Nat \ {0}
         /\ \A i \in DOMAIN Tail(l) : Tail(l)[i] = l[i + 1] /\ i + 1 \in 2 .. Len(l) /\ i + 1 \in DOMAIN l
         /\ Tail(l) # <<>> => Head(Tail(l)) = Tail(l)[1] /\ 1 \in DOMAIN Tail(l)
  OBVIOUS

LEMMA OneNvTail ==
  ASSUME NEW l \in Seq(Items), l # <<>>, OneNv(l)
  PROVE  OneNv(Tail(l))
  <1> SUFFICES ASSUME NEW i \in DOMAIN Tail(l), NEW j \in DOMAIN Tail(l),
                      Tail(l)[i].element.type = "POLICYAUTHORIZENV", Tail(l)[j].element.type = "POLICYAUTHORIZENV"
               PROVE  i = j
    BY DEF OneNv
  <1>1. i \in Nat /\ j \in Nat /\ Tail(l)[i] = l[i + 1] /\ Tail(l)[j] = l[j + 1] /\ i + 1 \in DOMAIN l /\ j + 1 \in DOMAIN l
    BY TailFacts
  <1>2. i + 1 = j + 1
    BY <1>1 DEF OneNv
  <1> QED
    BY <1>1, <1>2

LEMMA FoundAdvance ==
  ASSUME NEW ids, NEW c, Active(c, ids), FoundOK(c), NEW e \in Contexts(ids), SameCall(e, c), FoundDone(e, c)
  PROVE  FoundOK(Advance(e))
  <1> DEFINE d == Advance(e)
             x == Head(c.list)
             s == x.run.steps
  <1>1. Active(e, ids) /\ StepOf(e) = StepOf(c) /\ TypeOf(e) = TypeOf(c) /\ e.list = c.list /\ e.step = c.step
    BY DEF Active, SameCall, StepOf, TypeOf
  <1>2. d.found = e.found /\ (Moves(d, e) \/ Leaves(d, e))
    BY <1>1, AdvanceTo DEF SameHeld
  <1>3. StepOf(c) = "search" => Moves(d, e)
    <2>1. StepOf(c) = "search" => c.step # Len(s)
      BY OrderFacts
    <2> QED
      BY <1>1, <2>1, AdvanceTo
  <1>4. /\ c.list \in Seq(Items) /\ c.list # <<>> /\ c.step \in Nat \ {0} /\ StepOf(c) = s[c.step]
        /\ StepOf(c) = "search" => s[c.step + 1] = "sub"
    BY OrderFacts DEF Active, Contexts
  <1> HIDE DEF d
  <1>5. OneNv(d.list)
    <2>1. d.list = c.list \/ d.list = Tail(c.list)
      BY <1>1, <1>2 DEF Moves, Leaves
    <2> QED
      BY <1>4, <2>1, OneNvTail DEF FoundOK
  <1>6. CASE e.found = "null"
    BY <1>2, <1>5, <1>6 DEF FoundOK, d
  <1>7. CASE e.found = "list"
    <2>1. StepOf(c) = "search"
      BY <1>7 DEF FoundDone
    <2>2. d.list = c.list /\ d.step = c.step + 1
      BY <1>1, <1>3, <2>1 DEF Moves
    <2>3. StepOf(d) = "sub"
      BY <1>4, <2>1, <2>2 DEF StepOf
    <2> QED
      BY <1>2, <1>4, <1>5, <1>7, <2>2, <2>3 DEF FoundOK, d
  <1>8. CASE e.found = "freed"
    <2>1. /\ \A i \in 2 .. Len(c.list) : c.list[i].element.type # "POLICYAUTHORIZENV"
          /\ TypeOf(c) = "POLICYAUTHORIZENV" => \E j \in 1 .. c.step : s[j] = "sub"
      <3>1. CASE c.found = "freed"
        <4>1. TypeOf(c) = "POLICYAUTHORIZENV" => \E j \in 1 .. c.step - 1 : s[j] = "sub"
          BY <1>4, <3>1 DEF FoundOK
        <4>2. \A j \in 1 .. c.step - 1 : j \in 1 .. c.step
          BY <1>4
        <4> QED
          BY <3>1, <4>1, <4>2 DEF FoundOK
      <3>2. CASE StepOf(c) = "sub" /\ TypeOf(c) = "POLICYAUTHORIZENV"
        <4>1. c.step \in 1 .. c.step /\ s[c.step] = "sub"
          BY <1>4, <3>2
        <4>2. c.list[1].element.type = "POLICYAUTHORIZENV" /\ DOMAIN c.list = 1 .. Len(c.list) /\ Len(c.list) \in Nat \ {0}
          BY <1>4, <3>2, TailFacts DEF TypeOf
        <4>3. ASSUME NEW i \in 2 .. Len(c.list) PROVE c.list[i].element.type # "POLICYAUTHORIZENV"
          <5>1. i \in DOMAIN c.list /\ 1 \in DOMAIN c.list /\ i # 1
            BY <4>2
          <5> QED
            BY <4>2, <5>1 DEF FoundOK, OneNv
        <4> QED
          BY <4>1, <4>3
      <3> QED
        BY <1>8, <3>1, <3>2 DEF FoundDone
    <2>2. ASSUME Moves(d, e) PROVE FoundOK(d)
      <3>1. d.list = c.list /\ d.step = c.step + 1 /\ d.step - 1 = c.step /\ TypeOf(d) = TypeOf(c)
        BY <1>1, <1>4, <2>2 DEF Moves, TypeOf
      <3> QED
        BY <1>2, <1>5, <1>8, <2>1, <3>1 DEF FoundOK
    <2>3. ASSUME Leaves(d, e) PROVE FoundOK(d)
      <3>1. d.list = Tail(c.list)
        BY <1>1, <2>3 DEF Leaves
      <3>2. \A i \in DOMAIN d.list : d.list[i].element.type # "POLICYAUTHORIZENV"
        BY <1>4, <2>1, <3>1, TailFacts
      <3>3. DOMAIN d.list = 1 .. Len(d.list) /\ Len(d.list) \in Nat /\ (d.list # <<>> => Head(d.list) = d.list[1] /\ 1 \in DOMAIN d.list)
        BY <1>4, <3>1, TailFacts
      <3>4. \A i \in 2 .. Len(d.list) : d.list[i].element.type # "POLICYAUTHORIZENV"
        BY <3>2, <3>3
      <3>5. d.list # <<>> => TypeOf(d) # "POLICYAUTHORIZENV"
        BY <3>2, <3>3 DEF TypeOf
      <3> QED
        BY <1>2, <1>5, <1>8, <3>4, <3>5 DEF FoundOK
    <2> QED
      BY <1>2, <2>2, <2>3 DEF d
  <1>9. e.found \in {"null", "list", "freed"}
    BY DEF FoundDone
  <1> QED
    BY <1>6, <1>7, <1>8, <1>9

\* A list is searched for only when there is none, and freed when it was executed.
LEMMA FoundSteps ==
  ASSUME IInv, NEW e, Steps(e), FoundOK(Top)
  PROVE  FoundOK(Advance(e))
  <1>1. InElement /\ Active(Top, SessionIds) /\ StepOf(Top) = Step /\ Top \in Contexts(SessionIds) /\ None \in SessionIds
    BY InElementFacts DEF Steps, SessionIds
  <1>2. Step # "sub"
    BY DEF Steps, Callbacks, Commands
  <1>3. Top.found \in {"null", "freed"}
    BY <1>1, <1>2 DEF FoundOK, Contexts
  <1>4. e \in Contexts(SessionIds) /\ SameCall(e, Top) /\ FoundDone(e, Top)
    <2>1. CASE Step \in Callbacks /\ e = CalledBack(Top)
      <3>1. /\ e \in Contexts(SessionIds) /\ SameCall(e, Top)
            /\ e.found = IF Step # "search" THEN Top.found
                         ELSE IF TypeOf(Top) = "POLICYAUTHORIZE" \/ Top.found = "null" THEN "list" ELSE "broken"
        BY <1>1, <2>1, CalledBackFacts
      <3>2. CASE Step = "search"
        <4>1. /\ TypeOf(Top) \in {"POLICYAUTHORIZE", "POLICYAUTHORIZENV"}
              /\ \A j \in 1 .. Top.step - 1 : Head(Top.list).run.steps[j] # "sub"
          BY <1>1, <3>2, OrderFacts
        <4>2. TypeOf(Top) = "POLICYAUTHORIZENV" => Top.found # "freed"
          BY <1>1, <4>1 DEF FoundOK, Active
        <4>3. e.found = "list"
          BY <1>3, <3>1, <3>2, <4>1, <4>2
        <4> QED
          BY <1>1, <3>1, <3>2, <4>3 DEF FoundDone
      <3>3. CASE Step # "search"
        BY <1>3, <3>1, <3>3 DEF FoundDone
      <3> QED
        BY <3>2, <3>3
    <2>2. CASE Step \in {"authorize", "authorize_nv"} /\ e = AuthorizedBy(Top, None)
      <3>1. e \in Contexts(SessionIds) /\ SameCall(e, Top) /\ e.found = Top.found
        BY <1>1, <2>2, AuthorizedByFacts
      <3> QED
        BY <1>3, <3>1 DEF FoundDone
    <2>3. CASE Step \in Commands /\ e = Answered(Top)
      <3>1. e \in Contexts(SessionIds) /\ SameCall(e, Top) /\ e.found = Top.found
        BY <1>1, <2>3, AnsweredByFacts
      <3> QED
        BY <1>3, <3>1 DEF FoundDone
    <2> QED
      BY <2>1, <2>2, <2>3 DEF Steps
  <1> QED
    BY <1>1, <1>4, FoundAdvance

LEMMA FoundResumed ==
  ASSUME NEW ids, NEW p, Active(p, ids), NEW s \in ids, FoundOK(p), StepOf(p) \in {"sub", "authorize", "authorize_nv"}
  PROVE  FoundOK(Resumed(p, s))
  <1>1. CASE StepOf(p) = "sub"
    <2> DEFINE e == ExecutedBy(p)
    <2>1. TypeOf(p) \in {"POLICYAUTHORIZE", "POLICYAUTHORIZENV"} /\ p \in Contexts(ids)
      BY <1>1, OrderFacts DEF Active
    <2>2. /\ Executed(p) = Advance(e) /\ e \in Contexts(ids) /\ SameCall(e, p)
          /\ e.found = IF TypeOf(p) = "POLICYAUTHORIZE" THEN "null" ELSE "freed"
      BY <2>1, ExecutedByFacts
    <2> HIDE DEF e
    <2>3. FoundDone(e, p)
      BY <1>1, <2>1, <2>2 DEF FoundDone
    <2> QED
      BY <1>1, <2>2, <2>3, FoundAdvance DEF Resumed
  <1>2. CASE StepOf(p) \in {"authorize", "authorize_nv"}
    <2> DEFINE e == AuthorizedBy(p, s)
    <2>1. Authorized(p, s) = Advance(e) /\ e \in Contexts(ids) /\ SameCall(e, p) /\ e.found = p.found
      BY <1>2, AuthorizedByFacts
    <2> HIDE DEF e
    <2>2. FoundDone(e, p)
      BY <1>2, <2>1 DEF FoundDone, FoundOK, Active, Contexts
    <2> QED
      BY <1>2, <2>1, <2>2, FoundAdvance DEF Resumed
  <1> QED
    BY <1>1, <1>2

\* A context that is new, that executes another policy, or that loses its session.
LEMMA FoundKept ==
  ASSUME NEW ids, None \in ids
  PROVE  /\ \A l \in Seq(Items) : OneNv(l) => FoundOK(NewContext(l))
         /\ \A c \in Contexts(ids) : FoundOK(c) => FoundOK(Nested(c))
         /\ \A c \in Contexts(ids) : \A s : FoundOK(c) => FoundOK(Forgetting(c, s))
  <1>1. ASSUME NEW l \in Seq(Items), OneNv(l) PROVE FoundOK(NewContext(l))
    <2>1. NewContext(l).list = l /\ NewContext(l).found = "null"
      BY DEF NewContext
    <2> QED
      BY <1>1, <2>1 DEF FoundOK
  <1>2. ASSUME NEW c \in Contexts(ids), FoundOK(c) PROVE FoundOK(Nested(c))
    <2>1. Nested(c).list = c.list /\ Nested(c).step = c.step /\ Nested(c).found = c.found
      BY DEF Nested, Contexts
    <2> QED
      BY <1>2, <2>1 DEF FoundOK, StepOf, TypeOf
  <1>3. ASSUME NEW c \in Contexts(ids), NEW s, FoundOK(c) PROVE FoundOK(Forgetting(c, s))
    <2> DEFINE d == Forgetting(c, s)
    <2>1. d.list = c.list /\ d.step = c.step /\ d.found = c.found
      BY DEF Forgetting, Contexts
    <2> HIDE DEF d
    <2> QED
      BY <1>3, <2>1 DEF FoundOK, StepOf, TypeOf, d
  <1> QED
    BY <1>1, <1>2, <1>3

LEMMA FoundNext ==
  ASSUME NvOnce, IInv, FoundInv, [Next]_vars
  PROVE  FoundInv'
  <1>1. StackChange /\ None \in SessionIds
    BY StackChanges DEF SessionIds
  <1>2. CASE stack' = stack
    BY <1>2 DEF FoundInv
  <1>3. ASSUME Innermost, NEW d, Update(d), FoundOK(Top) => FoundOK(d) PROVE FoundInv'
    <2>1. Inner = Top /\ Len(stack) \in DOMAIN stack
      BY <1>3, InnerFacts
    <2>2. FoundOK(d)
      BY <1>3, <2>1 DEF FoundInv, Inner
    <2>3. \A i \in DOMAIN stack' : FoundOK(stack'[i])
      BY <1>3, <2>2, UpdateFacts DEF FoundInv
    <2> QED
      BY <2>3 DEF FoundInv
  <1>4. ASSUME Innermost, NEW d, Update(d), Touched(d, Top) PROVE FoundInv'
    BY <1>3, <1>4, TouchedKeeps
  <1>5. ASSUME NEW e, Steps(e), Update(Advance(e)) PROVE FoundInv'
    <2>1. Innermost
      BY <1>5, InElementFacts DEF Steps
    <2> QED
      BY <1>3, <1>5, <2>1, FoundSteps
  <1>6. CASE Begin
    <2>1. PICK list \in Lists[policy] : /\ list \in Seq(Items) /\ policy \in DOMAIN Lists
                                       /\ DOMAIN stack' = {1} /\ stack'[1] = NewContext(list)
      BY <1>6, BeginFacts
    <2>2. FoundOK(NewContext(list))
      BY <1>1, <2>1, FoundKept DEF NvOnce
    <2> QED
      BY <2>1, <2>2 DEF FoundInv
  <1>7. CASE Nest
    <2>1. Innermost /\ Top \in Contexts(SessionIds) /\ Inner = Top /\ Len(stack) \in Nat \ {0} /\ DOMAIN stack = 1 .. Len(stack)
      BY <1>7, NestFacts, InnerFacts
    <2>2. PICK list \in Lists[AuthPolicy] :
              /\ list \in Seq(Items) /\ AuthPolicy \in DOMAIN Lists /\ DOMAIN stack' = 1 .. Len(stack) + 1
              /\ stack'[Len(stack) + 1] = NewContext(list) /\ stack'[Len(stack)] = Nested(Top)
              /\ \A i \in DOMAIN stack : i < Len(stack) => stack'[i] = stack[i]
      BY <1>7, NestFacts
    <2>3. FoundOK(NewContext(list))
      BY <1>1, <2>2, FoundKept DEF NvOnce
    <2>4. FoundOK(Nested(Top))
      <3>1. FoundOK(Top)
        BY <2>1 DEF FoundInv, Inner
      <3> QED
        BY <1>1, <2>1, <3>1, FoundKept
    <2>5. ASSUME NEW i \in DOMAIN stack' PROVE FoundOK(stack'[i])
      <3>1. (i \in DOMAIN stack /\ i < Len(stack)) \/ i = Len(stack) \/ i = Len(stack) + 1
        BY <2>1, <2>2
      <3> QED
        BY <2>2, <2>3, <2>4, <3>1 DEF FoundInv
    <2> QED
      BY <2>5 DEF FoundInv
  <1>8. CASE Return
    <2>1. CASE Level = 1
      <3>1. stack' = <<>>
        BY <1>8, <2>1, DoneFacts DEF Return
      <3> QED
        BY <3>1 DEF FoundInv
    <2>2. CASE Level # 1
      <3> DEFINE n == Len(stack) - 1
                 p == stack[n]
                 d == Resumed(p, Top.own)
      <3>1. /\ n \in Nat \ {0} /\ n \in DOMAIN stack /\ DOMAIN stack' = 1 .. n
            /\ Active(p, SessionIds) /\ StepOf(p) \in {"sub", "authorize", "authorize_nv"} /\ Top.own \in SessionIds
            /\ stack'[n] = d /\ \A i \in 1 .. n : i < n => stack'[i] = stack[i] /\ i \in DOMAIN stack
        BY <1>8, <2>2, ReturnFacts
      <3> HIDE DEF n
      <3>2. FoundOK(d)
        BY <3>1, FoundResumed DEF FoundInv
      <3> HIDE DEF d
      <3>3. ASSUME NEW i \in DOMAIN stack' PROVE FoundOK(stack'[i])
        <4>1. n \in Nat /\ i \in 1 .. n
          BY <3>1
        <4>2. i = n \/ i < n
          BY <4>1
        <4> QED
          BY <3>1, <3>2, <4>1, <4>2 DEF FoundInv
      <3> QED
        BY <3>3 DEF FoundInv
    <2> QED
      BY <2>1, <2>2
  <1>9. CASE ReturnWithoutAuth
    <2>1. stack' = ClearCurrent
      BY <1>9 DEF ReturnWithoutAuth
    <2>2. DOMAIN ClearCurrent = 1 .. Level - 1 /\ \A i \in 1 .. Level - 1 : ClearCurrent[i] = stack[i] /\ i \in DOMAIN stack
      BY <1>9, DoneFacts
    <2> QED
      BY <2>1, <2>2 DEF FoundInv
  <1>10. CASE Pops
    <2> DEFINE n == Len(stack) - 1
    <2>1. /\ stack \in Seq(Contexts(SessionIds)) /\ DOMAIN stack' = 1 .. n /\ \A i \in 1 .. n : i \in DOMAIN stack
          /\ FlushesSession => \A i \in 1 .. n : stack'[i] = Forgetting(stack[i], Top.session)
          /\ ~FlushesSession => \A i \in 1 .. n : stack'[i] = stack[i]
      BY <1>10, PopsFacts
    <2> HIDE DEF n
    <2>2. ASSUME NEW i \in DOMAIN stack' PROVE FoundOK(stack'[i])
      <3>1. i \in DOMAIN stack /\ stack[i] \in Contexts(SessionIds) /\ FoundOK(stack[i])
        BY <2>1 DEF FoundInv
      <3>2. FoundOK(Forgetting(stack[i], Top.session))
        BY <1>1, <3>1, FoundKept
      <3> QED
        BY <2>1, <3>1, <3>2
    <2> QED
      BY <2>2 DEF FoundInv
  <1> QED
    BY <1>1, <1>2, <1>4, <1>5, <1>6, <1>7, <1>8, <1>9, <1>10 DEF StackChange

CrashInv == rc = "crashed" => at \in {<<"POLICYSIGNED", "sign", "freed">>, Select}

LEMMA CrashNext ==
  ASSUME IInv, AtInv, FoundInv, CrashInv, [Next]_vars
  PROVE  CrashInv'
  <1>1. CASE UNCHANGED vars
    BY <1>1 DEF CrashInv, vars
  <1>2. CASE Begin \/ BeginUnselected
    BY <1>2 DEF Begin, BeginUnselected, CrashInv
  <1>3. CASE Enter \/ UseSession \/ create_session_send \/ create_session_finish \/ create_session_wait \/ Callback
             \/ CallbackWaits \/ AuthorizeByValue \/ Nest \/ Send \/ SendWaits \/ Finish \/ FinishFails
    <2>1. rc = "running" /\ rc' = rc
      BY <1>3 DEF Enter, UseSession, create_session_send, create_session_finish, create_session_wait, Callback,
                  CallbackWaits, AuthorizeByValue, Nest, Send, SendWaits, Finish, FinishFails, Unready, InElement, Executing
    <2> QED
      BY <2>1 DEF CrashInv
  <1>4. CASE SignsNothing
    <2>1. InElement /\ Step = "sign" /\ at' = <<Type, Step, "freed">>
      BY <1>4 DEF SignsNothing
    <2>2. Type = "POLICYSIGNED"
      BY <2>1, InElementFacts, OrderFacts DEF TypeOf, Type, Item
    <2> QED
      BY <2>1, <2>2 DEF CrashInv
  <1>5. CASE NestUnselected
    <2>1. Executing /\ at' = IF at = Nowhere THEN Select ELSE at
      BY <1>5 DEF NestUnselected, InElement, FailsAt, Select
    <2>2. at' = Select
      BY <2>1 DEF AtInv
    <2> QED
      BY <2>2 DEF CrashInv
  <1>6. CASE Return
    <2>1. rc = "running"
      BY <1>6 DEF Return, Executing
    <2>2. CASE Level = 1
      BY <1>6, <2>2 DEF Return, CrashInv
    <2>3. CASE Level # 1
      <3> DEFINE n == Len(stack) - 1
      <3>1. n \in DOMAIN stack /\ rc' = (IF StepOf(stack[n]) = "sub" /\ stack[n].found = "broken" THEN "crashed" ELSE rc)
        BY <1>6, <2>3, ReturnFacts
      <3>2. stack[n].found # "broken"
        BY <3>1 DEF FoundInv, FoundOK
      <3> QED
        BY <2>1, <3>1, <3>2 DEF CrashInv
    <2> QED
      BY <2>2, <2>3
  <1>7. CASE ReturnWithoutAuth
    BY <1>7 DEF ReturnWithoutAuth, Executing, CrashInv
  <1>8. CASE Unwind
    <2>1. rc = "running" /\ err # "none" /\ frames # <<>> /\ at' = at
      BY <1>8 DEF Unwind
    <2>2. Aligned /\ Len(frames) = Len(stack)
      BY <2>1 DEF IInv, FailingInv
    <2>3. Level \in DOMAIN stack /\ Top \in Contexts(SessionIds) /\ AtStep(Top)
      BY <2>1, <2>2, PopFacts
    <2>4. FoundOK(Top)
      BY <2>3 DEF FoundInv, Top
    <2>5. ~FreesTwice
      <3> SUFFICES ASSUME FreesTwice PROVE FALSE
        OBVIOUS
      <3>1. /\ Top.list # <<>> /\ TypeOf(Top) = "POLICYAUTHORIZENV" /\ Top.found \in {"freed", "broken"}
            /\ StepOf(Top) \in {"read_nv", "authorize_nv", "NV_Read", "search", "sub"}
        BY DEF FreesTwice, InPolicy, Type, Item, TypeOf, Step, StepOf
      <3>2. Active(Top, SessionIds)
        BY <2>3, <3>1 DEF Active, AtStep
      <3>3. \A j \in 1 .. Top.step - 1 : Head(Top.list).run.steps[j] # "sub"
        BY <3>1, <3>2, OrderFacts
      <3> QED
        BY <2>4, <3>1, <3>3 DEF FoundOK
    <2>6. CASE cur = Dangling
      BY <2>1, <2>6 DEF AtInv, CrashInv
    <2>7. CASE cur # Dangling
      <3>1. rc' # "crashed"
        BY <1>8, <2>1, <2>5, <2>7 DEF Unwind
      <3> QED
        BY <3>1 DEF CrashInv
    <2> QED
      BY <2>6, <2>7
  <1> QED
    BY <1>1, <1>2, <1>3, <1>4, <1>5, <1>6, <1>7, <1>8 DEF Next

\* If no policy has two PolicyAuthorizeNV, no execution uses memory that was freed but
\* for the two that NoCrash names (execute_policy_signed, ifapi_policyutil_execute_prepare):
\* cleanup_policy_list never sees a list that was freed before.
THEOREM NothingFreedUsed ==
  ASSUME NvOnce
  PROVE  Spec => []NoCrash
  <1> DEFINE Inv == AtInv /\ FoundInv /\ CrashInv
  <1>1. Init => Inv
    BY DEF Init, AtInv, Executing, FoundInv, CrashInv
  <1>2. IInv /\ IInv' /\ Inv /\ [Next]_vars => Inv'
    BY AtNext, FoundNext, CrashNext
  <1>3. Inv => NoCrash
    BY DEF CrashInv, NoCrash, Select
  <1> HIDE DEF Inv
  <1>4. Spec => []Inv
    BY <1>1, <1>2, InvHolds, PTL DEF Spec
  <1> QED
    BY <1>3, <1>4, PTL

-----------------------------------------------------------------------------
(* The keys and the authorizations of a context.                           *)

LEMMA ContextKept ==
  ASSUME NEW ids, None \in ids
  PROVE  /\ \A l \in Seq(Items) : ContextOK(NewContext(l))
         /\ \A c \in Contexts(ids) : \A s :
              /\ ContextOK(c) => ContextOK(Forgetting(c, s))
              /\ HasKey(Forgetting(c, s)) <=> HasKey(c)
              /\ StepOf(Forgetting(c, s)) = StepOf(c) /\ TypeOf(Forgetting(c, s)) = TypeOf(c)
              /\ Forgetting(c, s).nested = c.nested /\ Forgetting(c, s).own = c.own /\ Forgetting(c, s).auth = c.auth
              /\ Forgetting(c, s).ready = c.ready /\ Forgetting(c, s).sent = c.sent /\ Forgetting(c, s).list = c.list
              /\ Forgetting(c, s).session = IF c.session = s THEN None ELSE c.session
  <1>1. ASSUME NEW l \in Seq(Items) PROVE ContextOK(NewContext(l))
    <2> DEFINE c == NewContext(l)
    <2>1. /\ ~HasKey(c) /\ c.auth = None /\ ~c.nested /\ ~c.ready /\ c.step = 1 /\ ~c.sent /\ c.own = None /\ c.session = None
      BY DEF NewContext, HasKey
    <2>2. \A y : ~LoadedBefore(y, 1)
      BY LoadedNext
    <2> HIDE DEF c
    <2>3. KeyOK(c)
      BY <2>1, <2>2 DEF KeyOK
    <2> QED
      BY <2>1, <2>3 DEF ContextOK, AuthOK, CallOK, c
  <1>2. ASSUME NEW c \in Contexts(ids), NEW s
        PROVE  LET d == Forgetting(c, s) IN
               /\ ContextOK(c) => ContextOK(d)
               /\ HasKey(d) <=> HasKey(c)
               /\ StepOf(d) = StepOf(c) /\ TypeOf(d) = TypeOf(c)
               /\ d.nested = c.nested /\ d.own = c.own /\ d.auth = c.auth
               /\ d.ready = c.ready /\ d.sent = c.sent /\ d.list = c.list
               /\ d.session = IF c.session = s THEN None ELSE c.session
    <2> DEFINE d == Forgetting(c, s)
    <2>1. /\ Touched(d, c) /\ d.ready = c.ready /\ d.own = c.own /\ d.sent = c.sent /\ d.nested = c.nested
          /\ d.session = IF c.session = s THEN None ELSE c.session
      BY DEF Forgetting, Contexts, Touched, SameHeld
    <2> HIDE DEF d
    <2>2. StepOf(d) = StepOf(c) /\ TypeOf(d) = TypeOf(c) /\ (HasKey(d) <=> HasKey(c)) /\ d.auth = c.auth
      BY <2>1, TouchedKeeps
    <2>3. KeyOK(c) /\ AuthOK(c) => KeyOK(d) /\ AuthOK(d)
      BY <2>1, TouchedKeeps
    <2>4. d.step = c.step /\ d.list = c.list
      BY <2>1 DEF Touched
    <2>5. CallOK(c) => CallOK(d)
      BY <2>1, <2>2, <2>4 DEF CallOK
    <2> QED
      BY <2>1, <2>2, <2>3, <2>4, <2>5 DEF ContextOK, d
  <1> QED
    BY <1>1, <1>2

LEMMA NestedKept ==
  ASSUME NEW ids, NEW c \in Contexts(ids)
  PROVE  LET d == Nested(c) IN
         /\ d.nested /\ StepOf(d) = StepOf(c) /\ TypeOf(d) = TypeOf(c) /\ (HasKey(d) <=> HasKey(c))
         /\ d.list = c.list /\ d.step = c.step /\ SameHeld(d, c) /\ d.auth = c.auth
         /\ d.ready = c.ready /\ d.session = c.session /\ d.own = c.own /\ d.sent = c.sent
  <1> DEFINE d == Nested(c)
  <1>1. /\ d.nested /\ d.list = c.list /\ d.step = c.step /\ SameHeld(d, c) /\ d.auth = c.auth
        /\ d.ready = c.ready /\ d.session = c.session /\ d.own = c.own /\ d.sent = c.sent
    BY DEF Nested, Contexts, SameHeld
  <1> HIDE DEF d
  <1> QED
    BY <1>1 DEF StepOf, TypeOf, HasKey, SameHeld, d

\* The effects of the steps that are done.
LEMMA StepsEffect ==
  ASSUME IInv, ContextOK(Top), NEW e, Steps(e)
  PROVE  /\ InElement /\ Active(Top, SessionIds) /\ Top.ready /\ Effect(e, Top, SessionIds) /\ e.auth = None
         /\ ContextOK(Advance(e)) /\ Stepped(Advance(e), Top) /\ Advance(e).auth = None
         /\ HasKey(Advance(e)) <=> HasKey(e)
  <1>1. /\ InElement /\ Active(Top, SessionIds) /\ Top.ready /\ StepOf(Top) = Step /\ None \in SessionIds
    BY InElementFacts DEF Steps, SessionIds, InElement
  <1>2. Effect(e, Top, SessionIds) /\ e.auth = None
    <2>1. CASE Step \in Callbacks /\ e = CalledBack(Top)
      BY <1>1, <2>1, CalledBackEffect
    <2>2. CASE Step \in {"authorize", "authorize_nv"} /\ e = AuthorizedBy(Top, None)
      BY <1>1, <2>2, AuthorizedEffect
    <2>3. CASE Step \in Commands /\ Accepted /\ e = Answered(Top)
      BY <1>1, <2>3, AnsweredEffect
    <2> QED
      BY <2>1, <2>2, <2>3 DEF Steps
  <1> QED
    BY <1>1, <1>2, EffectAdvances

\* The policy below goes on, with the session that was made for it.
LEMMA ResumedEffect ==
  ASSUME SignedByValue, NEW ids, NEW p, Active(p, ids), NEW s \in ids, ContextOK(p), p.nested,
         StepOf(p) \in {"sub", "authorize", "authorize_nv"}
  PROVE  LET d == Resumed(p, s) IN
         /\ ContextOK(d) /\ Stepped(d, p) /\ p.ready /\ p.auth = None /\ (HasKey(d) <=> HasKey(p))
         /\ d.auth = IF StepOf(p) = "sub" THEN None ELSE s
  <1>1. p.ready
    BY DEF ContextOK, CallOK
  <1>2. CASE StepOf(p) = "sub"
    <2> DEFINE e == ExecutedBy(p)
    <2>1. Executed(p) = Advance(e) /\ Effect(e, p, ids) /\ e.auth = None /\ p.auth = None /\ (HasKey(e) <=> HasKey(p))
      BY <1>2, ExecutedEffect
    <2> HIDE DEF e
    <2>2. /\ ContextOK(Advance(e)) /\ Stepped(Advance(e), p) /\ Advance(e).auth = e.auth
          /\ HasKey(Advance(e)) <=> HasKey(e)
      BY <1>1, <2>1, EffectAdvances
    <2> QED
      BY <1>1, <1>2, <2>1, <2>2 DEF Resumed
  <1>3. CASE StepOf(p) \in {"authorize", "authorize_nv"}
    <2> DEFINE e == AuthorizedBy(p, s)
               x == Head(p.list)
    <2>1. TypeOf(p) # "POLICYSIGNED"
      <3>1. get_nv_auth_object(x.element.object).policy # <<>>
        BY <1>3 DEF ContextOK, AuthOK
      <3>2. x \in Items /\ p.step \in DOMAIN x.run.steps /\ x.run.steps[p.step] \in {"authorize", "authorize_nv"}
        BY <1>3, OrderFacts DEF Active, StepOf
      <3> QED
        BY <3>1, <3>2 DEF SignedByValue, TypeOf
    <2>2. Authorized(p, s) = Advance(e) /\ Effect(e, p, ids) /\ e.auth = s /\ p.auth = None /\ (HasKey(e) <=> HasKey(p))
      BY <1>3, <2>1, AuthorizedEffect
    <2> HIDE DEF e
    <2>3. /\ ContextOK(Advance(e)) /\ Stepped(Advance(e), p) /\ Advance(e).auth = e.auth
          /\ HasKey(Advance(e)) <=> HasKey(e)
      BY <1>1, <2>2, EffectAdvances
    <2> QED
      BY <1>1, <1>3, <2>2, <2>3 DEF Resumed
  <1> QED
    BY <1>2, <1>3

LEMMA ContextNext ==
  ASSUME SignedByValue, IInv, ContextInv, [Next]_vars
  PROVE  ContextInv'
  <1>1. StackChange /\ None \in SessionIds
    BY StackChanges DEF SessionIds
  <1>2. \A i \in DOMAIN stack : ContextOK(stack[i])
    BY DEF ContextInv, ContextOK
  <1> SUFFICES \A i \in DOMAIN stack' : ContextOK(stack'[i])
    BY DEF ContextInv, ContextOK
  <1>3. CASE stack' = stack
    BY <1>2, <1>3
  <1>4. ASSUME Innermost, NEW d, Update(d), ContextOK(Top) => ContextOK(d)
        PROVE  \A i \in DOMAIN stack' : ContextOK(stack'[i])
    <2>1. Inner = Top /\ Len(stack) \in DOMAIN stack
      BY <1>4, InnerFacts
    <2>2. ContextOK(d)
      BY <1>2, <1>4, <2>1 DEF Inner
    <2> QED
      BY <1>2, <1>4, <2>2, UpdateFacts
  <1>5. ASSUME Innermost, NEW d, Update(d), Touched(d, Top), CallOK(Top) => CallOK(d)
        PROVE  \A i \in DOMAIN stack' : ContextOK(stack'[i])
    <2>1. ContextOK(Top) => ContextOK(d)
      BY <1>5, TouchedKeeps DEF ContextOK
    <2> QED
      BY <1>4, <1>5, <2>1
  <1>6. ASSUME NEW e, Steps(e), Update(Advance(e)) PROVE \A i \in DOMAIN stack' : ContextOK(stack'[i])
    <2>1. Innermost
      BY <1>6, InElementFacts DEF Steps
    <2> QED
      BY <1>4, <1>6, <2>1, StepsEffect
  <1>7. CASE Begin
    <2>1. PICK list \in Lists[policy] : list \in Seq(Items) /\ DOMAIN stack' = {1} /\ stack'[1] = NewContext(list)
      BY <1>7, BeginFacts
    <2> QED
      BY <1>1, <2>1, ContextKept
  <1>8. CASE Nest
    <2>1. /\ Innermost /\ Top \in Contexts(SessionIds) /\ Inner = Top /\ Len(stack) \in Nat \ {0} /\ DOMAIN stack = 1 .. Len(stack)
          /\ InElement /\ NeedsPolicy /\ StepOf(Top) = Step
      BY <1>8, NestFacts, InnerFacts, InElementFacts
    <2>2. PICK list \in Lists[AuthPolicy] :
              /\ list \in Seq(Items) /\ DOMAIN stack' = 1 .. Len(stack) + 1
              /\ stack'[Len(stack) + 1] = NewContext(list) /\ stack'[Len(stack)] = Nested(Top)
              /\ \A i \in DOMAIN stack : i < Len(stack) => stack'[i] = stack[i]
      BY <1>8, NestFacts
    <2>3. ContextOK(NewContext(list))
      BY <1>1, <2>2, ContextKept
    <2>4. ContextOK(Nested(Top))
      <3> DEFINE d == Nested(Top)
      <3>1. ContextOK(Top) /\ Top.ready
        BY <1>2, <2>1 DEF Inner, InElement
      <3>2. /\ d.nested /\ StepOf(d) = StepOf(Top) /\ TypeOf(d) = TypeOf(Top) /\ (HasKey(d) <=> HasKey(Top))
            /\ d.list = Top.list /\ d.step = Top.step /\ SameHeld(d, Top) /\ d.auth = Top.auth
            /\ d.ready = Top.ready /\ d.session = Top.session /\ d.own = Top.own /\ d.sent = Top.sent
        BY <2>1, NestedKept
      <3> HIDE DEF d
      <3>3. KeyOK(d)
        BY <3>1, <3>2 DEF ContextOK, KeyOK, SameHeld
      <3>4. StepOf(d) # "sub" => get_nv_auth_object(Head(d.list).element.object).policy # <<>>
        BY <2>1, <3>2 DEF NeedsPolicy, AuthPolicy, Object, Item
      <3>5. AuthOK(d)
        BY <3>1, <3>2, <3>4 DEF ContextOK, AuthOK
      <3>6. CallOK(d)
        BY <3>1, <3>2 DEF ContextOK, CallOK
      <3> QED
        BY <3>3, <3>5, <3>6 DEF ContextOK, d
    <2>5. ASSUME NEW i \in DOMAIN stack' PROVE ContextOK(stack'[i])
      <3>1. (i \in DOMAIN stack /\ i < Len(stack)) \/ i = Len(stack) \/ i = Len(stack) + 1
        BY <2>1, <2>2
      <3> QED
        BY <1>2, <2>2, <2>3, <2>4, <3>1
    <2> QED
      BY <2>5
  <1>9. CASE Return
    <2>1. CASE Level = 1
      <3>1. stack' = <<>>
        BY <1>9, <2>1, DoneFacts DEF Return
      <3> QED
        BY <3>1
    <2>2. CASE Level # 1
      <3> DEFINE n == Len(stack) - 1
                 p == stack[n]
                 d == Resumed(p, Top.own)
      <3>1. /\ n \in Nat \ {0} /\ n \in DOMAIN stack /\ DOMAIN stack' = 1 .. n /\ p.nested
            /\ Active(p, SessionIds) /\ StepOf(p) \in {"sub", "authorize", "authorize_nv"} /\ Top.own \in SessionIds
            /\ stack'[n] = d /\ \A i \in 1 .. n : i < n => stack'[i] = stack[i] /\ i \in DOMAIN stack
        BY <1>9, <2>2, ReturnFacts
      <3> HIDE DEF n
      <3>2. ContextOK(d)
        BY <1>2, <3>1, ResumedEffect
      <3> HIDE DEF d
      <3>3. ASSUME NEW i \in DOMAIN stack' PROVE ContextOK(stack'[i])
        <4>1. n \in Nat /\ i \in 1 .. n
          BY <3>1
        <4>2. i = n \/ i < n
          BY <4>1
        <4> QED
          BY <1>2, <3>1, <3>2, <4>1, <4>2
      <3> QED
        BY <3>3
    <2> QED
      BY <2>1, <2>2
  <1>10. CASE ReturnWithoutAuth
    <2>1. stack' = ClearCurrent
      BY <1>10 DEF ReturnWithoutAuth
    <2>2. DOMAIN ClearCurrent = 1 .. Level - 1 /\ \A i \in 1 .. Level - 1 : ClearCurrent[i] = stack[i] /\ i \in DOMAIN stack
      BY <1>10, DoneFacts
    <2> QED
      BY <1>2, <2>1, <2>2
  <1>11. CASE Pops
    <2> DEFINE n == Len(stack) - 1
    <2>1. /\ stack \in Seq(Contexts(SessionIds)) /\ DOMAIN stack' = 1 .. n /\ \A i \in 1 .. n : i \in DOMAIN stack
          /\ FlushesSession => \A i \in 1 .. n : stack'[i] = Forgetting(stack[i], Top.session)
          /\ ~FlushesSession => \A i \in 1 .. n : stack'[i] = stack[i]
      BY <1>11, PopsFacts
    <2> HIDE DEF n
    <2>2. ASSUME NEW i \in DOMAIN stack' PROVE ContextOK(stack'[i])
      <3>1. i \in DOMAIN stack /\ stack[i] \in Contexts(SessionIds) /\ ContextOK(stack[i])
        BY <1>2, <2>1
      <3>2. ContextOK(Forgetting(stack[i], Top.session))
        BY <1>1, <3>1, ContextKept
      <3> QED
        BY <2>1, <3>1, <3>2
    <2> QED
      BY <2>2
  <1> QED
    BY <1>1, <1>3, <1>5, <1>6, <1>7, <1>8, <1>9, <1>10, <1>11 DEF StackChange

-----------------------------------------------------------------------------
(* How the actions change sessions and keys.                               *)

SameOwner(d, c) == d.ready = c.ready /\ d.session = c.session /\ d.own = c.own
Retouched(d) == Innermost /\ Update(d) /\ Touched(d, Top) /\ SameOwner(d, Top)

\* Sessions are not flushed, or s is.
KeptIn(ts, ss) ==
    /\ DOMAIN ts = DOMAIN ss
    /\ \A s \in DOMAIN ss :
          ts[s].flushes = ss[s].flushes /\ (ts[s].live => ss[s].live) /\ (ss[s].used => ts[s].used)
FlushedIn(ts, ss, s) ==
    /\ DOMAIN ts = DOMAIN ss
    /\ \A i \in DOMAIN ss : /\ ts[i].flushes = IF i = s THEN ss[i].flushes + 1 ELSE ss[i].flushes
                            /\ ts[i].live => ss[i].live /\ i # s
                            /\ ss[i].used => ts[i].used
SessionsKept == KeptIn(sessions', sessions)

\* The step goes on, is done, or fails.
Quiet ==
    /\ Executing /\ Executing' /\ UNCHANGED <<keys, sessions>>
    /\ stack' = stack \/ \E d : Retouched(d)
Does(e) ==
    /\ Executing /\ Executing' /\ Steps(e) /\ Update(Advance(e)) /\ SessionsKept
    /\ HasKey(Top) /\ ~HasKey(e) => keys' = keys - 1
    /\ ~HasKey(Top) /\ HasKey(e) => keys' = keys + 1
    /\ (HasKey(e) <=> HasKey(Top)) => keys' = keys
    /\ \A s \in DOMAIN sessions : sessions'[s].live => s # Top.auth
Breaks ==
    /\ Innermost /\ rc' = rc /\ err' # "none" /\ keys' = keys /\ SessionsKept
    /\ stack' = stack \/ \E d : Retouched(d)
    /\ \A s \in DOMAIN sessions : s = Top.auth => sessions'[s].used \/ SentOut'
Creates ==
    /\ create_session_finish /\ Executing'
    /\ sessions' = Append(sessions, [digest |-> Zero, live |-> TRUE, flushes |-> 0, used |-> FALSE])
    /\ Update(WithOwn(Top, Len(sessions')))

\* Marking the session s.
LEMMA SessionFields ==
  ASSUME NEW ss, SessionsOK(ss), NEW s, NEW ts
  PROVE  /\ \A v : ts = WithDigest(ss, s, v) => KeptIn(ts, ss)
         /\ ts = WithUse(ss, s) => KeptIn(ts, ss) /\ \A i \in DOMAIN ss : i = s => ts[i].used
         /\ ts = WithEnd(ss, s) => KeptIn(ts, ss) /\ \A i \in DOMAIN ss : ts[i].live => i # s
         /\ ts = WithFlush(ss, s) => FlushedIn(ts, ss, s)
  <1>1. \A i \in DOMAIN ss : DOMAIN ss[i] = {"digest", "live", "flushes", "used"}
    BY DEF SessionsOK, RecordOK
  <1>2. ASSUME NEW v, ts = WithDigest(ss, s, v) PROVE KeptIn(ts, ss)
    <2> DEFINE q == [ss[s] EXCEPT !.digest = v]
    <2>1. s \in DOMAIN ss => q.live = ss[s].live /\ q.flushes = ss[s].flushes /\ q.used = ss[s].used
      BY <1>1
    <2>2. ts = [ss EXCEPT ![s] = q]
      BY <1>2 DEF WithDigest
    <2> HIDE DEF q
    <2>3. DOMAIN ts = DOMAIN ss /\ \A i \in DOMAIN ss : ts[i] = IF i = s THEN q ELSE ss[i]
      BY <2>2
    <2> QED
      BY <1>1, <2>1, <2>3 DEF KeptIn
  <1>3. ASSUME ts = WithUse(ss, s) PROVE KeptIn(ts, ss) /\ \A i \in DOMAIN ss : i = s => ts[i].used
    <2> DEFINE q == [ss[s] EXCEPT !.used = TRUE]
    <2>1. s \in DOMAIN ss => q.live = ss[s].live /\ q.flushes = ss[s].flushes /\ q.used = TRUE
      BY <1>1
    <2>2. ts = [ss EXCEPT ![s] = q]
      BY <1>3 DEF WithUse
    <2> HIDE DEF q
    <2>3. DOMAIN ts = DOMAIN ss /\ \A i \in DOMAIN ss : ts[i] = IF i = s THEN q ELSE ss[i]
      BY <2>2
    <2> QED
      BY <1>1, <2>1, <2>3 DEF KeptIn
  <1>4. ASSUME ts = WithEnd(ss, s) PROVE KeptIn(ts, ss) /\ \A i \in DOMAIN ss : ts[i].live => i # s
    <2> DEFINE q == [ss[s] EXCEPT !.live = FALSE, !.used = TRUE]
    <2>1. s \in DOMAIN ss => q.live = FALSE /\ q.flushes = ss[s].flushes /\ q.used = TRUE
      BY <1>1
    <2>2. ts = [ss EXCEPT ![s] = q]
      BY <1>4 DEF WithEnd
    <2> HIDE DEF q
    <2>3. DOMAIN ts = DOMAIN ss /\ \A i \in DOMAIN ss : ts[i] = IF i = s THEN q ELSE ss[i]
      BY <2>2
    <2> QED
      BY <1>1, <2>1, <2>3 DEF KeptIn
  <1>5. ASSUME ts = WithFlush(ss, s) PROVE FlushedIn(ts, ss, s)
    <2> DEFINE q == [ss[s] EXCEPT !.live = FALSE, !.flushes = @ + 1]
    <2>1. s \in DOMAIN ss => q.live = FALSE /\ q.flushes = ss[s].flushes + 1 /\ q.used = ss[s].used
      BY <1>1
    <2>2. ts = [ss EXCEPT ![s] = q]
      BY <1>5 DEF WithFlush
    <2> HIDE DEF q
    <2>3. DOMAIN ts = DOMAIN ss /\ \A i \in DOMAIN ss : ts[i] = IF i = s THEN q ELSE ss[i]
      BY <2>2
    <2> QED
      BY <1>1, <2>1, <2>3 DEF FlushedIn
  <1> QED
    BY <1>2, <1>3, <1>4, <1>5

\* A level is left to enter.
LEMMA EnterFacts ==
  ASSUME IInv, Enter
  PROVE  UNCHANGED <<err, at, stack, rc, keys, sessions, pending, create, result>> /\ Executing /\ Executing'
  <1>1. Executing /\ RunningInv /\ TypeOK
    BY DEF Enter, IInv
  <1>2. cur = Len(frames) /\ cur \in Nat /\ Len(stack) \in Nat \ {0} /\ Len(frames) <= Len(stack)
    BY <1>1 DEF RunningInv, Executing, TypeOK
  <1>3. cur < Len(stack)
    <2>1. CASE frames = <<>>
      BY <1>2, <2>1
    <2>2. CASE frames # <<>>
      <3>1. Top.nested
        BY <2>2 DEF Enter
      <3>2. Level = cur /\ Level \in DOMAIN stack
        BY <1>1, <2>2, LevelFacts
      <3> QED
        BY <1>1, <3>1, <3>2 DEF RunningInv, Executing, Top
    <2> QED
      BY <2>1, <2>2
  <1>4. (IF cur < Len(stack) THEN cur + 1 ELSE 0) # 0
    BY <1>2, <1>3
  <1>5. UNCHANGED <<err, at, stack, rc, keys, sessions, pending, create, result>>
    BY <1>4 DEF Enter
  <1> QED
    BY <1>1, <1>5 DEF Executing

\* An authorization is held by the innermost context only, when its command is next.
LEMMA AuthHeld ==
  ASSUME IInv, ContextInv, Innermost, NEW i \in DOMAIN stack, stack[i].auth # None
  PROVE  i = Len(stack) /\ stack[i] = Top /\ Top.list # <<>> /\ StepOf(Top) \in {"Policy", "NV_Read"} /\ TypeOf(Top) # "POLICYSIGNED"
  <1>1. stack[i].list # <<>> /\ StepOf(stack[i]) \in {"Policy", "NV_Read"} /\ TypeOf(stack[i]) # "POLICYSIGNED"
    BY DEF ContextInv, AuthOK
  <1>2. ~stack[i].nested
    BY <1>1 DEF IInv, StepInv, AtStep, StepOf
  <1>3. /\ Len(stack) \in Nat /\ DOMAIN stack = 1 .. Len(stack) /\ Inner = Top
        /\ \A j \in DOMAIN stack : j < Len(stack) => stack[j].nested
    BY InnerFacts
  <1>4. i = Len(stack)
    BY <1>2, <1>3
  <1> QED
    BY <1>1, <1>3, <1>4 DEF Inner

\* Nobody is given a session by a step that does not send a command.
LEMMA NoAuth ==
  ASSUME IInv, ContextInv, Innermost, ~Top.ready \/ Top.list = <<>> \/ StepOf(Top) \notin {"Policy", "NV_Read"}
  PROVE  Top.auth = None /\ \A i \in DOMAIN stack : stack[i].auth = None
  <1>1. Inner = Top /\ Len(stack) \in DOMAIN stack
    BY InnerFacts
  <1>2. AuthOK(Top) /\ CallOK(Top)
    BY <1>1 DEF ContextInv, Inner
  <1>3. Top.auth = None
    BY <1>2 DEF AuthOK, CallOK
  <1> QED
    BY <1>3, AuthHeld

LEMMA NoneNoSession ==
  ASSUME IInv
  PROVE  /\ SessionsOK(sessions) /\ Len(sessions) \in Nat /\ DOMAIN sessions = 1 .. Len(sessions)
         /\ \A s \in DOMAIN sessions : s # None /\ s \in Nat /\ s > None
         /\ \A s \in SessionIds : s \in Nat /\ (s # None => s \in DOMAIN sessions) /\ s <= Len(sessions)
  <1>1. SessionsOK(sessions) /\ sessions \in Seq(Range(sessions))
    BY Split DEF DataOK, SessionsOK
  <1>2. Len(sessions) \in Nat /\ DOMAIN sessions = 1 .. Len(sessions)
    BY <1>1
  <1> QED
    BY <1>1, <1>2 DEF None, SessionIds

LEMMA SessionsSame ==
  ASSUME sessions' = sessions
  PROVE  SessionsKept
  BY DEF SessionsKept, KeptIn

\* A step that fails without giving a session to a command.
LEMMA BreaksPlain ==
  ASSUME IInv, ContextInv, Innermost, ~Top.ready \/ Top.list = <<>> \/ StepOf(Top) \notin {"Policy", "NV_Read"},
         rc' = rc, err' # "none", UNCHANGED <<keys, sessions, stack>>
  PROVE  Breaks
  <1>1. Top.auth = None
    BY NoAuth
  <1>2. \A s \in DOMAIN sessions : s # Top.auth
    BY <1>1, NoneNoSession
  <1> QED
    BY <1>2, SessionsSame DEF Breaks

Kind ==
    \/ UNCHANGED vars \/ rc' = "crashed" \/ Begin \/ BeginUnselected \/ Quiet \/ UseSession \/ Creates
    \/ (\E e : Does(e)) \/ Breaks \/ Nest \/ (Return /\ rc' # "crashed") \/ ReturnWithoutAuth \/ Pops

LEMMA CallbackKind ==
  ASSUME IInv, ContextInv, Callback
  PROVE  Quiet \/ (\E e : Does(e)) \/ Breaks
  <1> DEFINE e == CalledBack(Top)
  <1>1. /\ InElement /\ Innermost /\ Executing /\ Step \in Callbacks /\ StepOf(Top) = Step /\ Active(Top, SessionIds)
        /\ Step \notin {"Policy", "NV_Read"}
    BY InElementFacts DEF Callback, Callbacks
  <1>2. ContextOK(Top) /\ Top.auth = None
    <2>1. Inner = Top /\ Len(stack) \in DOMAIN stack
      BY <1>1, InnerFacts
    <2> QED
      BY <1>1, <2>1, NoAuth DEF ContextInv, ContextOK, Inner
  <1>3. ~HasKey(Top) /\ (HasKey(e) <=> Step = "load_key")
    BY <1>1, <1>2, CalledBackEffect
  <1>4. sessions' = sessions /\ rc' = rc
    BY DEF Callback
  <1>5. CASE err' # "none"
    <2>1. UNCHANGED <<stack, keys>>
      BY <1>1, <1>5 DEF Callback, Executing
    <2> QED
      BY <1>1, <1>4, <1>5, <2>1, BreaksPlain
  <1>6. CASE err' = "none"
    <2>1. Update(Advance(e)) /\ keys' = IF Step = "load_key" THEN keys + 1 ELSE keys
      BY <1>1, <1>6 DEF Callback, CalledBack, Fails, FailsAt
    <2>2. Executing'
      BY <1>1, <1>4, <1>6 DEF Executing
    <2>3. Steps(e)
      BY <1>1 DEF Steps
    <2>4. \A s \in DOMAIN sessions : s # Top.auth
      BY <1>2, NoneNoSession
    <2> HIDE DEF e
    <2>5. Does(e)
      BY <1>1, <1>3, <1>4, <2>1, <2>2, <2>3, <2>4, SessionsSame DEF Does
    <2> QED
      BY <2>5
  <1> QED
    BY <1>5, <1>6

LEMMA AuthorizeKind ==
  ASSUME IInv, ContextInv, AuthorizeByValue
  PROVE  (\E e : Does(e)) \/ Breaks
  <1> DEFINE e == AuthorizedBy(Top, None)
  <1>1. /\ InElement /\ Innermost /\ Executing /\ Step \in {"authorize", "authorize_nv"} /\ StepOf(Top) = Step
        /\ Active(Top, SessionIds) /\ Step \notin {"Policy", "NV_Read"} /\ None \in SessionIds
    BY InElementFacts DEF AuthorizeByValue, SessionIds
  <1>2. ContextOK(Top) /\ Top.auth = None
    <2>1. Inner = Top /\ Len(stack) \in DOMAIN stack
      BY <1>1, InnerFacts
    <2> QED
      BY <1>1, <2>1, NoAuth DEF ContextInv, ContextOK, Inner
  <1>3. Authorized(Top, None) = Advance(e) /\ (HasKey(e) <=> HasKey(Top))
    BY <1>1, <1>2, AuthorizedEffect
  <1>4. sessions' = sessions /\ rc' = rc /\ keys' = keys
    BY DEF AuthorizeByValue
  <1>5. CASE err' # "none"
    <2>1. UNCHANGED stack
      BY <1>1, <1>5 DEF AuthorizeByValue, Executing
    <2> QED
      BY <1>1, <1>4, <1>5, <2>1, BreaksPlain
  <1>6. CASE err' = "none"
    <2>1. Update(Authorized(Top, None))
      BY <1>1, <1>6 DEF AuthorizeByValue, Fails, FailsAt
    <2>2. Executing'
      BY <1>1, <1>4, <1>6 DEF Executing
    <2>3. Steps(e)
      BY <1>1 DEF Steps
    <2>4. \A s \in DOMAIN sessions : s # Top.auth
      BY <1>2, NoneNoSession
    <2> HIDE DEF e
    <2>5. Does(e)
      BY <1>1, <1>3, <1>4, <2>1, <2>2, <2>3, <2>4, SessionsSame DEF Does
    <2> QED
      BY <2>5
  <1> QED
    BY <1>5, <1>6

LEMMA FinishKind ==
  ASSUME IInv, ContextInv, Finish
  PROVE  Does(Answered(Top))
  <1> DEFINE e == Answered(Top)
  <1>1. InElement /\ Innermost /\ Executing /\ Step \in Commands /\ Accepted /\ Update(Advance(e)) /\ rc' = rc /\ err' = err
    BY InElementFacts DEF Finish
  <1>2. ContextOK(Top)
    <2>1. Inner = Top /\ Len(stack) \in DOMAIN stack
      BY <1>1, InnerFacts
    <2> QED
      BY <2>1 DEF ContextInv, ContextOK, Inner
  <1>3. /\ Top.auth # None => UsesAuth
        /\ Step = "LoadExternal" => ~HasKey(Top) /\ HasKey(e)
        /\ Step = "FlushContext" => HasKey(Top) /\ ~HasKey(e)
        /\ Step \notin {"LoadExternal", "FlushContext"} => (HasKey(e) <=> HasKey(Top))
    BY <1>1, <1>2, AnsweredEffect
  <1>4. /\ HasKey(Top) /\ ~HasKey(e) => keys' = keys - 1
        /\ ~HasKey(Top) /\ HasKey(e) => keys' = keys + 1
        /\ (HasKey(e) <=> HasKey(Top)) => keys' = keys
    <2>1. CASE Step = "LoadExternal"
      BY <1>3, <2>1 DEF Finish
    <2>2. CASE Step = "FlushContext"
      BY <1>3, <2>2 DEF Finish
    <2>3. CASE Step \notin {"LoadExternal", "FlushContext"}
      BY <1>3, <2>3 DEF Finish
    <2> QED
      BY <2>1, <2>2, <2>3
  <1> DEFINE ss == Extended(sessions)
  <1>5. /\ SessionsOK(ss) /\ DOMAIN ss = DOMAIN sessions /\ KeptIn(ss, sessions)
    <2>1. CASE Step = "Policy"
      <3>1. \E v : ss = WithDigest(sessions, Top.session, v)
        BY <2>1 DEF Extended, WithDigest
      <3> HIDE DEF ss
      <3>2. SessionsOK(sessions)
        BY NoneNoSession
      <3>3. SessionsOK(ss)
        BY <3>1, <3>2, SessionMarked
      <3>4. KeptIn(ss, sessions)
        BY <3>1, <3>2, SessionFields
      <3> QED
        BY <3>3, <3>4 DEF KeptIn
    <2>2. CASE Step # "Policy"
      BY <2>2, NoneNoSession DEF Extended, KeptIn
    <2> QED
      BY <2>1, <2>2
  <1>6. sessions' = Ended(ss)
    BY DEF Finish
  <1> HIDE DEF ss, e
  <1>7. SessionsKept /\ \A s \in DOMAIN sessions : sessions'[s].live => s # Top.auth
    <2>1. CASE UsesAuth
      <3>1. sessions' = WithEnd(ss, Top.auth)
        BY <1>6, <2>1 DEF Ended, WithEnd
      <3>2. KeptIn(sessions', ss) /\ \A i \in DOMAIN ss : sessions'[i].live => i # Top.auth
        BY <1>5, <3>1, SessionFields
      <3> QED
        BY <1>5, <3>2 DEF SessionsKept, KeptIn
    <2>2. CASE ~UsesAuth
      <3>1. sessions' = ss /\ Top.auth = None
        BY <1>3, <1>6, <2>2 DEF Ended
      <3>2. \A s \in DOMAIN sessions : s # Top.auth
        BY <3>1, NoneNoSession
      <3> QED
        BY <1>5, <3>1, <3>2 DEF SessionsKept
    <2> QED
      BY <2>1, <2>2
  <1>8. Steps(e) /\ Executing'
    BY <1>1 DEF Steps, e, Executing
  <1> QED
    BY <1>1, <1>4, <1>7, <1>8 DEF Does, e

LEMMA SendKind ==
  ASSUME IInv, AtInv, ContextInv, Send
  PROVE  Quiet \/ Breaks
  <1>1. /\ InElement /\ Innermost /\ Executing /\ Step \in Commands /\ StepOf(Top) = Step /\ rc' = rc
        /\ UNCHANGED <<keys, sessions>> /\ Top \in Contexts(SessionIds) /\ at = Nowhere
    BY InElementFacts DEF Send, AtInv
  <1>2. CASE err' = "none"
    <2> DEFINE d == [Top EXCEPT !.sent = TRUE]
    <2>1. Update(d)
      BY <1>1, <1>2 DEF Send, Fails, FailsAt
    <2>2. Touched(d, Top) /\ SameOwner(d, Top)
      BY <1>1 DEF Contexts, Touched, SameHeld, SameOwner
    <2> HIDE DEF d
    <2> QED
      BY <1>1, <1>2, <2>1, <2>2 DEF Quiet, Retouched, Executing
  <1>3. CASE err' # "none"
    <2>1. stack' = stack /\ at' = <<Type, Step, "sent">>
      BY <1>1, <1>3 DEF Send, Fails, FailsAt, Executing
    <2>2. CASE Step \in {"Policy", "NV_Read"}
      <3>1. SentOut'
        BY <2>1, <2>2 DEF SentOut, Nowhere
      <3> QED
        BY <1>1, <1>3, <2>1, <3>1, SessionsSame DEF Breaks
    <2>3. CASE Step \notin {"Policy", "NV_Read"}
      BY <1>1, <1>3, <2>1, <2>3, BreaksPlain
    <2> QED
      BY <2>2, <2>3
  <1> QED
    BY <1>2, <1>3

LEMMA FinishFailsKind ==
  ASSUME IInv, ContextInv, FinishFails
  PROVE  Breaks
  <1> DEFINE d == [Top EXCEPT !.sent = FALSE]
  <1>1. /\ InElement /\ Innermost /\ StepOf(Top) = Step /\ Type = TypeOf(Top) /\ rc' = rc /\ keys' = keys /\ err' # "none"
        /\ Update(d) /\ Top \in Contexts(SessionIds)
    BY InElementFacts DEF FinishFails, Fails, FailsAt, Type, TypeOf, Item
  <1>2. Touched(d, Top) /\ SameOwner(d, Top)
    BY <1>1 DEF Contexts, Touched, SameHeld, SameOwner
  <1> HIDE DEF d
  <1>3. Top.auth # None => UsesAuth
    <2>1. Inner = Top /\ Len(stack) \in DOMAIN stack
      BY <1>1, InnerFacts
    <2>2. AuthOK(Top)
      BY <2>1 DEF ContextInv, Inner
    <2> QED
      BY <1>1, <2>2 DEF AuthOK, UsesAuth
  <1>4. SessionsKept /\ \A s \in DOMAIN sessions : s = Top.auth => sessions'[s].used
    <2>1. CASE UsesAuth
      <3>1. sessions' = WithUse(sessions, Top.auth)
        BY <2>1 DEF FinishFails, WithUse
      <3> QED
        BY <3>1, NoneNoSession, SessionFields DEF SessionsKept
    <2>2. CASE ~UsesAuth
      <3>1. sessions' = sessions /\ Top.auth = None
        BY <1>3, <2>2 DEF FinishFails
      <3> QED
        BY <3>1, NoneNoSession, SessionsSame
    <2> QED
      BY <2>1, <2>2
  <1> QED
    BY <1>1, <1>2, <1>4 DEF Breaks, Retouched

LEMMA Kinds ==
  ASSUME IInv, AtInv, ContextInv, [Next]_vars
  PROVE  Kind
  <1>1. CASE UNCHANGED vars \/ Begin \/ BeginUnselected \/ UseSession \/ Nest \/ Return \/ ReturnWithoutAuth
    BY <1>1 DEF Kind
  <1>2. CASE Enter
    BY <1>2, EnterFacts DEF Kind, Quiet
  <1>3. CASE create_session_send
    <2>1. Innermost /\ Executing /\ ~Top.ready /\ UNCHANGED <<rc, keys, sessions, stack>>
      BY <1>3 DEF create_session_send, Unready, Innermost
    <2>2. CASE err' = "none"
      BY <2>1, <2>2 DEF Kind, Quiet, Executing
    <2>3. CASE err' # "none"
      BY <2>1, <2>3, BreaksPlain DEF Kind
    <2> QED
      BY <2>2, <2>3
  <1>4. CASE create_session_finish
    <2>1. Innermost /\ Executing /\ ~Top.ready /\ UNCHANGED <<rc, keys>>
      BY <1>4 DEF create_session_finish, Unready, Innermost
    <2>2. CASE err' = "none"
      <3>1. /\ sessions' = Append(sessions, [digest |-> Zero, live |-> TRUE, flushes |-> 0, used |-> FALSE])
            /\ Update(WithOwn(Top, Len(sessions')))
        BY <1>4, <2>2 DEF create_session_finish, FailsAt, WithOwn
      <3> QED
        BY <1>4, <2>1, <2>2, <3>1 DEF Kind, Creates, Executing
    <2>3. CASE err' # "none"
      <3>1. UNCHANGED <<sessions, stack>>
        BY <1>4, <2>1, <2>3 DEF create_session_finish, Executing
      <3> QED
        BY <2>1, <2>3, <3>1, BreaksPlain DEF Kind
    <2> QED
      BY <2>2, <2>3
  <1>5. CASE create_session_wait
    BY <1>5 DEF create_session_wait, Kind, Quiet, Unready, Executing
  <1>6. CASE Callback
    BY <1>6, CallbackKind DEF Kind
  <1>7. CASE CallbackWaits
    <2>1. InElement /\ Innermost /\ Executing /\ UNCHANGED <<rc, err, keys, sessions>> /\ Top \in Contexts(SessionIds)
      BY <1>7, InElementFacts DEF CallbackWaits
    <2>2. CASE stack' = stack
      BY <2>1, <2>2 DEF Kind, Quiet, Executing
    <2>3. CASE stack' # stack
      <3> DEFINE d == Signed(Top)
      <3>1. Update(d)
        BY <1>7, <2>3 DEF CallbackWaits
      <3>2. Touched(d, Top) /\ SameOwner(d, Top)
        BY <2>1 DEF Signed, Contexts, Touched, SameHeld, SameOwner
      <3> HIDE DEF d
      <3> QED
        BY <2>1, <3>1, <3>2 DEF Kind, Quiet, Retouched, Executing
    <2> QED
      BY <2>2, <2>3
  <1>8. CASE SignsNothing
    BY <1>8 DEF SignsNothing, Kind
  <1>9. CASE AuthorizeByValue
    BY <1>9, AuthorizeKind DEF Kind
  <1>10. CASE NestUnselected
    <2>1. /\ Innermost /\ err' # "none" /\ UNCHANGED <<keys, sessions, stack>> /\ Step \notin {"Policy", "NV_Read"}
          /\ StepOf(Top) = Step /\ rc' \in {rc, "crashed"}
      BY <1>10, InElementFacts DEF NestUnselected, FailsAt, NeedsPolicy
    <2> QED
      BY <2>1, BreaksPlain DEF Kind
  <1>11. CASE Send
    BY <1>11, SendKind DEF Kind
  <1>12. CASE SendWaits
    BY <1>12 DEF SendWaits, Kind, Quiet, InElement, Executing
  <1>13. CASE Finish
    BY <1>13, FinishKind DEF Kind
  <1>14. CASE FinishFails
    BY <1>14, FinishFailsKind DEF Kind
  <1>15. CASE Unwind
    BY <1>15 DEF Kind, Pops
  <1> QED
    BY <1>1, <1>2, <1>3, <1>4, <1>5, <1>6, <1>7, <1>8, <1>9, <1>10, <1>11, <1>12, <1>13, <1>14, <1>15 DEF Next

-----------------------------------------------------------------------------
(* What ESYS has sent.                                                     *)

LEMMA PendingAt ==
  ASSUME IInv, ContextInv, PendingInv, Innermost
  PROVE  /\ ContextOK(Top) /\ Inner = Top /\ Len(stack) \in DOMAIN stack /\ Len(stack) \in Nat \ {0} /\ Level = Len(stack)
         /\ Top.sent \in BOOLEAN
         /\ GetsSession <=> Len(stack) > 1 /\ AtSub(Len(stack))
         /\ Top.list = <<>> \/ StepOf(Top) \notin Commands => ~Top.sent
         /\ Top.sent => pending = "command" /\ create = "INIT"
         /\ Top.ready /\ ~Top.sent => pending = "none" /\ create = "INIT"
         /\ ~Top.ready => /\ ~Top.sent
                          /\ \/ pending = "none" /\ create = "INIT"
                             \/ pending = "session" /\ ~GetsSession
  <1>1. Inner = Top /\ Len(stack) \in DOMAIN stack /\ Len(stack) \in Nat \ {0} /\ Level = Len(stack) /\ Executing /\ Top \in Contexts(SessionIds)
    BY InnerFacts
  <1>2. ContextOK(Top)
    BY <1>1 DEF ContextInv, ContextOK, Inner
  <1>3. GetsSession <=> Len(stack) > 1 /\ AtSub(Len(stack))
    BY <1>1 DEF GetsSession, AtSub, StepOf
  <1>4. CallOK(Top)
    BY <1>2 DEF ContextOK
  <1>5. \/ pending = "none" /\ create = "INIT" /\ ~Top.sent
        \/ pending = "command" /\ create = "INIT" /\ Top.sent
        \/ pending = "session" /\ ~Top.ready /\ ~GetsSession
    BY <1>1, <1>3 DEF PendingInv
  <1>6. Top.sent \in BOOLEAN
    BY <1>1 DEF Contexts
  <1> QED
    BY <1>1, <1>2, <1>3, <1>4, <1>5, <1>6 DEF CallOK

LEMMA PendingNone ==
  ASSUME pending' = "none", create' = "INIT", ~Executing' \/ ~(Inner.sent)'
  PROVE  PendingInv'
  BY DEF PendingInv

LEMMA PendingNext ==
  ASSUME SignedByValue, IInv, ContextInv, PendingInv, [Next]_vars
  PROVE  PendingInv'
  <1>1. CASE UNCHANGED vars
    BY <1>1 DEF PendingInv, Executing, Inner, AtSub, vars
  <1>2. CASE Begin
    <2>1. create = "INIT" /\ pending \in {"none", "session"} /\ UNCHANGED <<create, pending>>
      BY <1>2 DEF Begin, PendingInv, Executing
    <2>2. PICK list \in Seq(Items) : Len(stack') = 1 /\ Inner' = NewContext(list)
      BY <1>2, BeginFacts
    <2>3. ~NewContext(list).sent /\ ~NewContext(list).ready
      BY DEF NewContext
    <2>4. ~(Inner.sent)' /\ ~(Inner.ready)' /\ ~(Len(stack') > 1)
      BY <2>2, <2>3
    <2> QED
      BY <2>1, <2>4 DEF PendingInv
  <1>3. CASE BeginUnselected
    BY <1>3 DEF BeginUnselected, PendingInv, Executing
  <1>4. CASE Enter
    <2>1. UNCHANGED <<err, stack, rc, pending, create>>
      BY <1>4, EnterFacts
    <2> QED
      BY <2>1 DEF PendingInv, Executing, Inner, AtSub
  <1>5. CASE UseSession
    <2> DEFINE d == WithSession(Top, stack[Level - 1].session)
    <2>1. Innermost /\ ~Top.ready /\ GetsSession /\ Update(d) /\ UNCHANGED <<pending, create>> /\ Top \in Contexts(SessionIds)
      BY <1>5, InnerFacts DEF UseSession, Unready, Innermost, WithSession
    <2>2. pending = "none" /\ create = "INIT" /\ ~Top.sent
      BY <2>1, PendingAt
    <2>3. ~d.sent
      BY <2>1, <2>2 DEF WithSession, Contexts
    <2> HIDE DEF d
    <2>4. Inner' = d
      BY <2>1, UpdateFacts
    <2> QED
      BY <2>1, <2>2, <2>3, <2>4, PendingNone
  <1>6. CASE create_session_send
    <2>1. Innermost /\ ~Top.ready /\ ~GetsSession /\ UNCHANGED <<stack, rc>>
      BY <1>6 DEF create_session_send, Unready, Innermost
    <2>2. /\ Inner = Top /\ (Len(stack) > 1 => ~AtSub(Len(stack))) /\ Len(stack) \in Nat
          /\ pending \in {"none", "session"}
      BY <2>1, PendingAt
    <2>3. CASE pending = "none"
      <3>1. pending' = "session" /\ ~(Inner.ready)' /\ (Len(stack') > 1 => ~(AtSub(Len(stack)))')
        BY <1>6, <2>1, <2>2, <2>3 DEF create_session_send, Inner, AtSub
      <3>2. Executing'
        BY <1>6, <2>1, <2>3 DEF create_session_send, Innermost, Executing
      <3> QED
        BY <3>1, <3>2 DEF PendingInv, AtSub
    <2>4. CASE pending # "none"
      <3>1. pending' = "session" /\ create' = "INIT" /\ err' # "none"
        BY <1>6, <2>2, <2>4 DEF create_session_send, FailsAt
      <3> QED
        BY <3>1 DEF PendingInv, Executing
    <2> QED
      BY <2>3, <2>4
  <1>7. CASE create_session_finish
    <2>1. Innermost /\ ~Top.ready /\ pending' = "none" /\ create' = "INIT" /\ Top \in Contexts(SessionIds)
      BY <1>7, InnerFacts DEF create_session_finish, Unready, Innermost
    <2>2. Inner = Top /\ ~Top.sent
      BY <2>1, PendingAt
    <2>3. CASE stack' = stack
      <3>1. ~(Inner.sent)'
        BY <2>2, <2>3 DEF Inner
      <3> QED
        BY <2>1, <3>1, PendingNone
    <2>4. CASE stack' # stack
      <3> DEFINE d == WithOwn(Top, Len(sessions'))
      <3>1. Update(d)
        BY <1>7, <2>4 DEF create_session_finish, WithOwn
      <3>2. ~d.sent
        BY <2>1, <2>2 DEF WithOwn, Contexts
      <3> HIDE DEF d
      <3>3. Inner' = d
        BY <2>1, <3>1, UpdateFacts
      <3> QED
        BY <2>1, <3>2, <3>3, PendingNone
    <2> QED
      BY <2>3, <2>4
  <1>8. CASE create_session_wait
    <2>1. Innermost /\ ~Top.ready /\ ~GetsSession /\ create = "WAIT" /\ UNCHANGED <<stack, rc, err, pending>>
      BY <1>8 DEF create_session_wait, Unready, Innermost
    <2>2. Inner = Top /\ (Len(stack) > 1 => ~AtSub(Len(stack))) /\ pending = "session"
      BY <2>1, PendingAt
    <2>3. Executing'
      BY <2>1 DEF Innermost, Executing
    <2> QED
      BY <2>1, <2>2, <2>3 DEF PendingInv, Inner, AtSub
  <1>9. CASE Callback \/ AuthorizeByValue
    <2>1. /\ InElement /\ Innermost /\ StepOf(Top) = Step /\ Top.ready /\ UNCHANGED <<pending, create>> /\ Step \notin Commands
          /\ None \in SessionIds /\ Active(Top, SessionIds)
      BY <1>9, InElementFacts DEF Callback, AuthorizeByValue, Callbacks, Commands, InElement, SessionIds
    <2>2. pending = "none" /\ create = "INIT" /\ Inner = Top /\ ~Top.sent /\ ContextOK(Top)
      BY <2>1, PendingAt
    <2>3. CASE stack' = stack
      <3>1. ~(Inner.sent)'
        BY <2>2, <2>3 DEF Inner
      <3> QED
        BY <2>1, <2>2, <3>1, PendingNone
    <2>4. ASSUME NEW e, Steps(e), Update(Advance(e)) PROVE PendingInv'
      <3>1. ~Advance(e).sent
        BY <2>2, <2>4, StepsEffect DEF Stepped
      <3>2. Inner' = Advance(e)
        BY <2>1, <2>4, UpdateFacts
      <3> QED
        BY <2>1, <2>2, <3>1, <3>2, PendingNone
    <2>5. CASE stack' # stack /\ Callback
      <3>1. Step \in Callbacks /\ Update(Advance(CalledBack(Top)))
        BY <2>1, <2>5 DEF Callback, CalledBack
      <3> QED
        BY <2>1, <2>4, <3>1 DEF Steps
    <2>6. CASE stack' # stack /\ AuthorizeByValue
      <3>1. Step \in {"authorize", "authorize_nv"} /\ Update(Authorized(Top, None))
        BY <2>6 DEF AuthorizeByValue
      <3>2. Authorized(Top, None) = Advance(AuthorizedBy(Top, None))
        BY <2>1, <3>1, AuthorizedByFacts
      <3> QED
        BY <2>1, <2>4, <3>1, <3>2 DEF Steps
    <2> QED
      BY <1>9, <2>3, <2>5, <2>6
  <1>10. CASE CallbackWaits
    <2>1. /\ InElement /\ Innermost /\ StepOf(Top) = Step /\ Top.ready /\ UNCHANGED <<pending, create>> /\ Step \notin Commands
          /\ Top \in Contexts(SessionIds)
      BY <1>10, InElementFacts DEF CallbackWaits, Callbacks, Commands, InElement
    <2>2. pending = "none" /\ create = "INIT" /\ Inner = Top /\ ~Top.sent
      BY <2>1, PendingAt
    <2>3. CASE stack' = stack
      <3>1. ~(Inner.sent)'
        BY <2>2, <2>3 DEF Inner
      <3> QED
        BY <2>1, <2>2, <3>1, PendingNone
    <2>4. CASE stack' # stack
      <3> DEFINE d == Signed(Top)
      <3>1. Update(d)
        BY <1>10, <2>4 DEF CallbackWaits
      <3>2. ~d.sent
        BY <2>1, <2>2 DEF Signed, Contexts
      <3> HIDE DEF d
      <3>3. Inner' = d
        BY <2>1, <3>1, UpdateFacts
      <3> QED
        BY <2>1, <2>2, <3>2, <3>3, PendingNone
    <2> QED
      BY <2>3, <2>4
  <1>11. CASE SignsNothing
    BY <1>11 DEF SignsNothing, PendingInv, Executing
  <1>12. CASE Nest
    <2>1. InElement /\ Innermost /\ StepOf(Top) = Step /\ Top.ready /\ UNCHANGED <<pending, create>> /\ Step \notin Commands
      BY <1>12, InElementFacts DEF Nest, NeedsPolicy, Commands, InElement
    <2>2. pending = "none" /\ create = "INIT"
      BY <2>1, PendingAt
    <2>3. PICK list : Inner' = NewContext(list)
      BY <1>12, NestFacts
    <2>4. ~NewContext(list).sent
      BY DEF NewContext
    <2> QED
      BY <2>1, <2>2, <2>3, <2>4, PendingNone
  <1>13. CASE NestUnselected
    <2>1. InElement /\ Innermost /\ StepOf(Top) = Step /\ Top.ready /\ UNCHANGED <<pending, create>> /\ Step \notin Commands /\ err' # "none"
      BY <1>13, InElementFacts DEF NestUnselected, NeedsPolicy, Commands, InElement, FailsAt
    <2>2. pending = "none" /\ create = "INIT"
      BY <2>1, PendingAt
    <2> QED
      BY <2>1, <2>2, PendingNone DEF Executing
  <1>14. CASE Return \/ ReturnWithoutAuth
    <2>1. Innermost /\ Top.ready /\ Top.list = <<>> /\ UNCHANGED <<pending, create>>
      BY <1>14, DoneFacts DEF Return, ReturnWithoutAuth
    <2>2. pending = "none" /\ create = "INIT"
      BY <2>1, PendingAt
    <2>3. CASE ~Executing'
      BY <2>1, <2>2, <2>3, PendingNone
    <2>4. CASE Executing'
      <3>1. Return /\ Level # 1
        BY <1>14, <2>4 DEF Return, ReturnWithoutAuth, Executing, FailsAt
      <3> DEFINE p == stack[Len(stack) - 1]
                 d == Resumed(p, Top.own)
      <3>2. /\ Len(stack) - 1 \in DOMAIN stack /\ p.nested /\ Active(p, SessionIds) /\ Top.own \in SessionIds
            /\ StepOf(p) \in {"sub", "authorize", "authorize_nv"} /\ Inner' = d
        BY <3>1, ReturnFacts
      <3>3. ContextOK(p)
        BY <3>2 DEF ContextInv, ContextOK
      <3>4. ~d.sent
        BY <3>2, <3>3, ResumedEffect DEF Stepped
      <3> HIDE DEF d
      <3> QED
        BY <2>1, <2>2, <3>2, <3>4, PendingNone
    <2> QED
      BY <2>3, <2>4
  <1>15. CASE Send
    <2>1. /\ InElement /\ Innermost /\ Top.ready /\ ~Top.sent /\ UNCHANGED <<create, rc>>
          /\ Top \in Contexts(SessionIds)
      BY <1>15, InElementFacts DEF Send, InElement
    <2>2. pending = "none" /\ create = "INIT"
      BY <2>1, PendingAt
    <2>3. CASE err' = "none"
      <3> DEFINE d == [Top EXCEPT !.sent = TRUE]
      <3>1. Update(d) /\ pending' = "command"
        BY <1>15, <2>3 DEF Send, Fails, FailsAt
      <3>2. d.sent
        BY <2>1 DEF Contexts
      <3> HIDE DEF d
      <3>3. Inner' = d
        BY <2>1, <3>1, UpdateFacts
      <3>4. Executing'
        BY <2>1, <2>3 DEF Innermost, Executing
      <3> QED
        BY <2>1, <2>2, <3>1, <3>2, <3>3, <3>4 DEF PendingInv
    <2>4. CASE err' # "none"
      <3>1. pending' = pending
        BY <1>15, <2>1, <2>4 DEF Send, Innermost, Executing
      <3> QED
        BY <2>1, <2>2, <2>4, <3>1, PendingNone DEF Executing
    <2> QED
      BY <2>3, <2>4
  <1>16. CASE SendWaits
    BY <1>16 DEF SendWaits, PendingInv, Executing, Inner, AtSub
  <1>17. CASE Finish \/ FinishFails
    <2>1. /\ InElement /\ Innermost /\ Top.sent /\ pending' = "none" /\ create' = create
      BY <1>17, InElementFacts DEF Finish, FinishFails
    <2>2. create = "INIT" /\ ContextOK(Top)
      BY <2>1, PendingAt
    <2>3. CASE Finish
      <3> DEFINE e == Answered(Top)
      <3>1. Steps(e) /\ Update(Advance(e))
        BY <2>1, <2>3 DEF Finish, Steps
      <3> HIDE DEF e
      <3>2. ~Advance(e).sent
        BY <2>2, <3>1, StepsEffect DEF Stepped
      <3>3. Inner' = Advance(e)
        BY <2>1, <3>1, UpdateFacts
      <3> QED
        BY <2>1, <2>2, <3>2, <3>3, PendingNone
    <2>4. CASE FinishFails
      <3>1. err' # "none"
        BY <2>4 DEF FinishFails, Fails, FailsAt
      <3> QED
        BY <2>1, <2>2, <3>1, PendingNone DEF Executing
    <2> QED
      BY <1>17, <2>3, <2>4
  <1>18. CASE Unwind
    <2>1. rc = "running" /\ err # "none" /\ UNCHANGED <<pending, create>> /\ ~Executing'
      BY <1>18 DEF Unwind, Executing
    <2> QED
      BY <2>1 DEF PendingInv, Executing
  <1> QED
    BY <1>1, <1>2, <1>3, <1>4, <1>5, <1>6, <1>7, <1>8, <1>9, <1>10, <1>11, <1>12, <1>13, <1>14, <1>15, <1>16, <1>17, <1>18 DEF Next

-----------------------------------------------------------------------------
(* Where the innermost context is when a step fails.                       *)

FailsHere(c) ==
    \/ c.nested /\ err = "called"
    \/ ~c.nested /\ ~c.ready
    \/ /\ ~c.nested /\ c.ready /\ c.list # <<>>
       /\ at = <<TypeOf(c), StepOf(c), err>> /\ err \in Failures(StepOf(c))

\* The step of the innermost policy fails.
LEMMA FailsInner ==
  ASSUME IInv, Innermost, Len(stack') = Len(stack), \A i \in DOMAIN stack : i < Len(stack) => stack'[i] = stack[i],
         (FailsHere(Inner))'
  PROVE  FailInv'
  <1>1. /\ Len(stack) \in Nat \ {0} /\ DOMAIN stack = 1 .. Len(stack)
        /\ \A i \in DOMAIN stack : i < Len(stack) => stack[i].nested
    BY InnerFacts
  <1>2. \A i \in 1 .. Len(stack) - 1 : stack'[i].nested
    BY <1>1
  <1> QED
    BY <1>2 DEF FailInv, FailsHere

LEMMA FailNext ==
  ASSUME IInv, AtInv, FailInv, [Next]_vars
  PROVE  FailInv'
  <1>1. CASE ~(rc' = "running" /\ err' # "none" /\ cur' # Dangling)
    BY <1>1 DEF FailInv
  <1>2. CASE UNCHANGED vars
    BY <1>2 DEF FailInv, Inner, vars
  <1>3. CASE Begin \/ BeginUnselected
    <2>1. rc \in {"idle", "done", "failed"} /\ err' = err
      BY <1>3 DEF Begin, BeginUnselected
    <2>2. err = "none"
      BY <2>1 DEF IInv, IdleInv
    <2> QED
      BY <1>1, <2>1, <2>2
  <1>4. CASE UseSession \/ create_session_wait \/ CallbackWaits \/ Nest \/ SendWaits \/ Finish \/ Return \/ SignsNothing
    <2>1. err' = "none"
      BY <1>4 DEF UseSession, create_session_wait, CallbackWaits, Nest, SendWaits, Finish, Return, SignsNothing,
                  Unready, InElement, Executing
    <2> QED
      BY <1>1, <2>1
  <1>5. CASE Enter
    BY <1>1, <1>5, EnterFacts DEF Executing
  <1>6. CASE create_session_send \/ create_session_finish
    <2>1. Innermost /\ ~Top.ready /\ ~Top.nested
      BY <1>6 DEF create_session_send, create_session_finish, Unready, Innermost
    <2>2. err' # "none" => stack' = stack
      BY <1>6, <2>1 DEF create_session_send, create_session_finish, Innermost, Executing
    <2>3. stack' = stack => (FailsHere(Inner))'
      BY <2>1, InnerFacts DEF FailsHere, Inner
    <2> QED
      BY <1>1, <2>1, <2>2, <2>3, FailsInner
  <1>7. CASE Callback \/ AuthorizeByValue \/ Send
    <2>1. /\ InElement /\ Innermost /\ StepOf(Top) = Step /\ TypeOf(Top) = Type /\ Top.ready /\ Top.list # <<>> /\ ~Top.nested
          /\ at = Nowhere /\ Executing
      BY <1>7, InElementFacts DEF Callback, AuthorizeByValue, Send, InElement, AtInv, Type, TypeOf, Item
    <2>2. CASE err' = "none"
      BY <1>1, <2>2
    <2>3. CASE err' # "none"
      <3>1. stack' = stack /\ \E how : Fails(how)
        BY <1>7, <2>1, <2>3 DEF Callback, AuthorizeByValue, Send, Executing
      <3>2. at' = <<Type, Step, err'>>
        BY <2>1, <3>1 DEF Fails, FailsAt
      <3>3. err' \in Failures(Step)
        <4>1. CASE Callback \/ AuthorizeByValue
          <5>1. Step \notin Commands /\ err' = "called"
            BY <2>1, <2>3, <4>1 DEF Callback, AuthorizeByValue, Callbacks, Commands, Fails, FailsAt, Executing
          <5> QED
            BY <5>1 DEF Failures
        <4>2. CASE Send
          <5>1. Step \in Commands /\ err' = "sent"
            BY <2>1, <2>3, <4>2 DEF Send, Fails, FailsAt, Executing
          <5> QED
            BY <5>1 DEF Failures
        <4> QED
          BY <1>7, <4>1, <4>2
      <3>4. Inner' = Top
        BY <2>1, <3>1, InnerFacts DEF Inner
      <3>5. (FailsHere(Inner))'
        BY <2>1, <3>2, <3>3, <3>4 DEF FailsHere, TypeOf, StepOf
      <3> QED
        BY <2>1, <3>1, <3>5, FailsInner
    <2> QED
      BY <2>2, <2>3
  <1>8. CASE NestUnselected
    BY <1>1, <1>8 DEF NestUnselected
  <1>9. CASE ReturnWithoutAuth
    <2>1. CASE Level = 1
      BY <1>1, <1>9, <2>1 DEF ReturnWithoutAuth
    <2>2. CASE Level # 1
      <3> DEFINE n == Level - 1
      <3>1. /\ Innermost /\ Level = Len(stack) /\ Level \in Nat \ {0} /\ Len(ClearCurrent) = n
            /\ \A i \in 1 .. n : ClearCurrent[i] = stack[i] /\ i \in DOMAIN stack
        BY <1>9, DoneFacts
      <3>2. \A i \in DOMAIN stack : i < Len(stack) => stack[i].nested
        BY <3>1, InnerFacts
      <3>3. stack' = ClearCurrent /\ err' = "called"
        BY <1>9, <2>2 DEF ReturnWithoutAuth, FailsAt
      <3>4. n \in 1 .. n /\ n \in Nat /\ n < Len(stack)
        BY <2>2, <3>1
      <3>5. \A i \in 1 .. n : stack'[i].nested
        BY <3>1, <3>2, <3>3, <3>4
      <3> HIDE DEF n
      <3>6. (Inner.nested)' /\ \A i \in 1 .. Len(stack') - 1 : stack'[i].nested
        BY <3>1, <3>3, <3>4, <3>5 DEF Inner
      <3> QED
        BY <3>3, <3>6 DEF FailInv
    <2> QED
      BY <2>1, <2>2
  <1>10. CASE FinishFails
    <2> DEFINE d == [Top EXCEPT !.sent = FALSE]
    <2>1. /\ InElement /\ Innermost /\ StepOf(Top) = Step /\ TypeOf(Top) = Type /\ Top.ready /\ Top.list # <<>> /\ ~Top.nested
          /\ at = Nowhere /\ Step \in Commands /\ Fails("finished") /\ Update(d) /\ Top \in Contexts(SessionIds)
      BY <1>10, InElementFacts DEF FinishFails, InElement, AtInv, Type, TypeOf, Item
    <2>2. at' = <<Type, Step, "finished">> /\ err' = "finished"
      BY <2>1 DEF Fails, FailsAt
    <2>3. err' \in Failures(Step)
      BY <2>1, <2>2 DEF Failures
    <2>4. d.ready /\ d.list = Top.list /\ ~d.nested /\ d.step = Top.step
      BY <2>1 DEF Contexts
    <2> HIDE DEF d
    <2>5. Len(stack') = Len(stack) /\ Inner' = d /\ \A i \in DOMAIN stack : i < Len(stack) => stack'[i] = stack[i]
      BY <2>1, UpdateFacts
    <2>6. StepOf(d) = Step /\ TypeOf(d) = Type
      BY <2>1, <2>4 DEF StepOf, TypeOf
    <2>7. (FailsHere(Inner))'
      BY <2>1, <2>2, <2>3, <2>4, <2>5, <2>6 DEF FailsHere
    <2> QED
      BY <2>1, <2>5, <2>7, FailsInner
  <1>11. CASE Unwind
    <2>1. CASE rc' = "crashed"
      BY <1>1, <2>1
    <2>2. CASE rc' # "crashed"
      <3> DEFINE n == Len(stack) - 1
      <3>1. Pops
        BY <1>11, <2>2 DEF Pops
      <3>2. /\ rc = "running" /\ err # "none" /\ cur # Dangling /\ stack \in Seq(Contexts(SessionIds))
            /\ n \in Nat /\ Len(stack') = n /\ \A i \in 1 .. n : i \in DOMAIN stack
            /\ FlushesSession => \A i \in 1 .. n : stack'[i] = Forgetting(stack[i], Top.session)
            /\ ~FlushesSession => \A i \in 1 .. n : stack'[i] = stack[i]
            /\ Level = Len(stack)
            /\ rc' = (IF Level = 1 THEN "failed" ELSE rc) /\ err' = (IF Level = 1 THEN "none" ELSE "called")
        BY <3>1, PopsFacts
      <3>3. \A i \in 1 .. n : stack[i].nested
        BY <3>2 DEF FailInv
      <3>4. ASSUME NEW i \in 1 .. n PROVE stack'[i].nested
        <4>1. stack[i] \in Contexts(SessionIds) /\ stack[i].nested /\ None \in SessionIds
          BY <3>2, <3>3 DEF SessionIds
        <4>2. Forgetting(stack[i], Top.session).nested
          BY <4>1, ContextKept
        <4> QED
          BY <3>2, <4>1, <4>2
      <3>5. CASE Level = 1
        BY <1>1, <3>2, <3>5
      <3>6. CASE Level # 1
        <4>1. n \in 1 .. n /\ err' = "called"
          BY <3>2, <3>6
        <4> HIDE DEF n
        <4>2. (Inner.nested)' /\ \A i \in 1 .. Len(stack') - 1 : stack'[i].nested
          BY <3>2, <3>4, <4>1 DEF Inner
        <4> QED
          BY <4>1, <4>2 DEF FailInv
      <3> QED
        BY <3>5, <3>6
    <2> QED
      BY <2>1, <2>2
  <1> QED
    BY <1>2, <1>3, <1>4, <1>5, <1>6, <1>7, <1>8, <1>9, <1>10, <1>11 DEF Next

-----------------------------------------------------------------------------
(* The sessions of the policies.                                           *)

LEMMA OwnNext ==
  ASSUME SignedByValue, IInv, AtInv, ContextInv, OwnInv, [Next]_vars, rc' # "crashed"
  PROVE  OwnInv'
  <1>1. Kind
    BY Kinds
  <1>2. CASE stack' = stack
    BY <1>2 DEF OwnInv, AtSub
  <1>3. ASSUME Innermost, NEW d, Update(d), d.own = Top.own \/ ~GetsSession PROVE OwnInv'
    <2>1. /\ Len(stack) \in Nat \ {0} /\ DOMAIN stack = 1 .. Len(stack) /\ Inner = Top /\ Level = Len(stack)
      BY <1>3, InnerFacts
    <2>2. /\ DOMAIN stack' = DOMAIN stack /\ stack'[Len(stack)] = d
          /\ \A i \in DOMAIN stack : i < Len(stack) => stack'[i] = stack[i]
      BY <1>3, UpdateFacts
    <2>3. ASSUME NEW i \in DOMAIN stack', i > 1, StepOf(stack'[i - 1]) = "sub" PROVE stack'[i].own = None
      <3>1. i \in DOMAIN stack /\ i - 1 \in DOMAIN stack /\ i - 1 < Len(stack)
        BY <2>1, <2>2, <2>3
      <3>2. AtSub(i) /\ stack[i].own = None
        BY <2>2, <2>3, <3>1 DEF OwnInv, AtSub
      <3>3. i = Len(stack) => GetsSession
        BY <2>1, <2>3, <3>2 DEF GetsSession, AtSub, StepOf
      <3> QED
        BY <1>3, <2>1, <2>2, <3>1, <3>2, <3>3 DEF Inner
    <2> QED
      BY <2>3 DEF OwnInv, AtSub
  <1>4. ASSUME NEW d, Retouched(d) PROVE OwnInv'
    BY <1>3, <1>4 DEF Retouched, SameOwner
  <1>5. ASSUME NEW e, Does(e) PROVE OwnInv'
    <2>1. Innermost /\ ContextOK(Top) /\ Steps(e) /\ Update(Advance(e))
      <3>1. Innermost /\ Steps(e) /\ Update(Advance(e))
        BY <1>5, InElementFacts DEF Does, Steps
      <3> QED
        BY <3>1, InnerFacts DEF ContextInv, ContextOK, Inner
    <2>2. Advance(e).own = Top.own
      BY <2>1, StepsEffect DEF Stepped
    <2> QED
      BY <1>3, <2>1, <2>2
  <1>6. CASE Begin
    <2>1. DOMAIN stack' = {1}
      BY <1>6, BeginFacts
    <2> QED
      BY <2>1 DEF OwnInv
  <1>7. CASE BeginUnselected
    BY <1>2, <1>7 DEF BeginUnselected
  <1>8. CASE Quiet \/ Breaks
    BY <1>2, <1>4, <1>8 DEF Quiet, Breaks
  <1>9. CASE UseSession
    <2> DEFINE d == WithSession(Top, stack[Level - 1].session)
    <2>1. Innermost /\ Update(d) /\ Top \in Contexts(SessionIds)
      BY <1>9, InnerFacts DEF UseSession, Unready, Innermost, WithSession
    <2>2. d.own = Top.own
      BY <2>1 DEF WithSession, Contexts
    <2> HIDE DEF d
    <2> QED
      BY <1>3, <2>1, <2>2
  <1>10. CASE Creates
    <2>1. Innermost /\ ~GetsSession /\ Update(WithOwn(Top, Len(sessions')))
      BY <1>10 DEF Creates, create_session_finish, Unready, Innermost
    <2> QED
      BY <1>3, <2>1
  <1>11. CASE Nest
    <2>1. /\ Innermost /\ Top \in Contexts(SessionIds) /\ Inner = Top /\ Len(stack) \in Nat \ {0} /\ DOMAIN stack = 1 .. Len(stack)
      BY <1>11, NestFacts, InnerFacts
    <2>2. PICK list : /\ DOMAIN stack' = 1 .. Len(stack) + 1
                      /\ stack'[Len(stack) + 1] = NewContext(list) /\ stack'[Len(stack)] = Nested(Top)
                      /\ \A i \in DOMAIN stack : i < Len(stack) => stack'[i] = stack[i]
      BY <1>11, NestFacts
    <2>3. NewContext(list).own = None /\ Nested(Top).own = Top.own
      BY <2>1, NestedKept DEF NewContext
    <2>4. ASSUME NEW i \in DOMAIN stack', i > 1, StepOf(stack'[i - 1]) = "sub" PROVE stack'[i].own = None
      <3>1. CASE i = Len(stack) + 1
        BY <2>2, <2>3, <3>1
      <3>2. CASE i # Len(stack) + 1
        <4>1. i \in DOMAIN stack /\ i - 1 \in DOMAIN stack /\ i - 1 < Len(stack) /\ (i = Len(stack) \/ i < Len(stack))
          BY <2>1, <2>2, <2>4, <3>2
        <4>2. stack[i].own = None
          BY <2>2, <2>4, <4>1 DEF OwnInv, AtSub
        <4> QED
          BY <2>1, <2>2, <2>3, <4>1, <4>2 DEF Inner
      <3> QED
        BY <3>1, <3>2
    <2> QED
      BY <2>4 DEF OwnInv, AtSub
  <1>12. CASE Return
    <2>1. CASE Level = 1
      <3>1. stack' = <<>>
        BY <1>12, <2>1, DoneFacts DEF Return
      <3> QED
        BY <3>1 DEF OwnInv
    <2>2. CASE Level # 1
      <3> DEFINE n == Len(stack) - 1
                 p == stack[n]
                 d == Resumed(p, Top.own)
      <3>1. /\ n \in Nat \ {0} /\ n \in DOMAIN stack /\ DOMAIN stack' = 1 .. n /\ p.nested
            /\ Active(p, SessionIds) /\ StepOf(p) \in {"sub", "authorize", "authorize_nv"} /\ Top.own \in SessionIds
            /\ stack'[n] = d /\ \A i \in 1 .. n : i < n => stack'[i] = stack[i] /\ i \in DOMAIN stack
        BY <1>12, <2>2, ReturnFacts
      <3> HIDE DEF n
      <3>2. ContextOK(p)
        BY <3>1 DEF ContextInv, ContextOK
      <3>3. d.own = p.own
        BY <3>1, <3>2, ResumedEffect DEF Stepped
      <3> HIDE DEF d
      <3>4. ASSUME NEW i \in DOMAIN stack', i > 1, StepOf(stack'[i - 1]) = "sub" PROVE stack'[i].own = None
        <4>1. n \in Nat /\ i \in 1 .. n
          BY <3>1
        <4>2. i - 1 \in 1 .. n /\ i - 1 < n /\ (i = n \/ i < n)
          BY <3>4, <4>1
        <4>3. i \in DOMAIN stack /\ stack[i].own = None
          BY <3>1, <3>4, <4>1, <4>2 DEF OwnInv, AtSub
        <4> QED
          BY <3>1, <3>3, <4>1, <4>2, <4>3
      <3> QED
        BY <3>4 DEF OwnInv, AtSub
    <2> QED
      BY <2>1, <2>2
  <1>13. CASE ReturnWithoutAuth
    <2> DEFINE n == Level - 1
    <2>1. stack' = ClearCurrent
      BY <1>13 DEF ReturnWithoutAuth
    <2>2. n \in Nat /\ DOMAIN ClearCurrent = 1 .. n /\ \A i \in 1 .. n : ClearCurrent[i] = stack[i] /\ i \in DOMAIN stack
      BY <1>13, DoneFacts
    <2> HIDE DEF n
    <2>3. ASSUME NEW i \in DOMAIN stack', i > 1, StepOf(stack'[i - 1]) = "sub" PROVE stack'[i].own = None
      <3>1. i - 1 \in 1 .. n /\ i \in 1 .. n
        BY <2>1, <2>2, <2>3
      <3> QED
        BY <2>1, <2>2, <2>3, <3>1 DEF OwnInv, AtSub
    <2> QED
      BY <2>3 DEF OwnInv, AtSub
  <1>14. CASE Pops
    <2> DEFINE n == Len(stack) - 1
    <2>1. /\ stack \in Seq(Contexts(SessionIds)) /\ DOMAIN stack' = 1 .. n /\ \A i \in 1 .. n : i \in DOMAIN stack
          /\ FlushesSession => \A i \in 1 .. n : stack'[i] = Forgetting(stack[i], Top.session)
          /\ ~FlushesSession => \A i \in 1 .. n : stack'[i] = stack[i]
          /\ n \in Nat
      BY <1>14, PopsFacts
    <2> HIDE DEF n
    <2>2. ASSUME NEW i \in 1 .. n PROVE StepOf(stack'[i]) = StepOf(stack[i]) /\ stack'[i].own = stack[i].own
      <3>1. stack[i] \in Contexts(SessionIds) /\ None \in SessionIds
        BY <2>1 DEF SessionIds
      <3>2. StepOf(Forgetting(stack[i], Top.session)) = StepOf(stack[i]) /\ Forgetting(stack[i], Top.session).own = stack[i].own
        BY <3>1, ContextKept
      <3> QED
        BY <2>1, <3>2
    <2>3. ASSUME NEW i \in DOMAIN stack', i > 1, StepOf(stack'[i - 1]) = "sub" PROVE stack'[i].own = None
      <3>1. i - 1 \in 1 .. n /\ i \in 1 .. n
        BY <2>1, <2>3
      <3> QED
        BY <2>1, <2>2, <2>3, <3>1 DEF OwnInv, AtSub
    <2> QED
      BY <2>3 DEF OwnInv, AtSub
  <1>15. CASE UNCHANGED vars
    BY <1>2, <1>15 DEF vars
  <1> QED
    BY <1>1, <1>5, <1>6, <1>7, <1>8, <1>9, <1>10, <1>11, <1>12, <1>13, <1>14, <1>15 DEF Kind

-----------------------------------------------------------------------------
(* Sessions are flushed once.                                              *)

\* Nothing that is freed changes the sessions.
LEMMA CrashSessions ==
  ASSUME [Next]_vars, rc' = "crashed"
  PROVE  sessions' = sessions
  <1>1. CASE UNCHANGED vars \/ SignsNothing \/ NestUnselected \/ Return \/ Unwind
    BY <1>1 DEF vars, SignsNothing, NestUnselected, Return, Unwind
  <1>2. CASE Begin \/ BeginUnselected \/ ReturnWithoutAuth
    BY <1>2 DEF Begin, BeginUnselected, ReturnWithoutAuth, Executing
  <1>3. CASE Enter \/ UseSession \/ create_session_send \/ create_session_wait \/ Callback \/ CallbackWaits
             \/ AuthorizeByValue \/ Nest \/ Send \/ SendWaits
    BY <1>3 DEF Enter, UseSession, create_session_send, create_session_wait, Callback, CallbackWaits,
                AuthorizeByValue, Nest, Send, SendWaits
  <1>4. CASE create_session_finish \/ Finish \/ FinishFails
    BY <1>4 DEF create_session_finish, Finish, FinishFails, Unready, InElement, Executing
  <1> QED
    BY <1>1, <1>2, <1>3, <1>4 DEF Next

\* Contexts keep what they have, or lose the session, and a new one has none.
OwnerKept(i) ==
    \/ i \in DOMAIN stack /\ stack'[i].own = stack[i].own /\ stack'[i].session \in {stack[i].session, None}
    \/ stack'[i].own = None /\ stack'[i].session = None

LEMMA FlushKept ==
  ASSUME IInv, IInv', FlushInv, rc # "crashed",
         \A i \in DOMAIN stack' : OwnerKept(i),
         Executing' => Executing /\ \A i \in DOMAIN stack' : i \in DOMAIN stack => stack'[i].session = stack[i].session,
         \A s \in DOMAIN sessions' : sessions'[s].flushes <= 1,
         \A i \in DOMAIN stack' :
            stack'[i].session # None => sessions'[stack'[i].session].flushes = sessions[stack'[i].session].flushes
  PROVE  FlushInv'
  <1>1. ASSUME NEW i \in DOMAIN stack', stack'[i].session # None PROVE sessions'[stack'[i].session].flushes = 0
    <2>1. i \in DOMAIN stack /\ stack'[i].session = stack[i].session
      BY <1>1 DEF OwnerKept
    <2> QED
      BY <1>1, <2>1 DEF FlushInv
  <1>2. ASSUME NEW i \in DOMAIN stack', NEW j \in DOMAIN stack', i < j, stack'[j].own # None
        PROVE  stack'[i].session < stack'[j].own
    <2>1. j \in DOMAIN stack /\ stack'[j].own = stack[j].own
      BY <1>2 DEF OwnerKept
    <2>2. stack[j].own \in SessionIds
      <3>1. stack \in Seq(Contexts(SessionIds))
        BY DEF IInv, TypeOK
      <3>2. stack[j] \in Contexts(SessionIds)
        BY <2>1, <3>1
      <3> QED
        BY <3>2 DEF Contexts
    <2>3. None < stack[j].own
      BY <1>2, <2>1, <2>2, NoneNoSession
    <2>4. stack'[i].session = None \/ (i \in DOMAIN stack /\ stack'[i].session = stack[i].session)
      BY <1>2 DEF OwnerKept
    <2> QED
      BY <1>2, <2>1, <2>3, <2>4 DEF FlushInv
  <1>3. ASSUME Executing', NEW i \in DOMAIN stack', stack'[i].own # None PROVE stack'[i].session = stack'[i].own
    <2>1. i \in DOMAIN stack /\ stack'[i].own = stack[i].own
      BY <1>3 DEF OwnerKept
    <2> QED
      BY <1>3, <2>1 DEF FlushInv
  <1> QED
    BY <1>1, <1>2, <1>3 DEF FlushInv

LEMMA FlushNext ==
  ASSUME SignedByValue, IInv, IInv', AtInv, ContextInv, FlushInv, [Next]_vars
  PROVE  FlushInv'
  <1>1. CASE rc' = "crashed"
    <2>1. sessions' = sessions
      BY <1>1, CrashSessions
    <2> QED
      BY <1>1, <2>1 DEF FlushInv
  <1> SUFFICES ASSUME rc' # "crashed" PROVE FlushInv'
    BY <1>1
  <1>2. Kind
    BY Kinds
  <1>3. ASSUME SessionsKept, rc # "crashed", Executing' => Executing, \A i \in DOMAIN stack' : OwnerKept(i),
               \A i \in DOMAIN stack' : i \in DOMAIN stack => stack'[i].session = stack[i].session
        PROVE  FlushInv'
    <2>1. DOMAIN sessions' = DOMAIN sessions /\ \A s \in DOMAIN sessions : sessions'[s].flushes = sessions[s].flushes
      BY <1>3 DEF SessionsKept, KeptIn
    <2>2. \A s \in DOMAIN sessions' : sessions'[s].flushes <= 1
      BY <2>1 DEF FlushInv
    <2>3. ASSUME NEW i \in DOMAIN stack', stack'[i].session # None
          PROVE  sessions'[stack'[i].session].flushes = sessions[stack'[i].session].flushes
      <3>1. stack' \in Seq(Contexts(SessionIds)') /\ SessionIds' = SessionIds
        BY <2>1 DEF IInv, TypeOK, SessionIds, Contexts
      <3>2. stack'[i] \in Contexts(SessionIds)'
        BY <3>1, <2>3
      <3>3. stack'[i].session \in SessionIds
        BY <3>1, <3>2 DEF Contexts
      <3> QED
        BY <2>1, <2>3, <3>3 DEF SessionIds
    <2> QED
      BY <1>3, <2>2, <2>3, FlushKept
  <1>4. CASE stack' = stack /\ SessionsKept /\ rc # "crashed" /\ (Executing' => Executing)
    BY <1>3, <1>4 DEF OwnerKept
  <1>5. ASSUME Innermost, NEW d, Update(d), SameOwner(d, Top), SessionsKept, Executing' => Executing PROVE FlushInv'
    <2>1. /\ Inner = Top /\ DOMAIN stack' = DOMAIN stack /\ stack'[Len(stack)] = d /\ rc # "crashed"
          /\ \A i \in DOMAIN stack : i < Len(stack) => stack'[i] = stack[i]
          /\ \A i \in DOMAIN stack : i < Len(stack) \/ i = Len(stack)
      BY <1>5, InnerFacts, UpdateFacts
    <2>2. \A i \in DOMAIN stack' : i \in DOMAIN stack /\ stack'[i].own = stack[i].own /\ stack'[i].session = stack[i].session
      BY <1>5, <2>1 DEF Inner, SameOwner
    <2> QED
      BY <1>3, <1>5, <2>1, <2>2 DEF OwnerKept
  <1>6. CASE UNCHANGED vars
    BY <1>6 DEF vars, FlushInv, Executing
  <1>7. CASE Quiet
    <2>1. SessionsKept /\ rc # "crashed" /\ Executing
      BY <1>7, SessionsSame DEF Quiet, Executing
    <2> QED
      BY <1>4, <1>5, <1>7, <2>1 DEF Quiet, Retouched
  <1>8. CASE Breaks
    <2>1. rc # "crashed" /\ SessionsKept /\ ~Executing'
      BY <1>8 DEF Breaks, Innermost, Executing
    <2> QED
      BY <1>4, <1>5, <1>8, <2>1 DEF Breaks, Retouched
  <1>9. ASSUME NEW e, Does(e) PROVE FlushInv'
    <2>1. Innermost /\ Steps(e) /\ Update(Advance(e)) /\ SessionsKept /\ Executing
      BY <1>9, InElementFacts DEF Does, Steps
    <2>2. ContextOK(Top)
      BY <2>1, InnerFacts DEF ContextInv, ContextOK, Inner
    <2>3. SameOwner(Advance(e), Top)
      BY <2>1, <2>2, StepsEffect DEF Stepped, SameOwner
    <2> QED
      BY <1>5, <2>1, <2>3
  <1>10. CASE Begin \/ BeginUnselected
    <2>1. sessions' = <<>>
      BY <1>10 DEF Begin, BeginUnselected
    <2>2. DOMAIN stack' = {} \/ \E c : DOMAIN stack' = {1} /\ stack'[1] = c /\ c.session = None /\ c.own = None
      <3>1. CASE Begin
        <4>1. PICK list : DOMAIN stack' = {1} /\ stack'[1] = NewContext(list)
          BY <3>1, BeginFacts
        <4>2. NewContext(list).session = None /\ NewContext(list).own = None
          BY DEF NewContext
        <4> QED
          BY <4>1, <4>2
      <3>2. CASE BeginUnselected
        <4>1. stack = <<>> /\ stack' = stack
          BY <3>2 DEF BeginUnselected, IInv, IdleInv
        <4> QED
          BY <4>1
      <3> QED
        BY <1>10, <3>1, <3>2
    <2>3. DOMAIN sessions' = {}
      BY <2>1
    <2> QED
      BY <2>2, <2>3 DEF FlushInv
  <1>11. CASE Nest
    <2>1. /\ Innermost /\ Top \in Contexts(SessionIds) /\ Inner = Top /\ Len(stack) \in Nat \ {0} /\ DOMAIN stack = 1 .. Len(stack)
          /\ Executing /\ rc # "crashed"
      BY <1>11, NestFacts, InnerFacts
    <2>2. PICK list : /\ DOMAIN stack' = 1 .. Len(stack) + 1
                      /\ stack'[Len(stack) + 1] = NewContext(list) /\ stack'[Len(stack)] = Nested(Top)
                      /\ \A i \in DOMAIN stack : i < Len(stack) => stack'[i] = stack[i]
      BY <1>11, NestFacts
    <2>3. NewContext(list).own = None /\ NewContext(list).session = None /\ SameOwner(Nested(Top), Top)
      BY <2>1, NestedKept DEF NewContext, SameOwner
    <2>4. SessionsKept
      BY <1>11, SessionsSame DEF Nest
    <2>5. ASSUME NEW i \in DOMAIN stack'
          PROVE  /\ i \in DOMAIN stack => stack'[i].own = stack[i].own /\ stack'[i].session = stack[i].session
                 /\ i \notin DOMAIN stack => stack'[i].own = None /\ stack'[i].session = None
      <3>1. (i \in DOMAIN stack /\ i < Len(stack)) \/ i = Len(stack) \/ (i = Len(stack) + 1 /\ i \notin DOMAIN stack)
        BY <2>1, <2>2
      <3> QED
        BY <2>1, <2>2, <2>3, <3>1 DEF Inner, SameOwner
    <2> QED
      BY <1>3, <2>1, <2>4, <2>5 DEF OwnerKept
  <1>12. CASE Return
    <2>1. SessionsKept /\ Executing /\ rc # "crashed"
      BY <1>12, SessionsSame DEF Return, Executing
    <2>2. CASE Level = 1
      <3>1. stack' = <<>>
        BY <1>12, <2>2, DoneFacts DEF Return
      <3> QED
        BY <1>3, <2>1, <3>1
    <2>3. CASE Level # 1
      <3> DEFINE n == Len(stack) - 1
                 p == stack[n]
                 d == Resumed(p, Top.own)
      <3>1. /\ n \in Nat \ {0} /\ n \in DOMAIN stack /\ DOMAIN stack' = 1 .. n /\ p.nested
            /\ Active(p, SessionIds) /\ StepOf(p) \in {"sub", "authorize", "authorize_nv"} /\ Top.own \in SessionIds
            /\ stack'[n] = d /\ \A i \in 1 .. n : i < n => stack'[i] = stack[i] /\ i \in DOMAIN stack
        BY <1>12, <2>3, ReturnFacts
      <3> HIDE DEF n
      <3>2. ContextOK(p)
        BY <3>1 DEF ContextInv, ContextOK
      <3>3. d.own = p.own /\ d.session = p.session
        BY <3>1, <3>2, ResumedEffect DEF Stepped
      <3> HIDE DEF d
      <3>4. ASSUME NEW i \in DOMAIN stack'
            PROVE  i \in DOMAIN stack /\ stack'[i].own = stack[i].own /\ stack'[i].session = stack[i].session
        <4>1. n \in Nat /\ i \in 1 .. n
          BY <3>1
        <4>2. i = n \/ i < n
          BY <4>1
        <4> QED
          BY <3>1, <3>3, <4>1, <4>2
      <3> QED
        BY <1>3, <2>1, <3>4 DEF OwnerKept
    <2> QED
      BY <2>2, <2>3
  <1>13. ASSUME NEW f, FlushedIn(sessions', sessions, f), rc # "crashed",
                f \in DOMAIN sessions => sessions[f].flushes = 0,
                \A i \in DOMAIN stack' : OwnerKept(i) /\ i \in DOMAIN stack /\ (f # None => stack'[i].session # f),
                Executing' => Executing /\ \A i \in DOMAIN stack' : stack'[i].session = stack[i].session
         PROVE  FlushInv'
    <2>1. /\ DOMAIN sessions' = DOMAIN sessions
          /\ \A s \in DOMAIN sessions : sessions'[s].flushes = IF s = f THEN sessions[s].flushes + 1 ELSE sessions[s].flushes
      BY <1>13 DEF FlushedIn
    <2>2. ASSUME NEW s \in DOMAIN sessions' PROVE sessions'[s].flushes <= 1
      <3>1. CASE s = f
        BY <1>13, <2>1, <3>1
      <3>2. CASE s # f
        BY <2>1, <3>2 DEF FlushInv
      <3> QED
        BY <3>1, <3>2
    <2>3. ASSUME NEW i \in DOMAIN stack', stack'[i].session # None
          PROVE  sessions'[stack'[i].session].flushes = sessions[stack'[i].session].flushes
      <3>1. stack' \in Seq(Contexts(SessionIds)') /\ SessionIds' = SessionIds
        BY <2>1 DEF IInv, TypeOK, SessionIds, Contexts
      <3>2. stack'[i] \in Contexts(SessionIds)'
        BY <3>1, <2>3
      <3>3. stack'[i].session \in SessionIds
        BY <3>1, <3>2 DEF Contexts
      <3>4. stack'[i].session \in DOMAIN sessions /\ stack'[i].session # f
        BY <1>13, <2>3, <3>3 DEF SessionIds
      <3> QED
        BY <2>1, <3>4
    <2> QED
      BY <1>13, <2>2, <2>3, FlushKept
  <1>14. CASE ReturnWithoutAuth
    <2> DEFINE n == Level - 1
    <2>1. /\ Executing /\ rc # "crashed" /\ stack' = ClearCurrent /\ sessions' = WithFlush(sessions, Top.own)
      BY <1>14 DEF ReturnWithoutAuth, WithFlush, Executing
    <2>2. /\ Innermost /\ n \in Nat /\ DOMAIN ClearCurrent = 1 .. n /\ \A i \in 1 .. n : ClearCurrent[i] = stack[i] /\ i \in DOMAIN stack
          /\ Level = Len(stack)
      BY <1>14, DoneFacts
    <2>3. FlushedIn(sessions', sessions, Top.own)
      BY <2>1, NoneNoSession, SessionFields
    <2>4. Inner = Top /\ Len(stack) \in DOMAIN stack /\ Len(stack) \in Nat
      BY <2>2, InnerFacts
    <2>5. Top.own # None => Top.session = Top.own /\ sessions[Top.own].flushes = 0
      BY <2>1, <2>4 DEF FlushInv, Inner
    <2>6. Top.own \in DOMAIN sessions => sessions[Top.own].flushes = 0
      BY <2>5, NoneNoSession
    <2>7. ASSUME NEW i \in DOMAIN stack'
          PROVE  OwnerKept(i) /\ i \in DOMAIN stack /\ stack'[i].session = stack[i].session
                 /\ (Top.own # None => stack'[i].session # Top.own)
      <3>1. i \in 1 .. n /\ i < Len(stack)
        BY <2>1, <2>2, <2>4
      <3> HIDE DEF n
      <3>2. i \in DOMAIN stack /\ stack'[i] = stack[i]
        BY <2>1, <2>2, <3>1
      <3>3. Top.own # None => stack[i].session < Top.own
        BY <2>1, <2>4, <3>1, <3>2 DEF FlushInv, Inner
      <3>4. stack[i].session \in SessionIds /\ Top.own \in SessionIds
        <4>1. stack \in Seq(Contexts(SessionIds)) /\ Top \in Contexts(SessionIds)
          BY <2>2, InnerFacts
        <4>2. stack[i] \in Contexts(SessionIds)
          BY <3>2, <4>1
        <4> QED
          BY <4>1, <4>2 DEF Contexts
      <3>5. stack[i].session \in Nat /\ Top.own \in Nat
        BY <3>4, NoneNoSession
      <3> QED
        BY <3>2, <3>3, <3>5 DEF OwnerKept
    <2> QED
      BY <1>13, <2>1, <2>3, <2>6, <2>7
  <1>15. CASE Pops
    <2> DEFINE n == Len(stack) - 1
               s == Top.session
    <2>1. /\ rc # "crashed" /\ stack \in Seq(Contexts(SessionIds)) /\ DOMAIN stack' = 1 .. n
          /\ \A i \in 1 .. n : i \in DOMAIN stack
          /\ FlushesSession => \A i \in 1 .. n : stack'[i] = Forgetting(stack[i], s)
          /\ ~FlushesSession => \A i \in 1 .. n : stack'[i] = stack[i]
          /\ n \in Nat /\ Top = Inner /\ Len(stack) \in DOMAIN stack /\ Top \in Contexts(SessionIds)
          /\ sessions' = (IF FlushesSession /\ pending = "none" THEN WithFlush(sessions, s) ELSE sessions)
          /\ ~Executing'
      BY <1>15, PopsFacts DEF Executing
    <2> HIDE DEF n
    <2>2. ASSUME NEW i \in DOMAIN stack'
          PROVE  OwnerKept(i) /\ i \in DOMAIN stack /\ (FlushesSession => stack'[i].session # s)
      <3>1. i \in DOMAIN stack /\ stack[i] \in Contexts(SessionIds) /\ None \in SessionIds
        BY <2>1 DEF SessionIds
      <3>2. /\ Forgetting(stack[i], s).own = stack[i].own
            /\ Forgetting(stack[i], s).session = IF stack[i].session = s THEN None ELSE stack[i].session
        BY <3>1, ContextKept
      <3>3. FlushesSession => s # None
        BY DEF FlushesSession
      <3> QED
        BY <2>1, <3>1, <3>2, <3>3 DEF OwnerKept
    <2>3. CASE FlushesSession /\ pending = "none"
      <3>1. FlushedIn(sessions', sessions, s)
        BY <2>1, <2>3, NoneNoSession, SessionFields
      <3>2. sessions[s].flushes = 0
        BY <2>1, <2>3 DEF FlushInv, FlushesSession, Inner
      <3> QED
        BY <1>13, <2>1, <2>2, <2>3, <3>1, <3>2
    <2>4. CASE ~(FlushesSession /\ pending = "none")
      <3>1. sessions' = sessions
        BY <2>1, <2>4
      <3>2. \A t \in DOMAIN sessions' : sessions'[t].flushes <= 1
        BY <3>1 DEF FlushInv
      <3> QED
        BY <2>1, <2>2, <3>1, <3>2, FlushKept
    <2> QED
      BY <2>3, <2>4
  <1>16. ASSUME Innermost, NEW d, Update(d), SessionIds' = SessionIds \union {d.session},
                d.own \in {None, d.session},
                \A s \in DOMAIN sessions' : sessions'[s].flushes <= 1,
                \A s \in DOMAIN sessions : sessions'[s] = sessions[s],
                d.session # None => sessions'[d.session].flushes = 0,
                d.own # None => \A i \in DOMAIN stack : stack[i].session < d.own
         PROVE  FlushInv'
    <2>1. /\ DOMAIN stack' = DOMAIN stack /\ stack'[Len(stack)] = d /\ Len(stack) \in DOMAIN stack
          /\ DOMAIN stack = 1 .. Len(stack) /\ Len(stack) \in Nat /\ stack \in Seq(Contexts(SessionIds))
          /\ \A i \in DOMAIN stack : i < Len(stack) => stack'[i] = stack[i]
          /\ Executing /\ rc # "crashed"
      BY <1>16, InnerFacts, UpdateFacts
    <2>2. ASSUME NEW i \in DOMAIN stack', stack'[i].session # None PROVE sessions'[stack'[i].session].flushes = 0
      <3>1. CASE i = Len(stack)
        BY <1>16, <2>1, <2>2, <3>1
      <3>2. CASE i < Len(stack)
        <4>1. stack[i] \in Contexts(SessionIds) /\ stack'[i] = stack[i]
          BY <2>1, <2>2, <3>2
        <4>2. stack[i].session \in DOMAIN sessions
          BY <2>2, <4>1 DEF Contexts, SessionIds
        <4>3. sessions[stack[i].session].flushes = 0
          BY <2>1, <2>2, <4>1 DEF FlushInv
        <4> QED
          BY <1>16, <4>1, <4>2, <4>3
      <3> QED
        BY <2>1, <2>2, <3>1, <3>2
    <2>3. ASSUME NEW i \in DOMAIN stack', NEW j \in DOMAIN stack', i < j, stack'[j].own # None
          PROVE  stack'[i].session < stack'[j].own
      <3>1. i \in DOMAIN stack /\ j \in DOMAIN stack /\ i < Len(stack) /\ (j = Len(stack) \/ j < Len(stack))
        BY <2>1, <2>3
      <3> QED
        BY <1>16, <2>1, <2>3, <3>1 DEF FlushInv
    <2>4. ASSUME NEW i \in DOMAIN stack', stack'[i].own # None PROVE stack'[i].session = stack'[i].own
      <3>1. i \in DOMAIN stack /\ (i = Len(stack) \/ i < Len(stack))
        BY <2>1, <2>4
      <3> QED
        BY <1>16, <2>1, <2>4, <3>1 DEF FlushInv
    <2> QED
      BY <1>16, <2>2, <2>3, <2>4 DEF FlushInv
  <1>17. CASE UseSession
    <2> DEFINE n == Level - 1
               s == stack[n].session
               d == WithSession(Top, s)
    <2>1. Innermost /\ Update(d) /\ Top \in Contexts(SessionIds) /\ ~Top.ready /\ sessions' = sessions /\ Level > 1
      BY <1>17, InnerFacts DEF UseSession, Unready, Innermost, WithSession, GetsSession
    <2>2. /\ Inner = Top /\ Len(stack) \in DOMAIN stack /\ Level = Len(stack) /\ DOMAIN stack = 1 .. Len(stack)
          /\ Len(stack) \in Nat /\ stack \in Seq(Contexts(SessionIds)) /\ rc # "crashed"
      BY <2>1, InnerFacts
    <2>3. n \in DOMAIN stack
      BY <2>1, <2>2
    <2> HIDE DEF n
    <2>4. stack[n] \in Contexts(SessionIds)
      BY <2>2, <2>3
    <2>5. s \in SessionIds /\ (s # None => sessions[s].flushes = 0)
      BY <2>2, <2>3, <2>4 DEF Contexts, FlushInv
    <2>6. Top.own = None
      BY <2>1, <2>2 DEF ContextInv, CallOK, Inner
    <2>7. d.own = None /\ d.session = s
      BY <2>1, <2>6 DEF WithSession, Contexts
    <2>8. SessionIds' = SessionIds \union {s} /\ \A t \in DOMAIN sessions' : sessions'[t].flushes <= 1
      BY <2>1, <2>5 DEF SessionIds, FlushInv
    <2> HIDE DEF s, d
    <2> QED
      BY <1>16, <2>1, <2>5, <2>7, <2>8
  <1>18. CASE Creates
    <2> DEFINE new == [digest |-> Zero, live |-> TRUE, flushes |-> 0, used |-> FALSE]
               s == Len(sessions')
               d == WithOwn(Top, s)
    <2>1. Innermost /\ Update(d) /\ Top \in Contexts(SessionIds) /\ sessions' = Append(sessions, new) /\ new.flushes = 0
      BY <1>18, InnerFacts DEF Creates, create_session_finish, Unready, Innermost
    <2> HIDE DEF new
    <2>2. /\ Len(sessions) \in Nat /\ DOMAIN sessions = 1 .. Len(sessions) /\ sessions \in Seq(Range(sessions))
          /\ \A t \in SessionIds : t \in Nat /\ t <= Len(sessions)
      BY NoneNoSession DEF SessionsOK
    <2>3. /\ s = Len(sessions) + 1 /\ DOMAIN sessions' = 1 .. s /\ sessions'[s] = new
          /\ \A t \in DOMAIN sessions : sessions'[t] = sessions[t]
      <3>1. sessions \in Seq(Range(sessions) \union {new})
        BY <2>2
      <3> QED
        BY <2>1, <2>2, <3>1, AppendFacts
    <2>4. d.own = s /\ d.session = s
      BY <2>1 DEF WithOwn, Contexts
    <2> HIDE DEF s, d
    <2>5. SessionIds' = SessionIds \union {s}
      BY <2>2, <2>3 DEF SessionIds
    <2>6. \A t \in DOMAIN sessions' : t = s \/ t \in DOMAIN sessions
      BY <2>2, <2>3
    <2>7. \A t \in DOMAIN sessions' : sessions'[t].flushes <= 1
      BY <2>1, <2>3, <2>6 DEF FlushInv
    <2>8. ASSUME NEW i \in DOMAIN stack PROVE stack[i].session < s
      <3>1. stack \in Seq(Contexts(SessionIds))
        BY <2>1, InnerFacts
      <3>2. stack[i] \in Contexts(SessionIds)
        BY <3>1
      <3>3. stack[i].session \in SessionIds
        BY <3>2 DEF Contexts
      <3> QED
        BY <2>2, <2>3, <3>3
    <2> QED
      BY <1>16, <2>1, <2>3, <2>4, <2>5, <2>7, <2>8
  <1> QED
    BY <1>2, <1>6, <1>7, <1>8, <1>9, <1>10, <1>11, <1>12, <1>14, <1>15, <1>17, <1>18 DEF Kind

-----------------------------------------------------------------------------
(* No session is forgotten.                                                *)

OwnedBy(s) == \E i \in DOMAIN stack : stack[i].own = s /\ stack[i].session = s
GivenTo(s) == \E i \in DOMAIN stack : stack[i].auth = s

\* The innermost context changes, and the sessions are as well known as before.
LEMMA OwnersUpdated ==
  ASSUME IInv, Innermost, NEW d, Update(d), NEW s
  PROVE  /\ OwnedBy(s) /\ (SameOwner(d, Top) \/ (s # None /\ Top.own = None)) => OwnedBy(s)'
         /\ GivenTo(s) /\ d.auth = Top.auth => GivenTo(s)'
  <1>1. /\ Inner = Top /\ DOMAIN stack' = DOMAIN stack /\ stack'[Len(stack)] = d /\ Len(stack) \in DOMAIN stack
        /\ \A i \in DOMAIN stack : i < Len(stack) => stack'[i] = stack[i]
        /\ \A i \in DOMAIN stack : i < Len(stack) \/ i = Len(stack)
    BY InnerFacts, UpdateFacts
  <1>2. ASSUME OwnedBy(s), SameOwner(d, Top) \/ (s # None /\ Top.own = None) PROVE OwnedBy(s)'
    <2>1. PICK i \in DOMAIN stack : stack[i].own = s /\ stack[i].session = s
      BY <1>2 DEF OwnedBy
    <2>2. i \in DOMAIN stack' /\ stack'[i].own = s /\ stack'[i].session = s
      BY <1>1, <1>2, <2>1 DEF SameOwner, Inner
    <2> QED
      BY <2>2 DEF OwnedBy
  <1>3. ASSUME GivenTo(s), d.auth = Top.auth PROVE GivenTo(s)'
    <2>1. PICK i \in DOMAIN stack : stack[i].auth = s
      BY <1>3 DEF GivenTo
    <2>2. i \in DOMAIN stack' /\ stack'[i].auth = s
      BY <1>1, <1>3, <2>1 DEF Inner
    <2> QED
      BY <2>2 DEF GivenTo
  <1> QED
    BY <1>2, <1>3

\* A policy that has failed is freed, and so is its session.
LEMMA KnownPops ==
  ASSUME IInv, ContextInv, PendingInv, FailInv, KnownInv, Pops
  PROVE  KnownInv'
  <1> DEFINE n == Len(stack) - 1
             t == Top.session
  <1>1. /\ rc = "running" /\ err # "none" /\ cur # Dangling /\ stack \in Seq(Contexts(SessionIds)) /\ DOMAIN stack' = 1 .. n
        /\ \A i \in 1 .. n : i \in DOMAIN stack
        /\ FlushesSession => \A i \in 1 .. n : stack'[i] = Forgetting(stack[i], t)
        /\ ~FlushesSession => \A i \in 1 .. n : stack'[i] = stack[i]
        /\ n \in Nat /\ Top = Inner /\ DOMAIN stack = 1 .. Len(stack) /\ Len(stack) \in Nat \ {0}
        /\ Top \in Contexts(SessionIds) /\ AtStep(Top)
        /\ sessions' = (IF FlushesSession /\ pending = "none" THEN WithFlush(sessions, t) ELSE sessions)
        /\ UNCHANGED <<pending, create, at, result>>
        /\ ~Executing' /\ ~Executing
    BY PopsFacts DEF Executing
  <1>2. Len(stack) \in DOMAIN stack /\ CallOK(Top)
    BY <1>1 DEF ContextInv, Inner
  <1>3. Top.own # None /\ Top.session = Top.own => FlushesSession
    <2> SUFFICES ASSUME Top.own # None, Top.session = Top.own PROVE FlushesSession
      OBVIOUS
    <2>1. Top.ready
      BY <1>2 DEF CallOK
    <2>2. \/ Top.nested /\ err = "called"
          \/ Top.list # <<>> /\ err \in Failures(StepOf(Top))
      BY <1>1, <2>1 DEF FailInv
    <2>3. Top.list # <<>> /\ err # "create"
      <3>1. Top.nested => Top.list # <<>>
        BY <1>1 DEF AtStep
      <3> QED
        BY <2>2, <3>1 DEF Failures
    <2> QED
      BY <2>1, <2>3 DEF FlushesSession, InPolicy
  <1>4. pending = "none" \/ SessionLost'
    BY <1>1 DEF PendingInv, SessionLost
  <1>5. /\ DOMAIN sessions' = DOMAIN sessions
        /\ \A s \in DOMAIN sessions :
              /\ sessions'[s].live => sessions[s].live /\ ~(FlushesSession /\ pending = "none" /\ s = t)
              /\ sessions[s].used => sessions'[s].used
    <2>1. CASE FlushesSession /\ pending = "none"
      <3>1. FlushedIn(sessions', sessions, t)
        BY <1>1, <2>1, NoneNoSession, SessionFields
      <3> QED
        BY <3>1 DEF FlushedIn
    <2>2. CASE ~(FlushesSession /\ pending = "none")
      BY <1>1, <2>2
    <2> QED
      BY <2>1, <2>2
  <1> HIDE DEF n, t
  <1>6. ASSUME NEW s \in DOMAIN sessions', sessions'[s].live PROVE Known(s)'
    <2>1. s \in DOMAIN sessions /\ sessions[s].live /\ s # None /\ Known(s)
      BY <1>1, <1>5, <1>6, NoneNoSession DEF KnownInv
    <2>2. CASE sessions[s].used
      BY <1>5, <2>1, <2>2 DEF Known
    <2>3. CASE SentOut \/ SessionLost
      BY <1>1, <2>3 DEF Known, SentOut, SessionLost
    <2>4. CASE FlushesSession /\ s = t
      <3>1. SessionLost'
        BY <1>4, <1>5, <1>6, <2>1, <2>4
      <3> QED
        BY <1>1, <3>1 DEF Known
    <2>5. ASSUME ~(FlushesSession /\ s = t), NEW i \in DOMAIN stack, stack[i].own = s, stack[i].session = s
          PROVE  Known(s)'
      <3>1. i # Len(stack)
        BY <1>1, <1>3, <2>1, <2>5 DEF Inner, t
      <3>2. i \in 1 .. n
        BY <1>1, <2>5, <3>1 DEF n
      <3>3. stack[i] \in Contexts(SessionIds) /\ None \in SessionIds
        BY <1>1, <2>5 DEF SessionIds
      <3>4. /\ Forgetting(stack[i], t).own = stack[i].own
            /\ Forgetting(stack[i], t).session = IF stack[i].session = t THEN None ELSE stack[i].session
        BY <3>3, ContextKept
      <3>5. i \in DOMAIN stack' /\ stack'[i].own = s /\ stack'[i].session = s
        BY <1>1, <2>5, <3>2, <3>4
      <3> QED
        BY <3>5 DEF Known
    <2> QED
      BY <1>1, <2>1, <2>2, <2>3, <2>4, <2>5 DEF Known
  <1> QED
    BY <1>6 DEF KnownInv

LEMMA KnownNext ==
  ASSUME SignedByValue, IInv, IInv', AtInv, ContextInv, PendingInv, FailInv, OwnInv, KnownInv, [Next]_vars, rc' # "crashed"
  PROVE  KnownInv'
  <1>1. Kind
    BY Kinds
  <1>2. ASSUME Executing, NEW s \in DOMAIN sessions, sessions[s].live
        PROVE  sessions[s].used \/ OwnedBy(s) \/ GivenTo(s)
    BY <1>2 DEF KnownInv, Known, OwnedBy, GivenTo, Executing
  <1>3. ASSUME NEW s, sessions'[s].used \/ OwnedBy(s)' \/ (Executing' /\ GivenTo(s)') PROVE Known(s)'
    BY <1>3 DEF Known, OwnedBy, GivenTo
  <1>4. CASE UNCHANGED vars
    BY <1>4 DEF vars, KnownInv, Known, Executing, SentOut, SessionLost
  <1>5. CASE Begin \/ BeginUnselected
    <2>1. sessions' = <<>>
      BY <1>5 DEF Begin, BeginUnselected
    <2>2. DOMAIN sessions' = {}
      BY <2>1
    <2> QED
      BY <2>2 DEF KnownInv
  <1>6. CASE Quiet
    <2> SUFFICES ASSUME NEW s \in DOMAIN sessions, sessions[s].live PROVE Known(s)'
      BY <1>6 DEF Quiet, KnownInv
    <2>1. Executing /\ Executing' /\ sessions' = sessions
      BY <1>6 DEF Quiet
    <2>2. sessions[s].used \/ OwnedBy(s) \/ GivenTo(s)
      BY <1>2, <2>1
    <2>3. CASE stack' = stack
      <3>1. (OwnedBy(s) => OwnedBy(s)') /\ (GivenTo(s) => GivenTo(s)')
        BY <2>3 DEF OwnedBy, GivenTo
      <3> QED
        BY <1>3, <2>1, <2>2, <3>1
    <2>4. ASSUME NEW d, Retouched(d) PROVE Known(s)'
      <3>1. Innermost /\ Update(d) /\ SameOwner(d, Top) /\ d.auth = Top.auth
        BY <2>4, TouchedKeeps DEF Retouched
      <3>2. (OwnedBy(s) => OwnedBy(s)') /\ (GivenTo(s) => GivenTo(s)')
        BY <3>1, OwnersUpdated
      <3> QED
        BY <1>3, <2>1, <2>2, <3>2
    <2> QED
      BY <1>6, <2>3, <2>4 DEF Quiet
  <1>7. CASE UseSession
    <2> DEFINE d == WithSession(Top, stack[Level - 1].session)
    <2> SUFFICES ASSUME NEW s \in DOMAIN sessions, sessions[s].live PROVE Known(s)'
      BY <1>7 DEF UseSession, KnownInv
    <2>1. Innermost /\ Update(d) /\ Top \in Contexts(SessionIds) /\ ~Top.ready /\ sessions' = sessions /\ Executing /\ Executing'
      BY <1>7, InnerFacts DEF UseSession, Unready, Innermost, WithSession, Executing
    <2>2. sessions[s].used \/ OwnedBy(s) \/ GivenTo(s)
      BY <1>2, <2>1
    <2>3. Top.own = None /\ s # None
      BY <2>1, InnerFacts, NoneNoSession DEF ContextInv, CallOK, Inner
    <2>4. d.auth = Top.auth
      BY <2>1 DEF WithSession, Contexts
    <2> HIDE DEF d
    <2>5. (OwnedBy(s) => OwnedBy(s)') /\ (GivenTo(s) => GivenTo(s)')
      BY <2>1, <2>3, <2>4, OwnersUpdated
    <2> QED
      BY <1>3, <2>1, <2>2, <2>5
  <1>8. CASE Creates
    <2> DEFINE new == [digest |-> Zero, live |-> TRUE, flushes |-> 0, used |-> FALSE]
               t == Len(sessions')
               d == WithOwn(Top, t)
    <2>1. Innermost /\ Update(d) /\ Top \in Contexts(SessionIds) /\ ~Top.ready /\ sessions' = Append(sessions, new) /\ Executing /\ Executing'
      BY <1>8, InnerFacts DEF Creates, create_session_finish, Unready, Innermost
    <2> HIDE DEF new
    <2>2. Len(sessions) \in Nat /\ DOMAIN sessions = 1 .. Len(sessions) /\ sessions \in Seq(Range(sessions))
      BY NoneNoSession DEF SessionsOK
    <2>3. /\ t = Len(sessions) + 1 /\ DOMAIN sessions' = 1 .. t
          /\ \A s \in DOMAIN sessions : sessions'[s] = sessions[s]
      <3>1. sessions \in Seq(Range(sessions) \union {new})
        BY <2>2
      <3> QED
        BY <2>1, <2>2, <3>1, AppendFacts
    <2>4. d.own = t /\ d.session = t /\ d.auth = Top.auth
      BY <2>1 DEF WithOwn, Contexts
    <2> HIDE DEF t, d
    <2>5. \E i \in DOMAIN stack' : stack'[i].own = t /\ stack'[i].session = t
      <3>1. DOMAIN stack' = DOMAIN stack /\ stack'[Len(stack)] = d /\ Len(stack) \in DOMAIN stack
        BY <2>1, InnerFacts, UpdateFacts
      <3> QED
        BY <2>4, <3>1
    <2>6. ASSUME NEW s \in DOMAIN sessions', sessions'[s].live PROVE Known(s)'
      <3>1. CASE s = t
        BY <2>5, <3>1 DEF Known
      <3>2. CASE s # t
        <4>1. s \in DOMAIN sessions
          BY <2>2, <2>3, <2>6, <3>2
        <4>2. sessions[s].used \/ OwnedBy(s) \/ GivenTo(s)
          BY <1>2, <2>1, <2>3, <2>6, <4>1
        <4>3. Top.own = None /\ s # None
          BY <2>1, <4>1, InnerFacts, NoneNoSession DEF ContextInv, CallOK, Inner
        <4>4. (OwnedBy(s) => OwnedBy(s)') /\ (GivenTo(s) => GivenTo(s)')
          BY <2>1, <2>4, <4>3, OwnersUpdated
        <4> QED
          BY <1>3, <2>1, <2>3, <4>1, <4>2, <4>4
      <3> QED
        BY <3>1, <3>2
    <2> QED
      BY <2>6 DEF KnownInv
  <1>9. ASSUME Innermost, NEW s \in DOMAIN sessions, GivenTo(s) PROVE Top.auth = s
    <2>1. s # None
      BY NoneNoSession
    <2> QED
      BY <1>9, <2>1, AuthHeld DEF GivenTo
  <1>10. ASSUME NEW e, Does(e) PROVE KnownInv'
    <2>1. Innermost /\ Steps(e) /\ Update(Advance(e)) /\ SessionsKept /\ Executing /\ Executing'
          /\ \A s \in DOMAIN sessions : sessions'[s].live => s # Top.auth
      BY <1>10, InElementFacts DEF Does, Steps
    <2>2. ContextOK(Top)
      BY <2>1, InnerFacts DEF ContextInv, ContextOK, Inner
    <2>3. SameOwner(Advance(e), Top)
      BY <2>1, <2>2, StepsEffect DEF Stepped, SameOwner
    <2>4. ASSUME NEW s \in DOMAIN sessions', sessions'[s].live PROVE Known(s)'
      <3>1. s \in DOMAIN sessions /\ sessions[s].live /\ (sessions[s].used => sessions'[s].used) /\ s # Top.auth
        BY <2>1, <2>4 DEF SessionsKept, KeptIn
      <3>2. sessions[s].used \/ OwnedBy(s) \/ GivenTo(s)
        BY <1>2, <2>1, <3>1
      <3>3. ~GivenTo(s)
        BY <1>9, <2>1, <3>1
      <3>4. OwnedBy(s) => OwnedBy(s)'
        BY <2>1, <2>3, OwnersUpdated
      <3> QED
        BY <1>3, <3>1, <3>2, <3>3, <3>4
    <2> QED
      BY <2>4 DEF KnownInv
  <1>11. CASE Breaks
    <2>1. Innermost /\ SessionsKept /\ Executing /\ ~Executing'
          /\ \A s \in DOMAIN sessions : s = Top.auth => sessions'[s].used \/ SentOut'
      BY <1>11 DEF Breaks, Innermost, Executing
    <2>2. ASSUME NEW s \in DOMAIN sessions', sessions'[s].live PROVE Known(s)'
      <3>1. s \in DOMAIN sessions /\ sessions[s].live /\ (sessions[s].used => sessions'[s].used)
        BY <2>1, <2>2 DEF SessionsKept, KeptIn
      <3>2. sessions[s].used \/ OwnedBy(s) \/ GivenTo(s)
        BY <1>2, <2>1, <3>1
      <3>3. GivenTo(s) => sessions'[s].used \/ SentOut'
        BY <1>9, <2>1, <3>1
      <3>4. OwnedBy(s) => OwnedBy(s)'
        <4>1. stack' = stack => (OwnedBy(s) => OwnedBy(s)')
          BY DEF OwnedBy
        <4>2. ASSUME NEW d, Retouched(d) PROVE OwnedBy(s) => OwnedBy(s)'
          BY <4>2, OwnersUpdated DEF Retouched
        <4> QED
          BY <1>11, <4>1, <4>2 DEF Breaks
      <3>5. SentOut' => Known(s)'
        BY <2>1 DEF Known
      <3> QED
        BY <1>3, <3>1, <3>2, <3>3, <3>4, <3>5
    <2> QED
      BY <2>2 DEF KnownInv
  <1>12. CASE Nest
    <2>1. /\ Innermost /\ Top \in Contexts(SessionIds) /\ Inner = Top /\ Len(stack) \in Nat \ {0} /\ DOMAIN stack = 1 .. Len(stack)
          /\ Executing /\ sessions' = sessions /\ InElement /\ NeedsPolicy
      BY <1>12, NestFacts, InnerFacts DEF Nest
    <2>2. PICK list : /\ DOMAIN stack' = 1 .. Len(stack) + 1
                      /\ stack'[Len(stack) + 1] = NewContext(list) /\ stack'[Len(stack)] = Nested(Top)
                      /\ \A i \in DOMAIN stack : i < Len(stack) => stack'[i] = stack[i]
      BY <1>12, NestFacts
    <2>3. SameOwner(Nested(Top), Top)
      BY <2>1, NestedKept DEF SameOwner
    <2>4. StepOf(Top) \notin {"Policy", "NV_Read"}
      BY <2>1, InElementFacts DEF NeedsPolicy
    <2>5. \A i \in DOMAIN stack : stack[i].auth = None
      BY <2>1, <2>4, NoAuth
    <2>6. ASSUME NEW s \in DOMAIN sessions, sessions[s].live PROVE Known(s)'
      <3>1. sessions[s].used \/ OwnedBy(s)
        BY <1>2, <2>1, <2>5, <2>6, NoneNoSession DEF GivenTo
      <3>2. ASSUME NEW i \in DOMAIN stack, stack[i].own = s, stack[i].session = s PROVE OwnedBy(s)'
        <4>1. i \in DOMAIN stack' /\ (i < Len(stack) \/ i = Len(stack))
          BY <2>1, <2>2
        <4>2. stack'[i].own = s /\ stack'[i].session = s
          BY <2>1, <2>2, <2>3, <3>2, <4>1 DEF Inner, SameOwner
        <4> QED
          BY <4>1, <4>2 DEF OwnedBy
      <3> QED
        BY <1>3, <2>1, <3>1, <3>2 DEF OwnedBy
    <2> QED
      BY <2>1, <2>6 DEF KnownInv
  <1>13. ASSUME Return \/ ReturnWithoutAuth, NEW s \in DOMAIN sessions, sessions[s].live
         PROVE  sessions[s].used \/ OwnedBy(s)
    <2>1. Innermost /\ Top.list = <<>>
      BY <1>13, DoneFacts
    <2>2. \A i \in DOMAIN stack : stack[i].auth = None
      BY <2>1, NoAuth
    <2>3. Executing
      BY <2>1 DEF Innermost, Executing
    <2> QED
      BY <1>2, <1>13, <2>2, <2>3, NoneNoSession DEF GivenTo
  <1>14. CASE Return
    <2> SUFFICES ASSUME NEW s \in DOMAIN sessions, sessions[s].live PROVE Known(s)'
      BY <1>14 DEF Return, KnownInv
    <2>1. sessions' = sessions /\ (sessions[s].used \/ OwnedBy(s)) /\ s # None
      BY <1>13, <1>14, NoneNoSession DEF Return
    <2>2. Innermost /\ Level = Len(stack) /\ Level \in Nat \ {0} /\ Inner = Top /\ DOMAIN stack = 1 .. Len(stack)
      BY <1>14, DoneFacts, InnerFacts
    <2>3. CASE sessions[s].used
      BY <1>3, <2>1, <2>3
    <2>4. ASSUME NEW i \in DOMAIN stack, stack[i].own = s, stack[i].session = s, Level = 1 PROVE Known(s)'
      <3>1. i = Len(stack)
        BY <2>2, <2>4
      <3>2. rc' = "done" /\ result' = s
        BY <1>14, <2>2, <2>4, <3>1 DEF Return, Inner
      <3> QED
        BY <3>2 DEF Known
    <2>5. ASSUME NEW i \in DOMAIN stack, stack[i].own = s, stack[i].session = s, Level # 1 PROVE Known(s)'
      <3> DEFINE n == Len(stack) - 1
                 p == stack[n]
                 d == Resumed(p, Top.own)
      <3>1. /\ n \in Nat \ {0} /\ n \in DOMAIN stack /\ DOMAIN stack' = 1 .. n /\ p.nested /\ Len(stack) = n + 1
            /\ Active(p, SessionIds) /\ StepOf(p) \in {"sub", "authorize", "authorize_nv"} /\ Top.own \in SessionIds
            /\ stack'[n] = d /\ \A j \in 1 .. n : j < n => stack'[j] = stack[j] /\ j \in DOMAIN stack
            /\ rc' = (IF StepOf(p) = "sub" /\ p.found = "broken" THEN "crashed" ELSE rc)
        BY <1>14, <2>5, ReturnFacts
      <3>2. AtSub(Len(stack)) <=> StepOf(p) = "sub"
        BY DEF AtSub
      <3> HIDE DEF n
      <3>3. ContextOK(p)
        BY <3>1 DEF ContextInv, ContextOK
      <3>4. d.own = p.own /\ d.session = p.session /\ d.auth = IF StepOf(p) = "sub" THEN None ELSE Top.own
        BY <3>1, <3>3, ResumedEffect DEF Stepped
      <3> HIDE DEF d
      <3>5. n \in Nat /\ n \in DOMAIN stack'
        BY <3>1
      <3>6. CASE i = Len(stack)
        <4>1. Top.own = s
          BY <2>2, <2>5, <3>6 DEF Inner
        <4>2. Len(stack) > 1
          BY <2>2, <2>5
        <4>3. StepOf(p) # "sub"
          BY <2>1, <2>2, <2>5, <3>2, <3>6, <4>2 DEF OwnInv
        <4>4. Executing'
          <5>1. Executing /\ err' = err /\ rc' = rc
            BY <1>14, <3>1, <4>3 DEF Return
          <5> QED
            BY <5>1 DEF Executing
        <4>5. stack'[n].auth = s
          BY <3>1, <3>4, <4>1, <4>3
        <4> QED
          BY <3>5, <4>4, <4>5 DEF Known
      <3>7. CASE i # Len(stack)
        <4>1. i \in 1 .. n
          BY <2>2, <2>5, <3>1, <3>5, <3>7
        <4>2. i = n \/ i < n
          BY <3>5, <4>1
        <4>3. i \in DOMAIN stack' /\ stack'[i].own = s /\ stack'[i].session = s
          BY <2>5, <3>1, <3>4, <4>1, <4>2
        <4> QED
          BY <4>3 DEF Known
      <3> QED
        BY <3>6, <3>7
    <2> QED
      BY <2>1, <2>3, <2>4, <2>5 DEF OwnedBy
  <1>15. CASE ReturnWithoutAuth
    <2> DEFINE n == Level - 1
    <2>1. stack' = ClearCurrent /\ sessions' = WithFlush(sessions, Top.own)
      BY <1>15 DEF ReturnWithoutAuth, WithFlush
    <2>2. /\ Innermost /\ n \in Nat /\ DOMAIN ClearCurrent = 1 .. n /\ \A i \in 1 .. n : ClearCurrent[i] = stack[i] /\ i \in DOMAIN stack
          /\ Level = Len(stack)
      BY <1>15, DoneFacts
    <2>3. Inner = Top /\ DOMAIN stack = 1 .. Len(stack)
      BY <2>2, InnerFacts
    <2>4. FlushedIn(sessions', sessions, Top.own)
      BY <2>1, NoneNoSession, SessionFields
    <2>5. ASSUME NEW s \in DOMAIN sessions', sessions'[s].live PROVE Known(s)'
      <3>1. s \in DOMAIN sessions /\ sessions[s].live /\ s # Top.own /\ (sessions[s].used => sessions'[s].used)
        BY <2>4, <2>5 DEF FlushedIn
      <3>2. sessions[s].used \/ OwnedBy(s)
        BY <1>13, <1>15, <3>1
      <3>3. ASSUME NEW i \in DOMAIN stack, stack[i].own = s, stack[i].session = s PROVE OwnedBy(s)'
        <4>1. i # Len(stack)
          BY <2>3, <3>1, <3>3 DEF Inner
        <4>2. i \in 1 .. n
          BY <2>2, <2>3, <4>1
        <4>3. i \in DOMAIN stack' /\ stack'[i] = stack[i]
          BY <2>1, <2>2, <4>2
        <4> QED
          BY <3>3, <4>3 DEF OwnedBy
      <3> QED
        BY <1>3, <3>1, <3>2, <3>3 DEF OwnedBy
    <2> QED
      BY <2>5 DEF KnownInv
  <1>16. CASE Pops
    BY <1>16, KnownPops
  <1> QED
    BY <1>1, <1>4, <1>5, <1>6, <1>7, <1>8, <1>10, <1>11, <1>12, <1>14, <1>15, <1>16 DEF Kind

-----------------------------------------------------------------------------
(* No key is forgotten.                                                    *)

LEMMA UnflushedFacts ==
  /\ <<"POLICYSIGNED", "authorize", "called">> \in Unflushed
  /\ <<"POLICYSECRET", "authorize", "called">> \notin Unflushed
  <1>1. <<"POLICYSIGNED", "authorize", "called">> \in Unflushed
    BY DEF Unflushed
  <1>2. \A s : <<"POLICYSECRET", "authorize", "called">> # <<"POLICYSIGNED", s, "finished">>
    OBVIOUS
  <1>3. \A s : <<"POLICYSECRET", "authorize", "called">> # <<"POLICYAUTHORIZE", s, "finished">>
    OBVIOUS
  <1>4. <<"POLICYSECRET", "authorize", "called">> # <<"POLICYSECRET", "FlushContext", "finished">>
    OBVIOUS
  <1>5. <<"POLICYSECRET", "authorize", "called">> # <<"POLICYSIGNED", "authorize", "called">>
    OBVIOUS
  <1> QED
    BY <1>1, <1>2, <1>3, <1>4, <1>5 DEF Unflushed

\* The key of a policy that fails is flushed, or the failure is one of Unflushed.
LEMMA KeyPops ==
  ASSUME SignedByValue, IInv, ContextInv, FailInv, Pops
  PROVE  /\ HasKey(Top) => CleansUp \/ at \in Unflushed
         /\ ~HasKey(Top) => ~CleansUp
  <1> DEFINE x == Head(Top.list)
  <1>1. /\ rc = "running" /\ err # "none" /\ cur # Dangling /\ Top = Inner /\ Top \in Contexts(SessionIds) /\ AtStep(Top)
        /\ Len(stack) \in DOMAIN stack
    BY PopsFacts
  <1>2. KeyOK(Top) /\ AuthOK(Top) /\ CallOK(Top)
    BY <1>1 DEF ContextInv, Inner
  <1>3. ~HasKey(Top) => ~CleansUp
    BY DEF CleansUp, Owned, HasKey
  <1>4. ASSUME HasKey(Top) PROVE CleansUp \/ at \in Unflushed
    <2>1. Top.list # <<>> /\ LoadedBefore(x, Top.step)
      BY <1>2, <1>4 DEF KeyOK
    <2>2. Top.ready
      <3>1. ~LoadedBefore(x, 1)
        BY DEF LoadedBefore
      <3> QED
        BY <1>2, <2>1, <3>1 DEF CallOK
    <2>3. Active(Top, SessionIds)
      BY <1>1, <2>1 DEF Active, AtStep
    <2>4. /\ x \in Items /\ Top.step \in DOMAIN x.run.steps /\ StepOf(Top) = x.run.steps[Top.step]
          /\ x.run.owned = (IF TypeOf(Top) = "POLICYSECRET" THEN "auth" ELSE "object")
          /\ StepOf(Top) \in Commands \ Loaders \/ (StepOf(Top) = "authorize" /\ x.element.object.kind = "key")
          /\ StepOf(Top) = "authorize" /\ x.element.object.kind = "key" => TypeOf(Top) \in {"POLICYSECRET", "POLICYSIGNED"}
          /\ CleanedUp(x)
      BY <2>1, <2>3, OrderFacts
    <2>5. Step = StepOf(Top) /\ Type = TypeOf(Top) /\ Item = x /\ TypeOf(Top) = x.element.type
      BY DEF Step, Type, Item, StepOf, TypeOf
    <2>6. ASSUME NEW how \in Failures(StepOf(Top))
          PROVE  <<StepOf(Top), how>> \in x.run.cleanup \/ <<TypeOf(Top), StepOf(Top), how>> \in Unflushed
      BY <2>1, <2>4, <2>5, <2>6 DEF CleanedUp
    <2>7. /\ TypeOf(Top) = "POLICYSECRET" => Top.flush /\ Owned(Top) = "key"
          /\ TypeOf(Top) # "POLICYSECRET" /\ StepOf(Top) # "authorize" => Owned(Top) = "key"
      BY <1>2, <1>4, <2>4 DEF KeyOK, Owned
    <2>8. "called" \in Failures("authorize") /\ Failures("authorize") = {"called"}
      BY DEF Failures, Commands
    <2>9. CASE Top.nested /\ err = "called"
      <3>1. StepOf(Top) \notin Commands
        BY <1>1, <2>9 DEF AtStep, StepOf, Commands
      <3>2. StepOf(Top) = "authorize" /\ x.element.object.kind = "key"
        BY <2>4, <3>1
      <3>3. get_nv_auth_object(x.element.object).policy # <<>>
        BY <1>2, <2>9, <3>2 DEF AuthOK
      <3>4. TypeOf(Top) = "POLICYSECRET"
        BY <2>4, <2>5, <3>2, <3>3 DEF SignedByValue
      <3>5. <<Step, err>> \in x.run.cleanup
        BY <2>5, <2>6, <2>8, <2>9, <3>2, <3>4, UnflushedFacts
      <3> QED
        BY <2>1, <2>2, <2>5, <2>7, <2>9, <3>4, <3>5 DEF CleansUp, InPolicy
    <2>10. CASE at = <<TypeOf(Top), StepOf(Top), err>> /\ err \in Failures(StepOf(Top))
      <3>1. err # "create"
        BY <2>10 DEF Failures
      <3>2. CASE at \in Unflushed
        BY <3>2
      <3>3. CASE at \notin Unflushed
        <4>1. <<Step, err>> \in x.run.cleanup
          BY <2>5, <2>6, <2>10, <3>3
        <4>2. TypeOf(Top) = "POLICYSECRET" \/ StepOf(Top) # "authorize"
          <5> SUFFICES ASSUME StepOf(Top) = "authorize", TypeOf(Top) # "POLICYSECRET" PROVE FALSE
            OBVIOUS
          <5>1. StepOf(Top) \notin Commands
            BY DEF Commands
          <5>2. TypeOf(Top) = "POLICYSIGNED" /\ err = "called"
            BY <2>4, <2>8, <2>10, <5>1
          <5>3. at = <<"POLICYSIGNED", "authorize", "called">>
            BY <2>10, <5>2
          <5> QED
            BY <3>3, <5>3, UnflushedFacts
        <4> QED
          BY <2>1, <2>2, <2>5, <2>7, <3>1, <4>1, <4>2 DEF CleansUp, InPolicy
      <3> QED
        BY <3>2, <3>3
    <2> QED
      BY <1>1, <2>2, <2>9, <2>10 DEF FailInv
  <1> QED
    BY <1>3, <1>4

\* Exactly one context more has a key.
LEMMA HoldersOneMore ==
  ASSUME NEW S, NEW cs \in Seq(S), NEW T, NEW ds \in Seq(T), NEW n, n \notin Holders(cs), Holders(ds) = Holders(cs) \union {n}
  PROVE  Cardinality(Holders(ds)) = Cardinality(Holders(cs)) + 1
  <1>1. IsFiniteSet(Holders(cs))
    BY HoldersFinite
  <1> QED
    BY <1>1, FS_AddElement

LEMMA CountNext ==
  ASSUME SignedByValue, IInv, IInv', AtInv, ContextInv, PendingInv, FailInv, CountInv, [Next]_vars
  PROVE  CountInv'
  <1> SUFFICES ASSUME rc' # "crashed" PROVE CountInv'
    BY DEF CountInv
  <1>1. Kind
    BY Kinds
  <1>2. Executing => keys = Cardinality(Holders(stack))
    BY DEF CountInv, Executing
  <1>3. CASE Executing /\ keys' = keys /\ Holders(stack') = Holders(stack)
    BY <1>2, <1>3 DEF CountInv
  <1>4. ASSUME Innermost, NEW d, Update(d), HasKey(d) <=> HasKey(Top) PROVE Holders(stack') = Holders(stack)
    <2>1. /\ Inner = Top /\ DOMAIN stack' = DOMAIN stack /\ stack'[Len(stack)] = d
          /\ \A i \in DOMAIN stack : i < Len(stack) => stack'[i] = stack[i]
          /\ \A i \in DOMAIN stack : i < Len(stack) \/ i = Len(stack)
      BY <1>4, InnerFacts, UpdateFacts
    <2>2. \A i \in DOMAIN stack : HasKey(stack'[i]) <=> HasKey(stack[i])
      BY <1>4, <2>1 DEF Inner
    <2> QED
      BY <2>1, <2>2 DEF Holders
  <1>5. /\ stack \in Seq(Contexts(SessionIds)) /\ stack' \in Seq(Contexts(SessionIds)') /\ keys \in Nat
    BY DEF IInv, TypeOK
  <1>6. CASE UNCHANGED vars
    BY <1>6 DEF vars, CountInv, Executing, SessionLost
  <1>7. CASE Begin \/ BeginUnselected
    <2>1. keys' = 0
      BY <1>7 DEF Begin, BeginUnselected
    <2>2. Holders(stack') = {}
      <3>1. CASE Begin
        <4>1. PICK list \in Seq(Items) : DOMAIN stack' = {1} /\ stack'[1] = NewContext(list)
          BY <3>1, BeginFacts
        <4>2. ~HasKey(NewContext(list))
          BY DEF NewContext, HasKey
        <4> QED
          BY <4>1, <4>2 DEF Holders
      <3>2. CASE BeginUnselected
        <4>1. stack = <<>> /\ stack' = stack
          BY <3>2 DEF BeginUnselected, IInv, IdleInv
        <4> QED
          BY <4>1 DEF Holders
      <3> QED
        BY <1>7, <3>1, <3>2
    <2> QED
      BY <2>1, <2>2, FS_EmptySet DEF CountInv
  <1>8. CASE Quiet \/ Breaks
    <2>1. Executing /\ keys' = keys
      BY <1>8 DEF Quiet, Breaks, Innermost, Executing
    <2>2. stack' = stack => Holders(stack') = Holders(stack)
      BY DEF Holders
    <2>3. ASSUME NEW d, Retouched(d) PROVE Holders(stack') = Holders(stack)
      BY <1>4, <2>3, TouchedKeeps DEF Retouched
    <2> QED
      BY <1>3, <1>8, <2>1, <2>2, <2>3 DEF Quiet, Breaks
  <1>9. CASE UseSession \/ Creates
    <2>1. Innermost /\ Executing /\ keys' = keys /\ Top \in Contexts(SessionIds)
      BY <1>9, InnerFacts DEF UseSession, Creates, create_session_finish, Unready, Innermost
    <2>2. \E s : Update(WithSession(Top, s)) \/ Update(WithOwn(Top, s))
      BY <1>9 DEF UseSession, Creates, WithSession
    <2>3. ASSUME NEW s PROVE (HasKey(WithSession(Top, s)) <=> HasKey(Top)) /\ (HasKey(WithOwn(Top, s)) <=> HasKey(Top))
      BY <2>1 DEF WithSession, WithOwn, HasKey, Contexts
    <2>4. Holders(stack') = Holders(stack)
      BY <1>4, <2>1, <2>2, <2>3
    <2> QED
      BY <1>3, <2>1, <2>4
  <1>10. ASSUME NEW e, Does(e) PROVE CountInv'
    <2> DEFINE d == Advance(e)
               n == Len(stack)
    <2>1. /\ Innermost /\ Steps(e) /\ Update(d) /\ Executing
          /\ HasKey(Top) /\ ~HasKey(e) => keys' = keys - 1
          /\ ~HasKey(Top) /\ HasKey(e) => keys' = keys + 1
          /\ (HasKey(e) <=> HasKey(Top)) => keys' = keys
      BY <1>10, InElementFacts DEF Does, Steps
    <2>2. ContextOK(Top)
      BY <2>1, InnerFacts DEF ContextInv, ContextOK, Inner
    <2>3. HasKey(d) <=> HasKey(e)
      BY <2>1, <2>2, StepsEffect
    <2> HIDE DEF d
    <2>4. /\ Inner = Top /\ DOMAIN stack' = DOMAIN stack /\ stack'[n] = d /\ n \in DOMAIN stack
          /\ \A i \in DOMAIN stack : i # n => stack'[i] = stack[i]
      BY <2>1, InnerFacts, UpdateFacts
    <2>5. keys = Cardinality(Holders(stack)) /\ Cardinality(Holders(stack')) \in Nat
      BY <1>2, <1>5, <2>1, HoldersFinite
    <2>6. CASE HasKey(Top) /\ ~HasKey(e)
      <3>1. n \notin Holders(stack') /\ Holders(stack) = Holders(stack') \union {n}
        BY <2>3, <2>4, <2>6 DEF Holders, Inner
      <3>2. Cardinality(Holders(stack)) = Cardinality(Holders(stack')) + 1
        BY <1>5, <3>1, HoldersOneMore
      <3>3. keys' = keys - 1
        BY <2>1, <2>6
      <3>4. keys' = Cardinality(Holders(stack'))
        BY <2>5, <3>2, <3>3
      <3> QED
        BY <3>4 DEF CountInv
    <2>7. CASE ~HasKey(Top) /\ HasKey(e)
      <3>1. n \notin Holders(stack) /\ Holders(stack') = Holders(stack) \union {n}
        BY <2>3, <2>4, <2>7 DEF Holders, Inner
      <3>2. Cardinality(Holders(stack')) = Cardinality(Holders(stack)) + 1
        BY <1>5, <3>1, HoldersOneMore
      <3>3. keys' = keys + 1
        BY <2>1, <2>7
      <3>4. keys' = Cardinality(Holders(stack'))
        BY <2>5, <3>2, <3>3
      <3> QED
        BY <3>4 DEF CountInv
    <2>8. CASE HasKey(e) <=> HasKey(Top)
      BY <1>3, <1>4, <2>1, <2>3, <2>8
    <2> QED
      BY <2>6, <2>7, <2>8
  <1>11. CASE Nest
    <2>1. /\ Innermost /\ Top \in Contexts(SessionIds) /\ Inner = Top /\ Len(stack) \in Nat \ {0} /\ DOMAIN stack = 1 .. Len(stack)
          /\ Executing /\ keys' = keys
      BY <1>11, NestFacts, InnerFacts DEF Nest
    <2>2. PICK list : /\ DOMAIN stack' = 1 .. Len(stack) + 1
                      /\ stack'[Len(stack) + 1] = NewContext(list) /\ stack'[Len(stack)] = Nested(Top)
                      /\ \A i \in DOMAIN stack : i < Len(stack) => stack'[i] = stack[i]
      BY <1>11, NestFacts
    <2>3. ~HasKey(NewContext(list)) /\ (HasKey(Nested(Top)) <=> HasKey(Top))
      <3>1. ~HasKey(NewContext(list))
        BY DEF NewContext, HasKey
      <3> QED
        BY <2>1, <3>1, NestedKept
    <2>4. ASSUME NEW i PROVE i \in Holders(stack') <=> i \in Holders(stack)
      <3>1. i \in DOMAIN stack' <=> i \in DOMAIN stack \/ i = Len(stack) + 1
        BY <2>1, <2>2
      <3>2. CASE i = Len(stack) + 1
        BY <2>1, <2>2, <2>3, <3>2 DEF Holders
      <3>3. CASE i \in DOMAIN stack
        <4>1. i < Len(stack) \/ i = Len(stack)
          BY <2>1, <3>3
        <4> QED
          BY <2>1, <2>2, <2>3, <3>1, <3>3, <4>1 DEF Holders, Inner
      <3>4. CASE i \notin DOMAIN stack'
        BY <3>1, <3>4 DEF Holders
      <3> QED
        BY <3>1, <3>2, <3>3, <3>4
    <2> QED
      BY <1>3, <2>1, <2>4
  <1>12. ASSUME Innermost, Top.list = <<>> PROVE ~HasKey(Top)
    BY <1>12, InnerFacts DEF ContextInv, KeyOK, Inner
  <1>13. CASE Return
    <2>1. Innermost /\ Executing /\ keys' = keys /\ ~HasKey(Top) /\ Level = Len(stack) /\ Len(stack) \in Nat \ {0}
          /\ Inner = Top /\ DOMAIN stack = 1 .. Len(stack)
      BY <1>12, <1>13, DoneFacts, InnerFacts DEF Return
    <2>2. CASE Level = 1
      <3>1. stack' = <<>>
        BY <1>13, <2>2, DoneFacts DEF Return
      <3>2. Holders(stack') = {}
        BY <3>1 DEF Holders
      <3>3. Holders(stack) = {}
        BY <2>1, <2>2 DEF Holders, Inner
      <3> QED
        BY <1>3, <2>1, <3>2, <3>3
    <2>3. CASE Level # 1
      <3> DEFINE n == Len(stack) - 1
                 p == stack[n]
                 d == Resumed(p, Top.own)
      <3>1. /\ n \in Nat \ {0} /\ n \in DOMAIN stack /\ DOMAIN stack' = 1 .. n /\ p.nested /\ Len(stack) = n + 1
            /\ Active(p, SessionIds) /\ StepOf(p) \in {"sub", "authorize", "authorize_nv"} /\ Top.own \in SessionIds
            /\ stack'[n] = d /\ \A i \in 1 .. n : i < n => stack'[i] = stack[i] /\ i \in DOMAIN stack
        BY <1>13, <2>3, ReturnFacts
      <3> HIDE DEF n
      <3>2. ContextOK(p)
        BY <3>1 DEF ContextInv, ContextOK
      <3>3. HasKey(d) <=> HasKey(p)
        BY <3>1, <3>2, ResumedEffect
      <3> HIDE DEF d
      <3>4. ASSUME NEW i PROVE i \in Holders(stack') <=> i \in Holders(stack)
        <4>1. n \in Nat /\ (i \in DOMAIN stack <=> i \in DOMAIN stack' \/ i = n + 1) /\ n + 1 \notin DOMAIN stack'
          BY <2>1, <3>1
        <4>2. CASE i \in DOMAIN stack'
          <5>1. i \in 1 .. n /\ (i = n \/ i < n)
            BY <3>1, <4>1, <4>2
          <5> QED
            BY <3>1, <3>3, <4>1, <4>2, <5>1 DEF Holders
        <4>3. CASE i = n + 1
          BY <2>1, <3>1, <4>1, <4>3 DEF Holders, Inner
        <4>4. CASE i \notin DOMAIN stack
          BY <4>1, <4>4 DEF Holders
        <4> QED
          BY <4>1, <4>2, <4>3, <4>4
      <3> QED
        BY <1>3, <2>1, <3>4
    <2> QED
      BY <2>2, <2>3
  <1>14. ASSUME NEW n \in Nat, Len(stack) = n + 1, DOMAIN stack = 1 .. n + 1, DOMAIN stack' = 1 .. n,
                \A i \in 1 .. n : HasKey(stack'[i]) <=> HasKey(stack[i])
         PROVE  /\ ~HasKey(Inner) => Holders(stack') = Holders(stack)
                /\ HasKey(Inner) => n + 1 \notin Holders(stack') /\ Holders(stack) = Holders(stack') \union {n + 1}
    <2>1. \A i : i \in 1 .. n + 1 <=> i \in 1 .. n \/ i = n + 1
      BY <1>14
    <2>2. n + 1 \notin 1 .. n
      BY <1>14
    <2> QED
      BY <1>14, <2>1, <2>2 DEF Holders, Inner
  <1>15. CASE ReturnWithoutAuth
    <2> DEFINE n == Level - 1
    <2>1. stack' = ClearCurrent /\ keys' = keys /\ Executing
      BY <1>15 DEF ReturnWithoutAuth
    <2>2. /\ Innermost /\ Level = Len(stack) /\ Level \in Nat \ {0} /\ DOMAIN ClearCurrent = 1 .. n /\ ~HasKey(Top)
          /\ \A i \in 1 .. n : ClearCurrent[i] = stack[i] /\ i \in DOMAIN stack
      BY <1>12, <1>15, DoneFacts
    <2>3. n \in Nat /\ Len(stack) = n + 1 /\ DOMAIN stack = 1 .. n + 1 /\ Inner = Top
      BY <2>2, InnerFacts
    <2> HIDE DEF n
    <2>4. Holders(stack') = Holders(stack)
      BY <1>14, <2>1, <2>2, <2>3
    <2> QED
      BY <1>3, <2>1, <2>4
  <1>16. CASE Pops
    <2> DEFINE n == Len(stack) - 1
    <2>1. /\ rc = "running" /\ stack \in Seq(Contexts(SessionIds)) /\ DOMAIN stack' = 1 .. n
          /\ \A i \in 1 .. n : i \in DOMAIN stack
          /\ FlushesSession => \A i \in 1 .. n : stack'[i] = Forgetting(stack[i], Top.session)
          /\ ~FlushesSession => \A i \in 1 .. n : stack'[i] = stack[i]
          /\ n \in Nat /\ Top = Inner /\ DOMAIN stack = 1 .. Len(stack) /\ Len(stack) \in Nat \ {0}
          /\ keys' = (IF CleansUp /\ pending = "none" THEN keys - 1 ELSE keys)
          /\ UNCHANGED <<pending, create, at>>
          /\ ~Executing' /\ ~Executing
      BY <1>16, PopsFacts DEF Executing
    <2>2. Len(stack) = n + 1 /\ DOMAIN stack = 1 .. n + 1
      BY <2>1
    <2> HIDE DEF n
    <2>3. ASSUME NEW i \in 1 .. n PROVE HasKey(stack'[i]) <=> HasKey(stack[i])
      <3>1. stack[i] \in Contexts(SessionIds) /\ None \in SessionIds
        BY <2>1 DEF SessionIds
      <3>2. HasKey(Forgetting(stack[i], Top.session)) <=> HasKey(stack[i])
        BY <3>1, ContextKept
      <3> QED
        BY <2>1, <3>2
    <2>4. CASE at \in Unflushed \/ SessionLost
      BY <2>1, <2>4 DEF CountInv, SessionLost
    <2>5. CASE pending # "none"
      <3>1. SessionLost
        BY <2>1, <2>5 DEF PendingInv, SessionLost
      <3> QED
        BY <2>4, <3>1
    <2>6. CASE ~(at \in Unflushed \/ SessionLost) /\ pending = "none"
      <3>1. keys = Cardinality(Holders(stack)) /\ Cardinality(Holders(stack')) \in Nat
        BY <1>5, <2>1, <2>6, HoldersFinite DEF CountInv
      <3>2. CASE HasKey(Top)
        <4>1. CleansUp
          BY <1>16, <2>6, <3>2, KeyPops
        <4>2. n + 1 \notin Holders(stack') /\ Holders(stack) = Holders(stack') \union {n + 1}
          BY <1>14, <2>1, <2>2, <2>3, <3>2
        <4>3. Cardinality(Holders(stack)) = Cardinality(Holders(stack')) + 1
          BY <1>5, <4>2, HoldersOneMore
        <4>4. keys' = keys - 1
          BY <2>1, <2>6, <4>1
        <4>5. keys' = Cardinality(Holders(stack'))
          BY <3>1, <4>3, <4>4
        <4> QED
          BY <4>5 DEF CountInv
      <3>3. CASE ~HasKey(Top)
        <4>1. ~CleansUp
          BY <1>16, <3>3, KeyPops
        <4>2. Holders(stack') = Holders(stack)
          BY <1>14, <2>1, <2>2, <2>3, <3>3
        <4> QED
          BY <2>1, <3>1, <4>1, <4>2 DEF CountInv
      <3> QED
        BY <3>2, <3>3
    <2> QED
      BY <2>4, <2>5, <2>6
  <1> QED
    BY <1>1, <1>6, <1>7, <1>8, <1>9, <1>10, <1>11, <1>13, <1>15, <1>16 DEF Kind

-----------------------------------------------------------------------------
(* What an authorization leaves in the TPM.                                *)

CleanInv ==
    /\ AtInv /\ ContextInv /\ PendingInv /\ FailInv /\ FlushInv /\ KnownInv /\ CountInv
    /\ rc # "crashed" => OwnInv

\* Nothing happens after a crash.
LEMMA CrashStays ==
  ASSUME [Next]_vars, rc = "crashed"
  PROVE  UNCHANGED vars
  <1>1. ~Executing /\ ~InElement /\ ~Unready
    BY DEF Executing, InElement, Unready
  <1>2. ~Begin /\ ~BeginUnselected /\ ~Enter /\ ~UseSession /\ ~Unwind /\ ~Return /\ ~ReturnWithoutAuth
    BY <1>1 DEF Begin, BeginUnselected, Enter, UseSession, Unwind, Return, ReturnWithoutAuth
  <1>3. ~create_session_send /\ ~create_session_finish /\ ~create_session_wait
    BY <1>1 DEF create_session_send, create_session_finish, create_session_wait
  <1>4. ~Callback /\ ~CallbackWaits /\ ~SignsNothing /\ ~AuthorizeByValue /\ ~Nest /\ ~NestUnselected
    BY <1>1 DEF Callback, CallbackWaits, SignsNothing, AuthorizeByValue, Nest, NestUnselected
  <1>5. ~Send /\ ~SendWaits /\ ~Finish /\ ~FinishFails
    BY <1>1 DEF Send, SendWaits, Finish, FinishFails
  <1> QED
    BY <1>2, <1>3, <1>4, <1>5 DEF Next

LEMMA CleanInit == Init => CleanInv
  <1> SUFFICES ASSUME Init PROVE CleanInv
    OBVIOUS
  <1>1. /\ stack = <<>> /\ DOMAIN stack = {} /\ sessions = <<>> /\ DOMAIN sessions = {} /\ keys = 0
        /\ rc = "idle" /\ create = "INIT" /\ pending = "none" /\ ~Executing
    BY DEF Init, Executing
  <1>2. Holders(stack) = {} /\ Cardinality(Holders(stack)) = 0
    BY <1>1, FS_EmptySet DEF Holders
  <1>3. AtInv /\ ContextInv /\ PendingInv /\ FailInv
    BY <1>1 DEF AtInv, ContextInv, PendingInv, FailInv
  <1>4. FlushInv /\ KnownInv /\ OwnInv
    BY <1>1 DEF FlushInv, KnownInv, OwnInv
  <1> QED
    BY <1>1, <1>2, <1>3, <1>4 DEF CountInv, CleanInv

LEMMA CleanNext ==
  ASSUME SignedByValue, IInv, IInv', CleanInv, [Next]_vars
  PROVE  CleanInv'
  <1>1. CASE rc = "crashed"
    <2>1. UNCHANGED vars
      BY <1>1, CrashStays
    <2> QED
      BY <1>1, <2>1 DEF vars, CleanInv, AtInv, ContextInv, PendingInv, FailInv, FlushInv, KnownInv, CountInv, Executing
  <1>2. CASE rc # "crashed"
    <2>1. AtInv' /\ ContextInv' /\ PendingInv' /\ FailInv'
      BY AtNext, ContextNext, PendingNext, FailNext DEF CleanInv
    <2>2. FlushInv' /\ CountInv'
      BY FlushNext, CountNext DEF CleanInv
    <2>3. rc' # "crashed" => OwnInv' /\ KnownInv'
      BY <1>2, OwnNext, KnownNext DEF CleanInv
    <2>4. KnownInv'
      BY <2>3 DEF KnownInv
    <2> QED
      BY <2>1, <2>2, <2>3, <2>4 DEF CleanInv
  <1> QED
    BY <1>1, <1>2

\* If no PolicySigned is signed with a keyed hash that has a policy, the end of an
\* authorization leaves nothing in the TPM that nobody knows of, however policies
\* execute one another, share sessions and fail: every key is flushed but at the steps
\* of Unflushed, no session is flushed twice, and one that is still there is the result
\* or was given to a command that failed (the clean-up of execute_policy_X,
\* ifapi_policyeval_execute and ifapi_policyutil_execute).
THEOREM LeavesTpmClean ==
  ASSUME SignedByValue
  PROVE  Spec => []TpmLeftClean
  <1>1. IInv /\ IInv' /\ CleanInv /\ [Next]_vars => CleanInv'
    BY CleanNext
  <1>2. IInv /\ CleanInv => TpmLeftClean
    <2> SUFFICES ASSUME IInv, CleanInv PROVE KeysFlushed /\ SessionsEnded
      BY DEF TpmLeftClean
    <2>1. ASSUME rc \in {"done", "failed"} PROVE stack = <<>> /\ DOMAIN stack = {} /\ ~Executing /\ rc # "crashed"
      BY <2>1 DEF IInv, IdleInv, Executing
    <2>2. ASSUME rc \in {"done", "failed"} PROVE keys = 0 \/ at \in Unflushed \/ SessionLost
      <3>1. Holders(stack) = {} /\ Cardinality(Holders(stack)) = 0
        BY <2>1, <2>2, FS_EmptySet DEF Holders
      <3> QED
        BY <2>1, <2>2, <3>1 DEF CleanInv, CountInv
    <2>3. ASSUME rc \in {"done", "failed"}, NEW s \in DOMAIN sessions, sessions[s].live
          PROVE  s = result \/ sessions[s].used \/ SentOut \/ SessionLost
      <3>1. Known(s) /\ DOMAIN stack = {} /\ ~Executing
        BY <2>1, <2>3 DEF CleanInv, KnownInv
      <3> QED
        BY <3>1 DEF Known
    <2>4. \A s \in DOMAIN sessions : sessions[s].flushes <= 1
      BY DEF CleanInv, FlushInv
    <2> QED
      BY <2>2, <2>3, <2>4 DEF KeysFlushed, SessionsEnded, SentOut
  <1>3. Spec => []CleanInv
    BY <1>1, CleanInit, InvHolds, PTL DEF Spec
  <1> QED
    BY <1>2, <1>3, InvHolds, PTL

-----------------------------------------------------------------------------
(* Parameter encryption after a PolicyCpHash.                              *)

CpHashItem(x) == x.element.type = "POLICYCPHASH" /\ x.run.steps = <<"Policy">>
\* A step of the element executes another policy.
Nests(x) ==
    \E i \in DOMAIN x.run.steps :
        \/ x.run.steps[i] = "sub"
        \/ /\ x.run.steps[i] \in {"authorize", "authorize_nv"}
           /\ get_nv_auth_object(x.element.object).policy # <<>>

\* The lists have the elements of their policy, in its order: a PolicyCpHash is in
\* each of them, and what executes another policy after it comes after it.
ListsFollow ==
    \A p \in Policies : \A l \in Lists[p] : \A i \in DOMAIN p :
        p[i].type = "POLICYCPHASH" =>
            \E k \in DOMAIN l :
                /\ CpHashItem(l[k])
                /\ (\E j \in k + 1 .. Len(l) : Nests(l[j])) => \E m \in i + 1 .. Len(p) : NestedPolicies(p[m]) # {}

\* Of the list l the elements up to n are done, and r are the others.
Rest(r, l, n) == Len(r) = Len(l) - n /\ \A i \in 1 .. Len(r) : r[i] = l[n + i]
\* Encryption is on again only if an element after the PolicyCpHash turned it on.
Cleared(l, n) ==
    session2 = "session1" =>
        \A k \in 1 .. n : CpHashItem(l[k]) => \E j \in k + 1 .. Len(l) : j <= n + 1 /\ Nests(l[j])
Reached(c) ==
    /\ c.nested => Nests(Head(c.list))
    /\ \E l \in Lists[policy] : \E n \in 0 .. Len(l) : Rest(c.list, l, n) /\ Cleared(l, n)
ClearInv == Executing => Reached(stack[1])

\* The outermost policy is the one whose list is followed.
LEMMA FirstUpdated ==
  ASSUME IInv, Innermost, NEW d, Update(d)
  PROVE  /\ 1 \in DOMAIN stack /\ Top = stack[Len(stack)]
         /\ Len(stack) = 1 => stack'[1] = d
         /\ Len(stack) # 1 => stack'[1] = stack[1]
  <1>1. Len(stack) \in Nat \ {0} /\ DOMAIN stack = 1 .. Len(stack) /\ Inner = Top
    BY InnerFacts
  <1>2. 1 \in DOMAIN stack /\ (Len(stack) # 1 => 1 < Len(stack))
    BY <1>1
  <1> QED
    BY <1>1, <1>2, UpdateFacts DEF Inner

LEMMA ReachedKept ==
  ASSUME Reached(stack[1]), policy' = policy, session2' \in {session2, "NONE"},
         stack'[1].list = stack[1].list, stack'[1].nested => stack[1].nested
  PROVE  (Reached(stack[1]))'
  <1>0. PICK l \in Lists[policy] : \E n \in 0 .. Len(l) : Rest(stack[1].list, l, n) /\ Cleared(l, n)
    BY DEF Reached
  <1>1. PICK n \in 0 .. Len(l) : Rest(stack[1].list, l, n) /\ Cleared(l, n)
    BY <1>0
  <1>2. Cleared(l, n)'
    BY <1>1 DEF Cleared
  <1>3. Rest(stack'[1].list, l, n)
    BY <1>1
  <1>4. stack'[1].nested => Nests(Head(stack'[1].list))
    BY DEF Reached
  <1> QED
    BY <1>0, <1>1, <1>2, <1>3, <1>4 DEF Reached, Rest

LEMMA ReachedNext ==
  ASSUME IInv, Reached(stack[1]), policy' = policy, session2' \in {session2, "NONE"},
         stack[1].list \in Seq(Items), stack[1].list # <<>>,
         stack'[1].list = Tail(stack[1].list), ~stack'[1].nested,
         CpHashItem(Head(stack[1].list)) => session2' = "NONE"
  PROVE  (Reached(stack[1]))'
  <1> DEFINE r == stack[1].list
             t == Tail(r)
  <1>0. PICK l \in Lists[policy] : \E n \in 0 .. Len(l) : Rest(r, l, n) /\ Cleared(l, n)
    BY DEF Reached
  <1>1. PICK n \in 0 .. Len(l) : Rest(r, l, n) /\ Cleared(l, n)
    BY <1>0
  <1>2. l \in Seq(Items) /\ Len(l) \in Nat
    BY <1>0, ExecutionAssumption DEF IInv, TypeOK
  <1>3. /\ Len(r) \in Nat \ {0} /\ DOMAIN r = 1 .. Len(r) /\ Head(r) = r[1] /\ Len(t) = Len(r) - 1
        /\ \A i \in 1 .. Len(t) : t[i] = r[i + 1] /\ i + 1 \in 1 .. Len(r)
    OBVIOUS
  <1> HIDE DEF r, t
  <1>4. Len(r) = Len(l) - n /\ \A i \in 1 .. Len(r) : r[i] = l[n + i]
    BY <1>1 DEF Rest
  <1>5. n \in Nat /\ n + 1 \in 0 .. Len(l) /\ Head(r) = l[n + 1] /\ Len(t) = Len(l) - (n + 1)
    BY <1>1, <1>2, <1>3, <1>4
  <1>6. \A i \in 1 .. Len(t) : t[i] = l[(n + 1) + i]
    <2> SUFFICES ASSUME NEW i \in 1 .. Len(t) PROVE t[i] = l[(n + 1) + i]
      OBVIOUS
    <2>1. i \in Nat /\ t[i] = r[i + 1] /\ i + 1 \in 1 .. Len(r)
      BY <1>3
    <2>2. n + (i + 1) = (n + 1) + i
      BY <1>5, <2>1
    <2> QED
      BY <1>4, <2>1, <2>2
  <1>7. ASSUME session2' = "session1", NEW k \in 1 .. n + 1, CpHashItem(l[k])
        PROVE  \E j \in k + 1 .. Len(l) : j <= (n + 1) + 1 /\ Nests(l[j])
    <2>1. k # n + 1 /\ session2 = "session1"
      BY <1>5, <1>7 DEF r
    <2>2. k \in 1 .. n
      BY <1>5, <1>7, <2>1
    <2>3. PICK j \in k + 1 .. Len(l) : j <= n + 1 /\ Nests(l[j])
      BY <1>1, <1>7, <2>1, <2>2 DEF Cleared
    <2>4. j <= (n + 1) + 1
      BY <1>5, <2>2, <2>3
    <2> QED
      BY <2>3, <2>4
  <1>8. Cleared(l, n + 1)'
    BY <1>7 DEF Cleared
  <1>9. Rest(stack'[1].list, l, n + 1)
    BY <1>5, <1>6 DEF Rest, r, t
  <1> QED
    BY <1>0, <1>5, <1>8, <1>9 DEF Reached, Rest

\* A context that is not at a command is not at a PolicyCpHash.
LEMMA NotAtCpHash ==
  ASSUME NEW ids, NEW c, Active(c, ids), CpHashItem(Head(c.list))
  PROVE  StepOf(c) = "Policy" /\ TypeOf(c) = "POLICYCPHASH"
  <1>1. c.step \in DOMAIN <<"Policy">>
    BY DEF Active, CpHashItem
  <1>2. c.step = 1
    BY <1>1
  <1> QED
    BY <1>2 DEF CpHashItem, StepOf, TypeOf

\* A step of the policy c is done.
LEMMA AdvanceList ==
  ASSUME NEW ids, NEW c, Active(c, ids), NEW e \in Contexts(ids), SameCall(e, c)
  PROVE  ~Advance(e).nested /\ Advance(e).list \in {c.list, Tail(c.list)}
  <1>1. Active(e, ids)
    BY DEF Active, SameCall
  <1> QED
    BY <1>1, AdvanceTo DEF Moves, Leaves, SameCall

LEMMA ReachedDone ==
  ASSUME IInv, ClearInv, InElement, NEW e \in Contexts(SessionIds), SameCall(e, Top), Update(Advance(e)),
         policy' = policy, session2' \in {session2, "NONE"}, Step = "Policy" /\ Type = "POLICYCPHASH" => session2' = "NONE"
  PROVE  (Reached(stack[1]))'
  <1>1. /\ Innermost /\ Active(Top, SessionIds) /\ StepOf(Top) = Step /\ TypeOf(Top) = Type /\ Top \in Contexts(SessionIds)
        /\ Executing
    BY InElementFacts DEF InElement, Type, TypeOf, Item
  <1>2. Reached(stack[1])
    BY <1>1 DEF ClearInv
  <1> DEFINE d == Advance(e)
  <1>3. ~d.nested /\ d.list \in {Top.list, Tail(Top.list)}
    BY <1>1, AdvanceList
  <1> HIDE DEF d
  <1>4. /\ 1 \in DOMAIN stack /\ Top = stack[Len(stack)]
        /\ Len(stack) = 1 => stack'[1] = d
        /\ Len(stack) # 1 => stack'[1] = stack[1]
    BY <1>1, FirstUpdated DEF d
  <1>5. CASE Len(stack) # 1
    BY <1>2, <1>4, <1>5, ReachedKept
  <1>6. CASE Len(stack) = 1 /\ d.list = Top.list
    <2>1. stack'[1].list = stack[1].list /\ ~stack'[1].nested
      BY <1>3, <1>4, <1>6
    <2> QED
      BY <1>2, <2>1, ReachedKept
  <1>7. CASE Len(stack) = 1 /\ d.list = Tail(Top.list)
    <2>1. stack[1] = Top /\ stack'[1].list = Tail(stack[1].list) /\ ~stack'[1].nested
      BY <1>3, <1>4, <1>7
    <2>2. Top.list \in Seq(Items) /\ Top.list # <<>>
      BY <1>1 DEF Active, Contexts
    <2>3. CpHashItem(Head(Top.list)) => session2' = "NONE"
      BY <1>1, NotAtCpHash
    <2> QED
      BY <1>2, <2>1, <2>2, <2>3, ReachedNext
  <1> QED
    BY <1>3, <1>5, <1>6, <1>7

\* The innermost context changes and stays at its step.
LEMMA ReachedTouched ==
  ASSUME IInv, ClearInv, Innermost, NEW d, Update(d), Touched(d, Top), UNCHANGED <<policy, session2>>
  PROVE  (Reached(stack[1]))'
  <1>1. Reached(stack[1])
    BY InnerFacts DEF ClearInv
  <1>2. /\ 1 \in DOMAIN stack /\ Top = stack[Len(stack)]
        /\ Len(stack) = 1 => stack'[1] = d
        /\ Len(stack) # 1 => stack'[1] = stack[1]
    BY FirstUpdated
  <1>3. stack'[1].list = stack[1].list /\ stack'[1].nested = stack[1].nested
    BY <1>2 DEF Touched
  <1> QED
    BY <1>1, <1>3, ReachedKept

\* Another policy is executed, and parameters may be encrypted again.
LEMMA ReachedNests ==
  ASSUME IInv, ClearInv, Nest
  PROVE  (Reached(stack[1]))'
  <1> DEFINE r == stack[1].list
  <1>1. /\ Innermost /\ InElement /\ NeedsPolicy /\ Executing /\ policy' = policy /\ Inner = Top
        /\ Len(stack) \in Nat \ {0} /\ DOMAIN stack = 1 .. Len(stack) /\ stack \in Seq(Contexts(SessionIds))
        /\ Active(Top, SessionIds) /\ StepOf(Top) = Step /\ Top \in Contexts(SessionIds)
        /\ \A i \in DOMAIN stack : i < Len(stack) => stack[i].nested
    BY NestFacts, InnerFacts, InElementFacts DEF Nest
  <1>2. /\ stack'[Len(stack)] = Nested(Top)
        /\ \A i \in DOMAIN stack : i < Len(stack) => stack'[i] = stack[i]
    BY NestFacts
  <1>3. Nested(Top).list = Top.list
    BY <1>1, NestedKept
  <1>4. Nests(Head(Top.list))
    <2>1. Top.step \in DOMAIN Head(Top.list).run.steps /\ Head(Top.list).run.steps[Top.step] = Step
      BY <1>1 DEF Active, StepOf
    <2>2. Step = "sub" \/ (Step \in {"authorize", "authorize_nv"} /\ get_nv_auth_object(Head(Top.list).element.object).policy # <<>>)
      BY <1>1 DEF NeedsPolicy, AuthPolicy, Object, Item
    <2> QED
      BY <2>1, <2>2 DEF Nests
  <1>5. Reached(stack[1])
    BY <1>1 DEF ClearInv
  <1>6. stack'[1].list = r /\ Nests(Head(r)) /\ r # <<>> /\ r \in Seq(Items)
    <2>1. CASE Len(stack) = 1
      BY <1>1, <1>2, <1>3, <1>4, <2>1 DEF Inner, Active, Contexts
    <2>2. CASE Len(stack) # 1
      <3>1. 1 \in DOMAIN stack /\ 1 < Len(stack)
        BY <1>1, <2>2
      <3>2. stack'[1] = stack[1] /\ stack[1].nested /\ stack[1] \in Contexts(SessionIds) /\ AtStep(stack[1])
        BY <1>1, <1>2, <3>1 DEF IInv, StepInv
      <3> QED
        BY <1>5, <3>2 DEF Reached, AtStep, Contexts
    <2> QED
      BY <2>1, <2>2
  <1>7. PICK l \in Lists[policy] : \E n \in 0 .. Len(l) : Rest(r, l, n) /\ Cleared(l, n)
    BY <1>5 DEF Reached
  <1>8. PICK n \in 0 .. Len(l) : Rest(r, l, n)
    BY <1>7
  <1>9. l \in Seq(Items) /\ Len(l) \in Nat
    BY <1>7, ExecutionAssumption DEF IInv, TypeOK
  <1>10. Len(r) \in Nat \ {0} /\ Head(r) = r[1] /\ 1 \in 1 .. Len(r)
    BY <1>6
  <1> HIDE DEF r
  <1>11. n \in Nat /\ n + 1 <= Len(l) /\ l[n + 1] = Head(r)
    BY <1>8, <1>9, <1>10 DEF Rest
  <1>12. ASSUME NEW k \in 1 .. n PROVE \E j \in k + 1 .. Len(l) : j <= n + 1 /\ Nests(l[j])
    <2>1. n + 1 \in k + 1 .. Len(l) /\ n + 1 <= n + 1
      BY <1>9, <1>11
    <2> QED
      BY <1>6, <1>11, <2>1
  <1>13. Cleared(l, n)'
    BY <1>12 DEF Cleared
  <1> QED
    BY <1>1, <1>6, <1>7, <1>8, <1>13 DEF Reached, Rest

LEMMA ReachedBegin ==
  ASSUME IInv, Begin
  PROVE  (Reached(stack[1]))'
  <1>1. PICK l \in Lists[policy] : l \in Seq(Items) /\ stack'[1] = NewContext(l)
    BY BeginFacts
  <1>2. stack'[1].list = l /\ ~stack'[1].nested /\ policy' = policy
    BY <1>1 DEF NewContext, Begin
  <1>3. Len(l) \in Nat
    BY <1>1
  <1>4. Rest(l, l, 0)
    BY <1>3 DEF Rest
  <1>5. Cleared(l, 0)'
    BY DEF Cleared
  <1>6. 0 \in 0 .. Len(l)
    BY <1>3
  <1> QED
    BY <1>1, <1>2, <1>4, <1>5, <1>6 DEF Reached, Rest

\* The policy that was executed for another one is done.
LEMMA ReachedReturns ==
  ASSUME IInv, ClearInv, Return, Level # 1
  PROVE  (Reached(stack[1]))'
  <1> DEFINE n == Len(stack) - 1
             p == stack[n]
             d == Resumed(p, Top.own)
  <1>1. /\ n \in Nat \ {0} /\ p.nested /\ Active(p, SessionIds) /\ StepOf(p) \in {"sub", "authorize", "authorize_nv"}
        /\ Top.own \in SessionIds /\ stack'[n] = d /\ \A i \in 1 .. n : i < n => stack'[i] = stack[i]
    BY ReturnFacts
  <1>2. Reached(stack[1]) /\ policy' = policy /\ session2' = session2
    BY DEF ClearInv, Return
  <1>3. ~d.nested /\ d.list \in {p.list, Tail(p.list)}
    <2>1. p \in Contexts(SessionIds)
      BY <1>1 DEF Active
    <2> HIDE DEF p
    <2>2. CASE StepOf(p) = "sub"
      <3>1. d = Advance(ExecutedBy(p)) /\ ExecutedBy(p) \in Contexts(SessionIds) /\ SameCall(ExecutedBy(p), p)
        BY <2>1, <2>2, ExecutedByFacts DEF Resumed
      <3> HIDE DEF d
      <3> QED
        BY <1>1, <3>1, AdvanceList
    <2>3. CASE StepOf(p) # "sub"
      <3> DEFINE e == AuthorizedBy(p, Top.own)
      <3>1. Authorized(p, Top.own) = Advance(e) /\ e \in Contexts(SessionIds) /\ SameCall(e, p)
        BY <1>1, <2>3, AuthorizedByFacts
      <3>2. d = Advance(e)
        BY <2>3, <3>1 DEF Resumed
      <3> HIDE DEF d, e
      <3> QED
        BY <1>1, <3>1, <3>2, AdvanceList
    <2> QED
      BY <2>2, <2>3
  <1>4. p.list \in Seq(Items) /\ p.list # <<>> /\ ~CpHashItem(Head(p.list))
    <2>1. p.list \in Seq(Items) /\ p.list # <<>>
      BY <1>1 DEF Active, Contexts
    <2>2. ~CpHashItem(Head(p.list))
      BY <1>1, NotAtCpHash
    <2> QED
      BY <2>1, <2>2
  <1> HIDE DEF d
  <1>5. CASE n # 1
    <2> HIDE DEF n
    <2>1. 1 \in 1 .. n /\ 1 < n
      BY <1>1, <1>5
    <2>2. stack'[1] = stack[1]
      BY <1>1, <2>1
    <2> QED
      BY <1>2, <2>2, ReachedKept
  <1>6. CASE n = 1
    <2>1. p = stack[1] /\ stack'[1] = d
      BY <1>1, <1>6
    <2>2. CASE d.list = p.list
      BY <1>2, <1>3, <2>1, <2>2, ReachedKept
    <2>3. CASE d.list = Tail(p.list)
      <3>1. /\ stack[1].list \in Seq(Items) /\ stack[1].list # <<>> /\ ~CpHashItem(Head(stack[1].list))
            /\ stack'[1].list = Tail(stack[1].list) /\ ~stack'[1].nested
        BY <1>3, <1>4, <2>1, <2>3
      <3> QED
        BY <1>2, <3>1, ReachedNext
    <2> QED
      BY <1>3, <2>2, <2>3
  <1> QED
    BY <1>5, <1>6

LEMMA ClearNext ==
  ASSUME IInv, ClearInv, [Next]_vars
  PROVE  ClearInv'
  <1> USE DEF ClearInv
  <1>1. CASE ~Executing'
    BY <1>1
  <1>2. ASSUME Executing, stack' = stack, UNCHANGED <<policy, session2>> PROVE ClearInv'
    <2>1. Reached(stack[1])
      BY <1>2
    <2> QED
      BY <1>2, <2>1, ReachedKept
  <1>3. CASE UNCHANGED vars
    <2>1. Executing' = Executing
      BY <1>3 DEF vars, Executing
    <2> QED
      BY <1>1, <1>2, <1>3, <2>1 DEF vars
  <1>4. CASE Begin
    BY <1>4, ReachedBegin
  <1>5. CASE BeginUnselected \/ SignsNothing \/ NestUnselected \/ FinishFails \/ ReturnWithoutAuth \/ Unwind
    <2>1. CASE BeginUnselected \/ SignsNothing
      BY <1>1, <2>1 DEF BeginUnselected, SignsNothing, Executing
    <2>2. CASE NestUnselected \/ FinishFails
      BY <1>1, <2>2 DEF NestUnselected, FinishFails, Fails, FailsAt, Executing
    <2>3. CASE ReturnWithoutAuth
      BY <1>1, <2>3 DEF ReturnWithoutAuth, FailsAt, Executing
    <2>4. CASE Unwind
      BY <1>1, <2>4 DEF Unwind, Executing
    <2> QED
      BY <1>5, <2>1, <2>2, <2>3, <2>4
  <1>6. CASE Enter
    <2>1. stack' = stack /\ Executing /\ UNCHANGED <<policy, session2>>
      BY <1>6, EnterFacts DEF Enter
    <2> QED
      BY <1>2, <2>1
  <1>7. CASE create_session_send \/ create_session_wait \/ SendWaits
    <2>1. stack' = stack /\ Executing /\ UNCHANGED <<policy, session2>>
      BY <1>7 DEF create_session_send, create_session_wait, SendWaits, Unready, InElement
    <2> QED
      BY <1>2, <2>1
  <1>8. CASE UseSession
    <2> DEFINE d == WithSession(Top, stack[Level - 1].session)
    <2>1. Innermost /\ Update(d) /\ UNCHANGED <<policy, session2>>
      BY <1>8 DEF UseSession, Unready, Innermost, WithSession
    <2>2. Top \in Contexts(SessionIds)
      BY <2>1, InnerFacts
    <2>3. Touched(d, Top)
      BY <2>2 DEF Contexts, Touched, SameHeld, WithSession
    <2> HIDE DEF d
    <2> QED
      BY <2>1, <2>3, ReachedTouched
  <1>9. CASE create_session_finish
    <2>1. Innermost /\ Executing /\ UNCHANGED <<policy, session2>>
      BY <1>9 DEF create_session_finish, Unready, Innermost, Executing
    <2>2. CASE stack' = stack
      BY <1>2, <2>1, <2>2
    <2>3. CASE stack' # stack
      <3> DEFINE d == WithOwn(Top, Len(sessions'))
      <3>1. Update(d)
        BY <1>9, <2>3 DEF create_session_finish, WithOwn
      <3>2. Top \in Contexts(SessionIds)
        BY <2>1, InnerFacts
      <3>3. Touched(d, Top)
        BY <3>2 DEF Contexts, Touched, SameHeld, WithOwn
      <3> HIDE DEF d
      <3> QED
        BY <2>1, <3>1, <3>3, ReachedTouched
    <2> QED
      BY <2>2, <2>3
  <1>10. CASE CallbackWaits \/ Send
    <2>1. Innermost /\ Executing /\ UNCHANGED <<policy, session2>> /\ Top \in Contexts(SessionIds) /\ None \in SessionIds
      BY <1>10, InElementFacts DEF CallbackWaits, Send, SessionIds
    <2>2. CASE stack' = stack
      BY <1>2, <2>1, <2>2
    <2>3. CASE CallbackWaits /\ stack' # stack
      <3>1. Update(Signed(Top)) /\ Touched(Signed(Top), Top)
        BY <2>1, <2>3, TouchedBy DEF CallbackWaits
      <3> QED
        BY <2>1, <3>1, ReachedTouched
    <2>4. CASE Send /\ stack' # stack
      <3> DEFINE d == [Top EXCEPT !.sent = TRUE]
      <3>1. Update(d)
        BY <2>4 DEF Send
      <3>2. Touched(d, Top)
        BY <2>1, TouchedBy
      <3> HIDE DEF d
      <3> QED
        BY <2>1, <3>1, <3>2, ReachedTouched
    <2> QED
      BY <1>10, <2>2, <2>3, <2>4
  <1>11. CASE Callback
    <2> DEFINE e == CalledBack(Top)
    <2>1. InElement /\ Step # "Policy" /\ policy' = policy /\ session2' \in {session2, "NONE"}
      BY <1>11 DEF Callback, Callbacks
    <2>2. Executing /\ Top \in Contexts(SessionIds) /\ StepOf(Top) = Step
      BY <2>1, InElementFacts
    <2>3. CASE stack' = stack /\ session2' = session2
      BY <1>2, <2>1, <2>2, <2>3
    <2>4. CASE ~(stack' = stack /\ session2' = session2)
      <3>1. Update(Advance(e))
        BY <1>11, <2>2, <2>4 DEF Callback, CalledBack
      <3>2. e \in Contexts(SessionIds) /\ SameCall(e, Top)
        BY <2>2, CalledBackFacts
      <3> HIDE DEF e
      <3> QED
        BY <2>1, <3>1, <3>2, ReachedDone
    <2> QED
      BY <2>3, <2>4
  <1>12. CASE AuthorizeByValue
    <2> DEFINE e == AuthorizedBy(Top, None)
    <2>1. InElement /\ Step \in {"authorize", "authorize_nv"} /\ policy' = policy /\ session2' \in {session2, "NONE"}
      BY <1>12 DEF AuthorizeByValue
    <2>2. Executing /\ Active(Top, SessionIds) /\ StepOf(Top) = Step /\ None \in SessionIds
      BY <2>1, InElementFacts DEF SessionIds
    <2>3. CASE stack' = stack /\ session2' = session2
      BY <1>2, <2>1, <2>2, <2>3
    <2>4. CASE ~(stack' = stack /\ session2' = session2)
      <3>1. Update(Authorized(Top, None))
        BY <1>12, <2>4 DEF AuthorizeByValue
      <3>2. Authorized(Top, None) = Advance(e) /\ e \in Contexts(SessionIds) /\ SameCall(e, Top)
        BY <2>1, <2>2, AuthorizedByFacts
      <3> HIDE DEF e
      <3>3. Update(Advance(e))
        BY <3>1, <3>2
      <3> QED
        BY <2>1, <3>2, <3>3, ReachedDone
    <2> QED
      BY <2>3, <2>4
  <1>13. CASE Finish
    <2> DEFINE e == Answered(Top)
    <2>1. InElement /\ Update(Advance(e)) /\ policy' = policy /\ session2' = Encryption
      BY <1>13 DEF Finish
    <2>2. e \in Contexts(SessionIds) /\ SameCall(e, Top)
      BY <2>1, AnsweredByFacts
    <2>3. session2' \in {session2, "NONE"} /\ (Step = "Policy" /\ Type = "POLICYCPHASH" => session2' = "NONE")
      BY <2>1 DEF Encryption
    <2> HIDE DEF e
    <2> QED
      BY <2>1, <2>2, <2>3, ReachedDone
  <1>14. CASE Nest
    BY <1>14, ReachedNests
  <1>15. CASE Return
    <2>1. CASE Level = 1
      BY <1>1, <1>15, <2>1 DEF Return, Executing
    <2>2. CASE Level # 1
      BY <1>15, <2>2, ReachedReturns
    <2> QED
      BY <2>1, <2>2
  <1> QED
    BY <1>3, <1>4, <1>5, <1>6, <1>7, <1>8, <1>9, <1>10, <1>11, <1>12, <1>13, <1>14, <1>15 DEF Next

\* Only the end of the outermost policy ends the authorization.
LEMMA DoneOnly ==
  ASSUME [Next]_vars, rc' = "done"
  PROVE  UNCHANGED vars \/ (Return /\ Level = 1)
  <1>1. ASSUME Next, ~Return PROVE FALSE
    <2>1. CASE Begin \/ BeginUnselected \/ ReturnWithoutAuth \/ Unwind \/ SignsNothing \/ NestUnselected
      BY <2>1 DEF Begin, BeginUnselected, ReturnWithoutAuth, Unwind, SignsNothing, NestUnselected, InElement, Executing
    <2>2. CASE Enter \/ UseSession \/ create_session_send \/ create_session_finish \/ create_session_wait
      BY <2>2 DEF Enter, UseSession, create_session_send, create_session_finish, create_session_wait, Unready, Executing
    <2>3. CASE Callback \/ CallbackWaits \/ AuthorizeByValue \/ Nest \/ Send \/ SendWaits \/ Finish \/ FinishFails
      BY <2>3 DEF Callback, CallbackWaits, AuthorizeByValue, Nest, Send, SendWaits, Finish, FinishFails, InElement, Executing
    <2> QED
      BY <1>1, <2>1, <2>2, <2>3 DEF Next
  <1>2. ASSUME Return, Level # 1 PROVE FALSE
    BY <1>2 DEF Return, Executing
  <1> QED
    BY <1>1, <1>2

LEMMA DoneInClear ==
  ASSUME ListsFollow, IInv, ClearInv, CpHashInClear, [Next]_vars
  PROVE  CpHashInClear'
  <1>1. CASE rc' # "done"
    BY <1>1 DEF CpHashInClear
  <1>2. CASE UNCHANGED vars
    BY <1>2 DEF CpHashInClear, vars
  <1>3. CASE Return /\ Level = 1
    <2>1. /\ policy' = policy /\ session2' = session2 /\ Executing /\ Top = stack[1] /\ Top.list = <<>>
      BY <1>3 DEF Return, Top
    <2>2. Reached(stack[1]) /\ policy \in Policies /\ policy \in DOMAIN Lists
      BY <2>1, ExecutionAssumption DEF ClearInv, IInv, TypeOK
    <2>3. PICK l \in Lists[policy] : \E n \in 0 .. Len(l) : Rest(stack[1].list, l, n) /\ Cleared(l, n)
      BY <2>2 DEF Reached
    <2>4. PICK n \in 0 .. Len(l) : Rest(stack[1].list, l, n) /\ Cleared(l, n)
      BY <2>3
    <2>5. l \in Seq(Items) /\ Len(l) \in Nat /\ DOMAIN l = 1 .. Len(l)
      BY <2>2, <2>3, ExecutionAssumption
    <2>6. n = Len(l)
      BY <2>1, <2>4, <2>5 DEF Rest
    <2>7. ASSUME session2 = "session1", NEW i \in DOMAIN policy, policy[i].type = "POLICYCPHASH"
          PROVE  \E m \in i + 1 .. Len(policy) : NestedPolicies(policy[m]) # {}
      <3>1. PICK k \in DOMAIN l :
              /\ CpHashItem(l[k])
              /\ (\E j \in k + 1 .. Len(l) : Nests(l[j])) => \E m \in i + 1 .. Len(policy) : NestedPolicies(policy[m]) # {}
        BY <2>2, <2>3, <2>7 DEF ListsFollow
      <3>2. k \in 1 .. n
        BY <2>5, <2>6
      <3>3. \E j \in k + 1 .. Len(l) : Nests(l[j])
        BY <2>4, <2>7, <3>1, <3>2 DEF Cleared
      <3> QED
        BY <3>1, <3>3
    <2> QED
      BY <2>1, <2>7 DEF CpHashInClear
  <1> QED
    BY <1>1, <1>2, <1>3, DoneOnly

\* Whatever order callbacks, commands and failures come in, a policy with a PolicyCpHash
\* ends with parameter encryption off unless a later element executes a policy
\* (execute_policy_cp_hash, ifapi_authorize_object); the lists that are executed have
\* the elements of their policy, as compute_policy_list makes them.
THEOREM ClearAfterCpHash ==
  ASSUME ListsFollow
  PROVE  Spec => []CpHashInClear
  <1> DEFINE Inv == ClearInv /\ CpHashInClear
  <1>1. Init => Inv
    BY DEF Init, ClearInv, CpHashInClear, Executing
  <1>2. IInv /\ Inv /\ [Next]_vars => Inv'
    BY ClearNext, DoneInClear
  <1>3. Inv => CpHashInClear
    OBVIOUS
  <1> HIDE DEF Inv
  <1>4. Spec => []Inv
    BY <1>1, <1>2, InvHolds, PTL DEF Spec
  <1> QED
    BY <1>3, <1>4, PTL

=============================================================================
