-------------------------- MODULE SysContextProofs ---------------------------
(***************************************************************************)
(* Proofs about SysContext, for every set of commands and their layouts,   *)
(* every size of the buffer, of the parameters and of the session lists.   *)
(***************************************************************************)
EXTENDS SysContext, SequenceTheorems, TLAPS

-----------------------------------------------------------------------------
(* The inductive invariant.                                                *)

\* The buffer buf has the cells s from offset off on.
Holds(buf, off, s) == \A i \in 1..Len(s) : buf[off + i - 1] = s[i]

Requests == [cmd : Commands, kind : {"plain", "cipher"}, size : Nat \cup {Null}, auths : 0..MaxAuths]

Tag(n) == IF n = 0 THEN "NO_SESSIONS" ELSE "SESSIONS"
Handles(c) == Cells("handle", c, Layout[c].handles)

\* The buffer buf, with parameters of used cells at cp, holds the command w.
HasCommand(buf, cp, used, w) ==
    /\ w \in Requests
    /\ cp = 1 + Layout[w.cmd].handles + Len(AuthArea(w.cmd, w.auths))
    /\ used = Len(Params(w.cmd, w.kind, w.size))
    /\ cp + used <= MaxCmdSize
    /\ buf[0] = Header(Tag(w.auths), cp + used, w.cmd)
    /\ Holds(buf, 1, Handles(w.cmd))
    /\ Holds(buf, 1 + Layout[w.cmd].handles, AuthArea(w.cmd, w.auths))
    /\ Holds(buf, cp, Params(w.cmd, w.kind, w.size))

\* A command that can be sent, or has been, is in the buffer.
CommandInv == usable /\ previousStage \in {"PREPARE", "SEND_COMMAND"} =>
    commandCode = want.cmd /\ HasCommand(cmdBuffer, cpBuffer, cpBufferUsedSize, want)

\* The flags are those of the command, or cleared.
FlagsInv ==
    /\ flags.decrypt /\ usable => Layout[want.cmd].decrypt
    /\ flags.encrypt /\ usable => Layout[want.cmd].encrypt

\* authsCount is the number of sessions of the command.
CountInv == usable => want \in Requests /\ (want.auths # 0 => authsCount = want.auths)

\* While the transport owes a response the command can still be answered, and
\* its header is kept.
SentInv ==
    /\ previousStage = "SEND_COMMAND" /\ tcti = "RECEIVE" => usable
    /\ previousStage = "SEND_COMMAND" /\ usable => cmd_header = cmdBuffer[0]

\* The first cell of the parameters of a response with n sessions.
RspOffset(c, n) == 1 + Layout[c].rspHandles + (IF n = 0 THEN 0 ELSE 1)
RspHandles(c) == Cells("rsphandle", c, Layout[c].rspHandles)

\* The buffer buf holds the response to w, its first parameter of kind k.
HasResponse(buf, w, k) ==
    LET params == RspParams(w.cmd, k)
        off == RspOffset(w.cmd, w.auths)
    IN /\ w \in Requests
       /\ off + Len(params) + w.auths <= MaxCmdSize
       /\ buf[0].tag = Tag(w.auths)
       /\ Holds(buf, 1, RspHandles(w.cmd))
       /\ Holds(buf, off, params)
       /\ w.auths # 0 => /\ buf[off - 1].n = Len(params)
                         /\ Holds(buf, off + Len(params), Cells("rspauth", w.cmd, w.auths))

\* A response is in the buffer, or the calls that read it are refused.
ResponseInv ==
    previousStage = "RECEIVE_RESPONSE" =>
        \/ /\ usable /\ rsp_header = [tag |-> Tag(want.auths), rc |-> "SUCCESS"]
           /\ commandCode = want.cmd /\ \E k \in {"cipher", "clear"} : HasResponse(cmdBuffer, want, k)
        \/ ~usable /\ flags = NoFlags
        \/ ~usable /\ rsp_header.rc # "SUCCESS" /\ cmdBuffer[0].tag = "NO_SESSIONS"

Inv == CommandInv /\ FlagsInv /\ CountInv /\ SentInv /\ ResponseInv /\ TransmitsEncoding /\ ReadsResponse
IInv == TypeOK /\ Inv

-----------------------------------------------------------------------------
(* The buffer: what writing and moving cells does.                         *)

\* A part of the buffer that holds s is s.
LEMMA HoldsAt ==
  ASSUME NEW S, NEW s \in Seq(S), NEW buf, NEW off \in Nat, Holds(buf, off, s)
  PROVE  At(buf, off, Len(s)) = s
  <1>1. s = [i \in 1..Len(s) |-> s[i]]
    OBVIOUS
  <1>2. \A i \in 1..Len(s) : buf[off + i - 1] = s[i]
    BY DEF Holds
  <1> QED
    BY <1>1, <1>2, Zenon DEF At

\* Two sequences one behind the other.
LEMMA HoldsConcat ==
  ASSUME NEW S, NEW s \in Seq(S), NEW t \in Seq(S), NEW buf, NEW off \in Nat
  PROVE  Holds(buf, off, s \o t) <=> Holds(buf, off, s) /\ Holds(buf, off + Len(s), t)
  <1>0. Len(s) \in Nat /\ Len(t) \in Nat
    OBVIOUS
  <1> DEFINE st == s \o t
  <1>1. /\ Len(st) = Len(s) + Len(t)
        /\ \A i \in 1..Len(s) + Len(t) : st[i] = IF i <= Len(s) THEN s[i] ELSE t[i - Len(s)]
    BY ConcatProperties
  <1> HIDE DEF st
  <1>2. ASSUME Holds(buf, off, st) PROVE Holds(buf, off, s)
    BY <1>0, <1>1, <1>2 DEF Holds
  <1>3. ASSUME Holds(buf, off, st) PROVE Holds(buf, off + Len(s), t)
    <2> SUFFICES ASSUME NEW i \in 1..Len(t) PROVE buf[off + Len(s) + i - 1] = t[i]
      BY DEF Holds
    <2>1. Len(s) + i \in 1..Len(st) /\ ~(Len(s) + i <= Len(s)) /\ Len(s) + i - Len(s) = i
      BY <1>0, <1>1
    <2>2. buf[off + (Len(s) + i) - 1] = st[Len(s) + i]
      BY <1>3, <2>1 DEF Holds
    <2>3. off + (Len(s) + i) - 1 = off + Len(s) + i - 1
      BY <1>0
    <2>4. st[Len(s) + i] = t[i]
      BY <1>1, <2>1
    <2> QED
      BY <2>2, <2>3, <2>4
  <1>4. ASSUME Holds(buf, off, s), Holds(buf, off + Len(s), t) PROVE Holds(buf, off, st)
    <2> SUFFICES ASSUME NEW i \in 1..Len(s) + Len(t) PROVE buf[off + i - 1] = st[i]
      BY <1>1 DEF Holds
    <2>1. CASE i <= Len(s)
      BY <1>0, <1>1, <1>4, <2>1 DEF Holds
    <2>2. CASE ~(i <= Len(s))
      <3>1. i - Len(s) \in 1..Len(t) /\ off + Len(s) + (i - Len(s)) - 1 = off + i - 1
        BY <1>0, <2>2
      <3>2. buf[off + Len(s) + (i - Len(s)) - 1] = t[i - Len(s)]
        BY <1>4, <3>1 DEF Holds
      <3> QED
        BY <1>1, <2>2, <3>1, <3>2
    <2> QED
      BY <2>1, <2>2
  <1> QED
    BY <1>2, <1>3, <1>4 DEF st

\* What has been written is there.
LEMMA HoldsWrite ==
  ASSUME NEW S, NEW s \in Seq(S), NEW buf, NEW off \in Nat,
         DOMAIN buf = 0..MaxCmdSize - 1, off + Len(s) <= MaxCmdSize
  PROVE  Holds(Write(buf, off, s), off, s)
  <1> SUFFICES ASSUME NEW i \in 1..Len(s) PROVE Write(buf, off, s)[off + i - 1] = s[i]
    BY DEF Holds
  <1>0. Len(s) \in Nat
    OBVIOUS
  <1>1. off + i - 1 \in DOMAIN buf /\ (off + i - 1) - off + 1 = i
    BY <1>0, SysAssumption
  <1> QED
    BY <1>1 DEF Write

\* What lies before or behind what is written stays.
LEMMA HoldsFrame ==
  ASSUME NEW S, NEW s \in Seq(S), NEW t \in Seq(S), NEW buf, NEW off \in Nat, NEW o \in Nat,
         DOMAIN buf = 0..MaxCmdSize - 1, o + Len(t) <= MaxCmdSize,
         o + Len(t) <= off \/ off + Len(s) <= o, Holds(buf, o, t)
  PROVE  Holds(Write(buf, off, s), o, t)
  <1> SUFFICES ASSUME NEW i \in 1..Len(t) PROVE Write(buf, off, s)[o + i - 1] = t[i]
    BY DEF Holds
  <1>0. Len(s) \in Nat /\ Len(t) \in Nat
    OBVIOUS
  <1>1. o + i - 1 \in DOMAIN buf /\ (o + i - 1) - off + 1 \notin 1..Len(s)
    BY <1>0, SysAssumption
  <1>2. buf[o + i - 1] = t[i]
    BY DEF Holds
  <1> QED
    BY <1>1, <1>2 DEF Write

\* So does the header, unless it is written.
LEMMA HeaderFrame ==
  ASSUME NEW S, NEW s \in Seq(S), NEW buf, NEW off \in Nat \ {0}, DOMAIN buf = 0..MaxCmdSize - 1
  PROVE  Write(buf, off, s)[0] = buf[0]
  <1>0. Len(s) \in Nat
    OBVIOUS
  <1>1. 0 \in DOMAIN buf /\ 0 - off + 1 \notin 1..Len(s)
    BY <1>0, SysAssumption
  <1> QED
    BY <1>1 DEF Write

LEMMA ZeroInBuffer == 0 \in 0..MaxCmdSize - 1
  BY SysAssumption

LEMMA WriteDomain ==
  ASSUME NEW buf, NEW off, NEW s
  PROVE  DOMAIN Write(buf, off, s) = DOMAIN buf
  BY DEF Write

\* Setting a field of the header changes nothing behind it.
LEMMA HeaderFieldsFrame ==
  ASSUME NEW buf, NEW v
  PROVE  /\ DOMAIN SetTag(buf, v) = DOMAIN buf
         /\ DOMAIN SetSize(buf, v) = DOMAIN buf
         /\ DOMAIN SetCode(buf, v) = DOMAIN buf
  BY DEF SetTag, SetSize, SetCode

LEMMA HoldsBehindHeader ==
  ASSUME NEW S, NEW s \in Seq(S), NEW buf, DOMAIN buf = 0..MaxCmdSize - 1, NEW v, NEW off \in Nat \ {0},
         off + Len(s) <= MaxCmdSize, Holds(buf, off, s)
  PROVE  /\ Holds(SetTag(buf, v), off, s)
         /\ Holds(SetSize(buf, v), off, s)
  <1>0. Len(s) \in Nat
    OBVIOUS
  <1>1. \A i \in 1..Len(s) : off + i - 1 \in DOMAIN buf /\ off + i - 1 # 0 /\ buf[off + i - 1] = s[i]
    BY <1>0, SysAssumption DEF Holds
  <1>2. \A j \in DOMAIN buf : j # 0 => SetTag(buf, v)[j] = buf[j] /\ SetSize(buf, v)[j] = buf[j]
    BY DEF SetTag, SetSize
  <1> QED
    BY <1>1, <1>2 DEF Holds

-----------------------------------------------------------------------------
(* The layouts.                                                            *)

Kinds == {"handle", "authsize", "auth", "size", "plain", "cipher", "param", "rsphandle", "paramsize", "clear",
          "rsp", "rspauth"}
Items == [kind : Kinds, of : Commands, n : Nat]
         \cup [kind : {"header"}, tag : {"NO_SESSIONS", "SESSIONS"}, size : Nat, code : Commands \cup {"SUCCESS"}]

\* The pieces of a parameter.
Pieces(size) == IF size = Null THEN 0 ELSE size

LEMMA LayoutType ==
  ASSUME NEW c \in Commands
  PROVE  /\ Layout[c].handles \in Nat /\ Layout[c].rspHandles \in Nat /\ Layout[c].rest \in Nat
         /\ Layout[c].rspSize \in Nat /\ Layout[c].rspRest \in Nat
         /\ Layout[c].decrypt \in BOOLEAN /\ Layout[c].encrypt \in BOOLEAN /\ Layout[c].auth \in BOOLEAN
         /\ Layout[c].sizes \in SUBSET (Nat \cup {Null})
  BY SysAssumption

LEMMA CellsSeq ==
  ASSUME NEW k \in Kinds, NEW c \in Commands, NEW n \in Nat
  PROVE  Cells(k, c, n) \in Seq(Items) /\ Len(Cells(k, c, n)) = n
  <1> DEFINE f == Cells(k, c, n)
  <1>1. \A i \in 1..n : Cell(k, c, i) \in Items
    BY DEF Cell, Items
  <1>2. f \in [1..n -> Items]
    BY <1>1 DEF Cells
  <1> HIDE DEF f
  <1>3. f \in Seq(Items) /\ Len(f) = n
    BY <1>2
  <1> QED
    BY <1>3 DEF f

\* A cell and a header of a message.
LEMMA ItemType ==
  ASSUME NEW c \in Commands, NEW n \in Nat
  PROVE  /\ \A k \in Kinds : Cell(k, c, n) \in Items
         /\ \A tag \in {"NO_SESSIONS", "SESSIONS"} : Header(tag, n, c) \in Items /\ Header(tag, n, "SUCCESS") \in Items
         /\ {"handle", "authsize", "auth", "size", "plain", "cipher", "param", "rsphandle", "paramsize", "clear",
             "rsp", "rspauth"} \subseteq Kinds
  BY DEF Items, Cell, Header, Kinds

LEMMA OneSeq ==
  ASSUME NEW x \in Items
  PROVE  /\ <<x>> \in Seq(Items) /\ Len(<<x>>) = 1
         /\ \A buf, off : off \in Nat => (Holds(buf, off, <<x>>) <=> buf[off] = x)
  <1>1. <<x>> \in Seq(Items) /\ Len(<<x>>) = 1 /\ <<x>>[1] = x
    OBVIOUS
  <1>2. ASSUME NEW buf, NEW off \in Nat PROVE Holds(buf, off, <<x>>) <=> buf[off] = x
    <2>1. 1..Len(<<x>>) = {1} /\ off + 1 - 1 = off
      BY <1>1
    <2> QED
      BY <1>1, <2>1 DEF Holds
  <1> QED
    BY <1>1, <1>2

\* A list of parameters that starts with a TPM2B, as Params and RspParams have
\* them: the size field, the contents, the other parameters.
LEMMA ListHolds ==
  ASSUME NEW x \in Items, NEW s \in Seq(Items), NEW t \in Seq(Items), NEW buf, NEW off \in Nat
  PROVE  LET l == (<<x>> \o s) \o t IN
         /\ l \in Seq(Items) /\ Len(l) = 1 + Len(s) + Len(t)
         /\ Holds(buf, off, l) <=>
               buf[off] = x /\ Holds(buf, off + 1, s) /\ Holds(buf, off + 1 + Len(s), t)
  <1> DEFINE a == <<x>>
  <1>1. a \in Seq(Items) /\ Len(a) = 1 /\ (Holds(buf, off, a) <=> buf[off] = x)
    BY OneSeq
  <1> HIDE DEF a
  <1> DEFINE as == a \o s
  <1>2. as \in Seq(Items) /\ Len(as) = 1 + Len(s)
    <2>1. as \in Seq(Items) /\ Len(as) = Len(a) + Len(s)
      BY <1>1, ConcatProperties
    <2> QED
      BY <1>1, <2>1
  <1>3. Holds(buf, off, as) <=> Holds(buf, off, a) /\ Holds(buf, off + 1, s)
    BY <1>1, HoldsConcat
  <1> HIDE DEF as
  <1>4. as \o t \in Seq(Items) /\ Len(as \o t) = 1 + Len(s) + Len(t)
    BY <1>2, ConcatProperties
  <1>5. Holds(buf, off, as \o t) <=> Holds(buf, off, as) /\ Holds(buf, off + (1 + Len(s)), t)
    BY <1>2, HoldsConcat
  <1>6. off + (1 + Len(s)) = off + 1 + Len(s)
    OBVIOUS
  <1> QED
    BY <1>1, <1>3, <1>4, <1>5, <1>6 DEF as, a

\* The parameters of a command.
LEMMA ParamsHold ==
  ASSUME NEW c \in Commands, NEW k \in {"plain", "cipher"}, NEW size \in Nat \cup {Null}, NEW buf, NEW off \in Nat
  PROVE  /\ Params(c, k, size) \in Seq(Items)
         /\ Len(Params(c, k, size)) = (IF Layout[c].decrypt THEN 1 + Pieces(size) ELSE 0) + Layout[c].rest
         /\ Layout[c].decrypt =>
               (Holds(buf, off, Params(c, k, size)) <=>
                   /\ buf[off] = Cell("size", c, Pieces(size))
                   /\ Holds(buf, off + 1, Cells(k, c, Pieces(size)))
                   /\ Holds(buf, off + 1 + Pieces(size), Cells("param", c, Layout[c].rest)))
  <1>1. Pieces(size) \in Nat /\ Layout[c].rest \in Nat
    BY LayoutType DEF Pieces, Null
  <1> DEFINE x == Cell("size", c, Pieces(size))
             s == Cells(k, c, Pieces(size))
             t == Cells("param", c, Layout[c].rest)
  <1>2. x \in Items /\ s \in Seq(Items) /\ t \in Seq(Items) /\ Len(s) = Pieces(size) /\ Len(t) = Layout[c].rest
    <2>1. x \in Items
      BY <1>1, ItemType
    <2>2. s \in Seq(Items) /\ Len(s) = Pieces(size)
      BY <1>1, CellsSeq, ItemType
    <2>3. t \in Seq(Items) /\ Len(t) = Layout[c].rest
      BY <1>1, CellsSeq, ItemType
    <2> QED
      BY <2>1, <2>2, <2>3
  <1> HIDE DEF x, s, t
  <1>3. CASE Layout[c].decrypt
    <2>1. Params(c, k, size) = (<<x>> \o s) \o t
      BY <1>3 DEF Params, x, s, t, Pieces
    <2>2. /\ (<<x>> \o s) \o t \in Seq(Items) /\ Len((<<x>> \o s) \o t) = 1 + Len(s) + Len(t)
          /\ Holds(buf, off, (<<x>> \o s) \o t) <=>
                buf[off] = x /\ Holds(buf, off + 1, s) /\ Holds(buf, off + 1 + Len(s), t)
      BY <1>2, ListHolds
    <2> QED
      BY <1>2, <1>3, <2>1, <2>2 DEF x, s, t
  <1>4. CASE ~Layout[c].decrypt
    <2>1. Params(c, k, size) = <<>> \o t
      BY <1>4 DEF Params, t
    <2>2. <<>> \o t = t
      BY <1>2, ConcatEmptySeq
    <2> QED
      BY <1>1, <1>2, <1>4, <2>1, <2>2
  <1> QED
    BY <1>3, <1>4

LEMMA FirstParam ==
  ASSUME NEW c \in Commands, NEW k \in {"plain", "cipher"}, NEW size \in Nat \cup {Null}, NEW buf, NEW off \in Nat,
         Layout[c].decrypt
  PROVE  Holds(buf, off, Params(c, k, size)) <=>
             /\ buf[off] = Cell("size", c, Pieces(size))
             /\ Holds(buf, off + 1, Cells(k, c, Pieces(size)))
             /\ Holds(buf, off + 1 + Pieces(size), Cells("param", c, Layout[c].rest))
  BY ParamsHold

LEMMA FirstOfRequest ==
  ASSUME NEW w \in Requests, Layout[w.cmd].decrypt, NEW buf, NEW off \in Nat
  PROVE  Holds(buf, off, Params(w.cmd, w.kind, w.size)) <=>
             /\ buf[off] = Cell("size", w.cmd, Pieces(w.size))
             /\ Holds(buf, off + 1, Cells(w.kind, w.cmd, Pieces(w.size)))
             /\ Holds(buf, off + 1 + Pieces(w.size), Cells("param", w.cmd, Layout[w.cmd].rest))
  <1> DEFINE x == Cell("size", w.cmd, Pieces(w.size))
             s == Cells(w.kind, w.cmd, Pieces(w.size))
             t == Cells("param", w.cmd, Layout[w.cmd].rest)
  <1>0. w.cmd \in Commands /\ w.kind \in {"plain", "cipher"} /\ w.size \in Nat \cup {Null}
    BY DEF Requests
  <1>1. Pieces(w.size) \in Nat /\ Layout[w.cmd].rest \in Nat /\ w.kind \in Kinds /\ "param" \in Kinds
    BY <1>0, LayoutType DEF Pieces, Null, Kinds
  <1>2. x \in Items
    BY <1>0, <1>1, ItemType
  <1>3. s \in Seq(Items) /\ Len(s) = Pieces(w.size)
    BY <1>0, <1>1, CellsSeq
  <1>4. t \in Seq(Items)
    BY <1>0, <1>1, CellsSeq
  <1>5. Params(w.cmd, w.kind, w.size) = (<<x>> \o s) \o t
    BY DEF Params, Pieces
  <1> HIDE DEF x, s, t
  <1>6. Holds(buf, off, (<<x>> \o s) \o t) <=>
           buf[off] = x /\ Holds(buf, off + 1, s) /\ Holds(buf, off + 1 + Len(s), t)
    BY <1>2, <1>3, <1>4, ListHolds
  <1> QED
    BY <1>3, <1>5, <1>6 DEF x, s, t

\* The authorization area.
LEMMA AuthSeq ==
  ASSUME NEW c \in Commands, NEW n \in Nat
  PROVE  AuthArea(c, n) \in Seq(Items) /\ Len(AuthArea(c, n)) = IF n = 0 THEN 0 ELSE n + 1
  <1>1. CASE n = 0
    BY <1>1, EmptySeq DEF AuthArea
  <1>2. CASE n # 0
    <2> DEFINE x == Cell("authsize", c, n)
               s == Cells("auth", c, n)
    <2>1. x \in Items /\ s \in Seq(Items) /\ Len(s) = n
      <3>1. x \in Items
        BY ItemType
      <3>2. s \in Seq(Items) /\ Len(s) = n
        BY CellsSeq, ItemType
      <3> QED
        BY <3>1, <3>2
    <2> HIDE DEF x, s
    <2>2. <<x>> \in Seq(Items) /\ Len(<<x>>) = 1
      BY <2>1, OneSeq
    <2>3. <<x>> \o s \in Seq(Items) /\ Len(<<x>> \o s) = 1 + n
      BY <2>1, <2>2, ConcatProperties
    <2> QED
      BY <1>2, <2>3 DEF AuthArea, x, s
  <1> QED
    BY <1>1, <1>2

\* A header followed by three sequences, as Encoding, Prepare and Response
\* have them.
LEMMA MessageHolds ==
  ASSUME NEW x \in Items, NEW s \in Seq(Items), NEW t \in Seq(Items), NEW u \in Seq(Items), NEW buf
  PROVE  LET m == <<x>> \o ((s \o t) \o u) IN
         /\ (s \o t) \o u \in Seq(Items) /\ Len((s \o t) \o u) = Len(s) + Len(t) + Len(u)
         /\ m \in Seq(Items) /\ Len(m) = 1 + Len(s) + Len(t) + Len(u)
         /\ Holds(buf, 0, m) <=>
               /\ buf[0] = x /\ Holds(buf, 1, s) /\ Holds(buf, 1 + Len(s), t)
               /\ Holds(buf, 1 + Len(s) + Len(t), u)
  <1> DEFINE a == <<x>>
             st == s \o t
             stu == st \o u
  <1>1. a \in Seq(Items) /\ Len(a) = 1 /\ (Holds(buf, 0, a) <=> buf[0] = x)
    BY OneSeq
  <1> HIDE DEF a
  <1>2. st \in Seq(Items) /\ Len(st) = Len(s) + Len(t)
    BY ConcatProperties
  <1>3. Holds(buf, 1, st) <=> Holds(buf, 1, s) /\ Holds(buf, 1 + Len(s), t)
    BY HoldsConcat
  <1> HIDE DEF st
  <1>4. stu \in Seq(Items) /\ Len(stu) = Len(s) + Len(t) + Len(u)
    <2>1. stu \in Seq(Items) /\ Len(stu) = Len(st) + Len(u)
      BY <1>2, ConcatProperties
    <2> QED
      BY <1>2, <2>1
  <1>5. Holds(buf, 1, stu) <=> Holds(buf, 1, st) /\ Holds(buf, 1 + (Len(s) + Len(t)), u)
    BY <1>2, HoldsConcat
  <1> HIDE DEF stu
  <1>6. a \o stu \in Seq(Items) /\ Len(a \o stu) = 1 + (Len(s) + Len(t) + Len(u))
    <2>1. a \o stu \in Seq(Items) /\ Len(a \o stu) = Len(a) + Len(stu)
      BY <1>1, <1>4, ConcatProperties
    <2> QED
      BY <1>1, <1>4, <2>1
  <1>7. Holds(buf, 0, a \o stu) <=> Holds(buf, 0, a) /\ Holds(buf, 0 + 1, stu)
    BY <1>1, <1>4, HoldsConcat
  <1>8. /\ 1 + (Len(s) + Len(t)) = 1 + Len(s) + Len(t) /\ 0 + 1 = 1
        /\ 1 + (Len(s) + Len(t) + Len(u)) = 1 + Len(s) + Len(t) + Len(u)
    OBVIOUS
  <1>9. Holds(buf, 0, a \o stu) <=>
           /\ buf[0] = x /\ Holds(buf, 1, s) /\ Holds(buf, 1 + Len(s), t)
           /\ Holds(buf, 1 + Len(s) + Len(t), u)
    BY <1>1, <1>3, <1>5, <1>7, <1>8
  <1> QED
    BY <1>4, <1>6, <1>8, <1>9 DEF stu, st, a

-----------------------------------------------------------------------------
(* Commands in the buffer.                                                 *)

\* What HasCommand says of the lengths.
LEMMA CommandLengths ==
  ASSUME NEW w \in Requests
  PROVE  /\ w.cmd \in Commands /\ w.kind \in {"plain", "cipher"} /\ w.size \in Nat \cup {Null} /\ w.auths \in Nat
         /\ Handles(w.cmd) \in Seq(Items) /\ Len(Handles(w.cmd)) = Layout[w.cmd].handles
         /\ AuthArea(w.cmd, w.auths) \in Seq(Items)
         /\ Len(AuthArea(w.cmd, w.auths)) = IF w.auths = 0 THEN 0 ELSE w.auths + 1
         /\ Params(w.cmd, w.kind, w.size) \in Seq(Items)
         /\ Len(Params(w.cmd, w.kind, w.size)) =
               (IF Layout[w.cmd].decrypt THEN 1 + Pieces(w.size) ELSE 0) + Layout[w.cmd].rest
         /\ Pieces(w.size) \in Nat /\ Layout[w.cmd].handles \in Nat /\ Layout[w.cmd].rest \in Nat
  <1>1. /\ w.cmd \in Commands /\ w.kind \in {"plain", "cipher"} /\ w.size \in Nat \cup {Null} /\ w.auths \in Nat
    BY SysAssumption DEF Requests
  <1>2. Layout[w.cmd].handles \in Nat /\ Layout[w.cmd].rest \in Nat
    BY <1>1, LayoutType
  <1>3. Handles(w.cmd) \in Seq(Items) /\ Len(Handles(w.cmd)) = Layout[w.cmd].handles
    <2>1. "handle" \in Kinds
      BY DEF Kinds
    <2> QED
      BY <1>1, <1>2, <2>1, CellsSeq DEF Handles
  <1>4. Pieces(w.size) \in Nat
    BY <1>1 DEF Pieces, Null
  <1>5. 0 \in Nat
    OBVIOUS
  <1>6. /\ Params(w.cmd, w.kind, w.size) \in Seq(Items)
        /\ Len(Params(w.cmd, w.kind, w.size)) =
               (IF Layout[w.cmd].decrypt THEN 1 + Pieces(w.size) ELSE 0) + Layout[w.cmd].rest
    <2> DEFINE c == w.cmd
               k == w.kind
               z == w.size
    <2>1. c \in Commands /\ k \in {"plain", "cipher"} /\ z \in Nat \cup {Null}
      BY <1>1
    <2> HIDE DEF c, k, z
    <2>2. /\ Params(c, k, z) \in Seq(Items)
          /\ Len(Params(c, k, z)) = (IF Layout[c].decrypt THEN 1 + Pieces(z) ELSE 0) + Layout[c].rest
      BY <1>5, <2>1, ParamsHold
    <2> QED
      BY <2>2 DEF c, k, z
  <1> QED
    BY <1>1, <1>2, <1>3, <1>4, <1>6, AuthSeq

\* The request once sessions are added and once its parameter is encrypted.
LEMMA RequestChanged ==
  ASSUME NEW w \in Requests
  PROVE  /\ \A n \in 1..MaxAuths : LET v == [w EXCEPT !.auths = n] IN
               v \in Requests /\ v.cmd = w.cmd /\ v.kind = w.kind /\ v.size = w.size /\ v.auths = n
         /\ \A size \in Nat : LET v == [w EXCEPT !.kind = "cipher", !.size = size] IN
               /\ v \in Requests /\ v.cmd = w.cmd /\ v.kind = "cipher" /\ v.size = size /\ v.auths = w.auths
               /\ Pieces(size) = size
  <1>1. 1..MaxAuths \subseteq 0..MaxAuths
    BY SysAssumption
  <1>2. \A n \in 0..MaxAuths : LET v == [w EXCEPT !.auths = n] IN
           v \in Requests /\ v.cmd = w.cmd /\ v.kind = w.kind /\ v.size = w.size /\ v.auths = n
    BY DEF Requests
  <1>3. \A size \in Nat \cup {Null} : LET v == [w EXCEPT !.kind = "cipher", !.size = size] IN
           v \in Requests /\ v.cmd = w.cmd /\ v.kind = "cipher" /\ v.size = size /\ v.auths = w.auths
    BY DEF Requests
  <1>4. \A size \in Nat : Pieces(size) = size
    BY DEF Pieces, Null
  <1> QED
    BY <1>1, <1>2, <1>3, <1>4

\* A header followed by two sequences.
LEMMA BodyHolds ==
  ASSUME NEW x \in Items, NEW s \in Seq(Items), NEW t \in Seq(Items), NEW buf
  PROVE  LET m == <<x>> \o (s \o t) IN
         /\ s \o t \in Seq(Items) /\ Len(s \o t) = Len(s) + Len(t)
         /\ m \in Seq(Items) /\ Len(m) = 1 + Len(s) + Len(t) /\ m[1] = x
         /\ Holds(buf, 0, m) <=> buf[0] = x /\ Holds(buf, 1, s) /\ Holds(buf, 1 + Len(s), t)
  <1> DEFINE a == <<x>>
             st == s \o t
  <1>1. a \in Seq(Items) /\ Len(a) = 1 /\ (Holds(buf, 0, a) <=> buf[0] = x) /\ a[1] = x
    BY OneSeq
  <1> HIDE DEF a
  <1>2. st \in Seq(Items) /\ Len(st) = Len(s) + Len(t)
    BY ConcatProperties
  <1>3. Holds(buf, 1, st) <=> Holds(buf, 1, s) /\ Holds(buf, 1 + Len(s), t)
    BY HoldsConcat
  <1> HIDE DEF st
  <1>6. a \o st \in Seq(Items) /\ Len(a \o st) = 1 + (Len(s) + Len(t)) /\ (a \o st)[1] = x
    <2>1. a \o st \in Seq(Items) /\ Len(a \o st) = Len(a) + Len(st)
      BY <1>1, <1>2, ConcatProperties
    <2>2. Len(a) + Len(st) = 1 + (Len(s) + Len(t)) /\ 1 \in 1..Len(a) + Len(st) /\ 1 <= Len(a)
      BY <1>1, <1>2
    <2>3. \A i \in 1..Len(a) + Len(st) : (a \o st)[i] = IF i <= Len(a) THEN a[i] ELSE st[i - Len(a)]
      <3>1. a \in Seq(Items) /\ st \in Seq(Items)
        BY <1>1, <1>2
      <3> QED
        BY <3>1, ConcatProperties
    <2>4. (a \o st)[1] = x
      BY <1>1, <2>2, <2>3
    <2> QED
      BY <2>1, <2>2, <2>4
  <1>7. Holds(buf, 0, a \o st) <=> Holds(buf, 0, a) /\ Holds(buf, 0 + 1, st)
    BY <1>1, <1>2, HoldsConcat
  <1>8. 0 + 1 = 1 /\ 1 + (Len(s) + Len(t)) = 1 + Len(s) + Len(t)
    OBVIOUS
  <1>9. Holds(buf, 0, a \o st) <=> buf[0] = x /\ Holds(buf, 1, s) /\ Holds(buf, 1 + Len(s), t)
    BY <1>1, <1>3, <1>7, <1>8
  <1> QED
    BY <1>2, <1>6, <1>8, <1>9 DEF st, a

\* CommonPrepareEpilogue leaves a command without sessions.
LEMMA CommandPrepared ==
  ASSUME NEW buf, DOMAIN buf = 0..MaxCmdSize - 1, NEW c \in Commands, NEW size \in Nat \cup {Null}
  PROVE  LET body == Handles(c) \o Params(c, "plain", size)
             new == Write(buf, 0, <<Header("NO_SESSIONS", Len(body) + 1, c)>> \o body)
             cp == 1 + Layout[c].handles
             w == [cmd |-> c, kind |-> "plain", size |-> size, auths |-> 0]
         IN  Len(body) + 1 <= MaxCmdSize =>
                /\ HasCommand(new, cp, Len(body) + 1 - cp, w)
                /\ DOMAIN new = DOMAIN buf /\ Len(body) \in Nat
  <1> DEFINE s == Handles(c)
             t == Params(c, "plain", size)
             body == s \o t
             x == Header("NO_SESSIONS", Len(body) + 1, c)
             m == <<x>> \o body
             new == Write(buf, 0, m)
             w == [cmd |-> c, kind |-> "plain", size |-> size, auths |-> 0]
  <1> SUFFICES ASSUME Len(body) + 1 <= MaxCmdSize
               PROVE  /\ HasCommand(new, 1 + Layout[c].handles, Len(body) + 1 - (1 + Layout[c].handles), w)
                      /\ DOMAIN new = DOMAIN buf /\ Len(body) \in Nat
    OBVIOUS
  <1>1. /\ w \in Requests /\ w.cmd = c /\ w.kind = "plain" /\ w.size = size /\ w.auths = 0
    BY SysAssumption DEF Requests
  <1>2. /\ s \in Seq(Items) /\ Len(s) = Layout[c].handles /\ t \in Seq(Items) /\ Layout[c].handles \in Nat
        /\ Len(AuthArea(c, 0)) = 0 /\ Len(t) \in Nat
    BY <1>1, CommandLengths
  <1> HIDE DEF s, t, w
  <1>3. body \in Seq(Items) /\ Len(body) = Len(s) + Len(t) /\ Len(body) \in Nat
    BY <1>2, ConcatProperties
  <1>4. x \in Items
    BY <1>3, ItemType
  <1> HIDE DEF x
  <1>5. /\ m \in Seq(Items) /\ Len(m) = 1 + Len(s) + Len(t)
        /\ Holds(new, 0, m) <=> new[0] = x /\ Holds(new, 1, s) /\ Holds(new, 1 + Len(s), t)
    BY <1>2, <1>4, BodyHolds
  <1>6. Holds(new, 0, m) /\ DOMAIN new = DOMAIN buf
    <2>1. 0 \in Nat /\ 0 + Len(m) <= MaxCmdSize
      BY <1>2, <1>3, <1>5
    <2> HIDE DEF m
    <2> QED
      BY <1>5, <2>1, HoldsWrite, WriteDomain
  <1> HIDE DEF new, body
  <1>7. new[0] = x /\ Holds(new, 1, s) /\ Holds(new, 1 + Layout[c].handles, t)
    BY <1>2, <1>5, <1>6
  <1>8. Holds(new, 1 + Layout[c].handles, AuthArea(c, 0))
    BY <1>2 DEF Holds
  <1>9. /\ 1 + Layout[c].handles = 1 + Layout[c].handles + Len(AuthArea(c, 0))
        /\ Len(body) + 1 - (1 + Layout[c].handles) = Len(t)
        /\ 1 + Layout[c].handles + Len(t) = Len(body) + 1
    BY SMTT(30), <1>2, <1>3
  <1>10. HasCommand(new, 1 + Layout[c].handles, Len(t), w)
    BY <1>1, <1>7, <1>8, <1>9 DEF HasCommand, s, t, x, Tag
  <1> QED
    BY <1>3, <1>6, <1>9, <1>10

\* Tss2_Sys_ExecuteAsync sends the bytes of the request.
LEMMA CommandEncoded ==
  ASSUME NEW buf, NEW cp, NEW used, NEW w, HasCommand(buf, cp, used, w)
  PROVE  At(buf, 0, buf[0].size) = Encoding(w)
  <1> DEFINE s == Handles(w.cmd)
             t == AuthArea(w.cmd, w.auths)
             u == Params(w.cmd, w.kind, w.size)
             x == Header(Tag(w.auths), Len((s \o t) \o u) + 1, w.cmd)
             m == <<x>> \o ((s \o t) \o u)
  <1>0. w \in Requests
    BY DEF HasCommand
  <1>1. /\ s \in Seq(Items) /\ t \in Seq(Items) /\ u \in Seq(Items) /\ Len(s) = Layout[w.cmd].handles
        /\ w.cmd \in Commands
    BY <1>0, CommandLengths
  <1>2. m = Encoding(w)
    BY DEF Encoding, Handles, Tag
  <1>3. /\ buf[0] = Header(Tag(w.auths), 1 + Len(s) + Len(t) + Len(u), w.cmd)
        /\ Holds(buf, 1, s) /\ Holds(buf, 1 + Len(s), t) /\ Holds(buf, 1 + Len(s) + Len(t), u)
    BY <1>1 DEF HasCommand
  <1> HIDE DEF s, t, u
  <1>4. Len((s \o t) \o u) = Len(s) + Len(t) + Len(u) /\ Len(s) \in Nat /\ Len(t) \in Nat /\ Len(u) \in Nat
    <2>1. s \o t \in Seq(Items) /\ Len(s \o t) = Len(s) + Len(t)
      BY <1>1, ConcatProperties
    <2>2. Len((s \o t) \o u) = Len(s \o t) + Len(u)
      BY <1>1, <2>1, ConcatProperties
    <2> QED
      BY <1>1, <2>1, <2>2
  <1>5. x \in Items /\ buf[0] = x /\ buf[0].size = 1 + Len(s) + Len(t) + Len(u)
    <2>1. Len((s \o t) \o u) + 1 = 1 + Len(s) + Len(t) + Len(u) /\ 1 + Len(s) + Len(t) + Len(u) \in Nat
      BY <1>4
    <2>2. Tag(w.auths) \in {"NO_SESSIONS", "SESSIONS"}
      BY DEF Tag
    <2>3. x \in Items
      BY <1>1, <2>1, <2>2, ItemType
    <2> QED
      BY <1>3, <2>1, <2>3 DEF Header
  <1> HIDE DEF x
  <1>6. /\ m \in Seq(Items) /\ Len(m) = 1 + Len(s) + Len(t) + Len(u)
        /\ Holds(buf, 0, m)
    <2>0. x \in Items /\ s \in Seq(Items) /\ t \in Seq(Items) /\ u \in Seq(Items)
      BY <1>1, <1>5
    <2>1. /\ m \in Seq(Items) /\ Len(m) = 1 + Len(s) + Len(t) + Len(u)
          /\ Holds(buf, 0, m) <=>
                /\ buf[0] = x /\ Holds(buf, 1, s) /\ Holds(buf, 1 + Len(s), t)
                /\ Holds(buf, 1 + Len(s) + Len(t), u)
      BY <2>0, MessageHolds
    <2> QED
      BY <1>3, <1>5, <2>1
  <1> HIDE DEF m
  <1>7. At(buf, 0, Len(m)) = m
    <2>1. 0 \in Nat
      OBVIOUS
    <2> QED
      BY <1>6, <2>1, HoldsAt
  <1> QED
    BY <1>2, <1>5, <1>6, <1>7

\* The parameter area.
LEMMA ParameterArea ==
  ASSUME NEW buf, NEW cp, NEW used, NEW w, HasCommand(buf, cp, used, w)
  PROVE  At(buf, cp, used) = Params(w.cmd, w.kind, w.size) /\ cp \in Nat \ {0} /\ used \in Nat
  <1>0. w \in Requests
    BY DEF HasCommand
  <1>1. cp \in Nat \ {0} /\ Params(w.cmd, w.kind, w.size) \in Seq(Items) /\ used \in Nat
    BY SMTT(30), <1>0, CommandLengths DEF HasCommand
  <1> QED
    BY <1>1, HoldsAt DEF HasCommand

\* Tss2_Sys_SetCmdAuths: the parameters move, the authorization area is put
\* before them.
LEMMA AuthsAdded ==
  ASSUME DOMAIN cmdBuffer = 0..MaxCmdSize - 1, HasCommand(cmdBuffer, cpBuffer, cpBufferUsedSize, want),
         want.auths = 0, NEW n \in 1..MaxAuths, cmdBuffer[0].size + 1 + n <= MaxCmdSize
  PROVE  LET moved == Write(cmdBuffer, cpBuffer + n + 1, At(cmdBuffer, cpBuffer, cpBufferUsedSize))
             filled == Write(moved, cpBuffer, AuthArea(want.cmd, n))
             new == SetSize(SetTag(filled, "SESSIONS"), cmdBuffer[0].size + 1 + n)
         IN  HasCommand(new, cpBuffer + n + 1, cpBufferUsedSize, [want EXCEPT !.auths = n]) /\ DOMAIN new = DOMAIN cmdBuffer
  <1> DEFINE h == Handles(want.cmd)
             p == Params(want.cmd, want.kind, want.size)
             a == AuthArea(want.cmd, n)
             v == [want EXCEPT !.auths = n]
             moved == Write(cmdBuffer, cpBuffer + n + 1, At(cmdBuffer, cpBuffer, cpBufferUsedSize))
             filled == Write(moved, cpBuffer, a)
             tagged == SetTag(filled, "SESSIONS")
             new == SetSize(tagged, cmdBuffer[0].size + 1 + n)
  <1>0. want \in Requests /\ n \in Nat \ {0}
    BY SysAssumption DEF HasCommand
  <1>1. /\ want.cmd \in Commands /\ h \in Seq(Items) /\ Len(h) = Layout[want.cmd].handles /\ Layout[want.cmd].handles \in Nat
        /\ p \in Seq(Items) /\ Len(p) \in Nat /\ Len(AuthArea(want.cmd, want.auths)) = 0
    BY <1>0, CommandLengths
  <1>2. a \in Seq(Items) /\ Len(a) = n + 1
    BY <1>0, <1>1, AuthSeq
  <1>3. /\ cpBuffer = 1 + Len(h) /\ cpBufferUsedSize = Len(p) /\ cmdBuffer[0] = Header(Tag(0), cpBuffer + cpBufferUsedSize, want.cmd)
        /\ Holds(cmdBuffer, 1, h) /\ Holds(cmdBuffer, cpBuffer, p)
    BY <1>1 DEF HasCommand
  <1>4. /\ v \in Requests /\ v.cmd = want.cmd /\ v.kind = want.kind /\ v.size = want.size /\ v.auths = n
    BY <1>0, RequestChanged
  <1>5. cmdBuffer[0].size = cpBuffer + cpBufferUsedSize
    BY <1>3 DEF Header
  <1>6. moved = Write(cmdBuffer, cpBuffer + n + 1, p)
    BY ParameterArea
  <1> HIDE DEF h, p, a, v, moved
  <1>n. /\ cpBuffer \in Nat \ {0} /\ cpBuffer + n + 1 \in Nat \ {0} /\ cpBufferUsedSize \in Nat /\ 1 \in Nat \ {0}
        /\ cpBuffer + n + 1 + Len(p) <= MaxCmdSize /\ cpBuffer + Len(a) <= MaxCmdSize /\ 1 + Len(h) <= MaxCmdSize
        /\ 1 + Len(h) <= cpBuffer + n + 1 /\ 1 + Len(h) <= cpBuffer /\ cpBuffer + Len(a) <= cpBuffer + n + 1
        /\ cpBuffer + cpBufferUsedSize + 1 + n = cpBuffer + n + 1 + cpBufferUsedSize
    <2> DEFINE lh == Len(h)
               lp == Len(p)
               la == Len(a)
    <2>1. /\ cpBuffer = 1 + lh /\ cpBufferUsedSize = lp /\ la = n + 1 /\ lh \in Nat /\ lp \in Nat /\ n \in Nat
          /\ cpBuffer + cpBufferUsedSize + 1 + n <= MaxCmdSize /\ MaxCmdSize \in Nat
      BY <1>0, <1>1, <1>2, <1>3, <1>5, SysAssumption
    <2> HIDE DEF lh, lp, la
    <2>2. /\ cpBuffer \in Nat \ {0} /\ cpBuffer + n + 1 \in Nat \ {0} /\ cpBufferUsedSize \in Nat /\ 1 \in Nat \ {0}
          /\ cpBuffer + n + 1 + lp <= MaxCmdSize /\ cpBuffer + la <= MaxCmdSize /\ 1 + lh <= MaxCmdSize
          /\ 1 + lh <= cpBuffer + n + 1 /\ 1 + lh <= cpBuffer /\ cpBuffer + la <= cpBuffer + n + 1
          /\ cpBuffer + cpBufferUsedSize + 1 + n = cpBuffer + n + 1 + cpBufferUsedSize
      BY <2>1
    <2> QED
      BY <2>2 DEF lh, lp, la
  <1>7. /\ DOMAIN moved = 0..MaxCmdSize - 1 /\ moved[0] = cmdBuffer[0]
        /\ Holds(moved, cpBuffer + n + 1, p) /\ Holds(moved, 1, h)
    <2>1. DOMAIN moved = 0..MaxCmdSize - 1
      BY <1>6, WriteDomain
    <2>2. moved[0] = cmdBuffer[0]
      BY <1>1, <1>6, <1>n, HeaderFrame
    <2>3. Holds(moved, cpBuffer + n + 1, p)
      BY <1>1, <1>6, <1>n, HoldsWrite
    <2>4. Holds(moved, 1, h)
      BY <1>1, <1>3, <1>6, <1>n, HoldsFrame
    <2> QED
      BY <2>1, <2>2, <2>3, <2>4
  <1> HIDE DEF filled
  <1>8. /\ DOMAIN filled = 0..MaxCmdSize - 1 /\ filled[0] = cmdBuffer[0]
        /\ Holds(filled, cpBuffer + n + 1, p) /\ Holds(filled, 1, h) /\ Holds(filled, cpBuffer, a)
    <2>1. DOMAIN filled = 0..MaxCmdSize - 1
      BY <1>7, WriteDomain DEF filled
    <2>2. filled[0] = cmdBuffer[0]
      <3>1. cpBuffer \in Nat \ {0} /\ a \in Seq(Items) /\ DOMAIN moved = 0..MaxCmdSize - 1
        BY <1>2, <1>7, <1>n
      <3>2. Write(moved, cpBuffer, a)[0] = moved[0]
        BY ZenonT(60), <3>1, HeaderFrame
      <3> QED
        BY <1>7, <3>2 DEF filled
    <2>3. Holds(filled, cpBuffer, a)
      BY <1>2, <1>7, <1>n, HoldsWrite DEF filled
    <2>4. Holds(filled, 1, h)
      BY <1>1, <1>2, <1>7, <1>n, HoldsFrame DEF filled
    <2>5. Holds(filled, cpBuffer + n + 1, p)
      BY <1>1, <1>2, <1>7, <1>n, HoldsFrame DEF filled
    <2> QED
      BY <2>1, <2>2, <2>3, <2>4, <2>5
  <1> HIDE DEF tagged
  <1>9. /\ DOMAIN tagged = 0..MaxCmdSize - 1 /\ tagged[0] = Header("SESSIONS", cpBuffer + cpBufferUsedSize, want.cmd)
        /\ Holds(tagged, cpBuffer + n + 1, p) /\ Holds(tagged, 1, h) /\ Holds(tagged, cpBuffer, a)
    <2>1. DOMAIN tagged = 0..MaxCmdSize - 1 /\ tagged[0] = Header("SESSIONS", cpBuffer + cpBufferUsedSize, want.cmd)
      <3> DEFINE sz == cpBuffer + cpBufferUsedSize
      <3>1. DOMAIN filled = 0..MaxCmdSize - 1 /\ filled[0] = Header(Tag(0), sz, want.cmd)
        BY <1>3, <1>8
      <3> HIDE DEF sz
      <3>2. DOMAIN tagged = 0..MaxCmdSize - 1 /\ tagged[0] = Header("SESSIONS", sz, want.cmd)
        BY <3>1, ZeroInBuffer DEF tagged, SetTag, Header
      <3> QED
        BY <3>2 DEF sz
    <2>2. Holds(tagged, cpBuffer + n + 1, p)
      BY <1>1, <1>8, <1>n, HoldsBehindHeader DEF tagged
    <2>3. Holds(tagged, 1, h)
      BY <1>1, <1>8, <1>n, HoldsBehindHeader DEF tagged
    <2>4. Holds(tagged, cpBuffer, a)
      BY <1>2, <1>8, <1>n, HoldsBehindHeader DEF tagged
    <2> QED
      BY <2>1, <2>2, <2>3, <2>4
  <1> HIDE DEF new
  <1>10. /\ DOMAIN new = 0..MaxCmdSize - 1 /\ new[0] = Header("SESSIONS", cpBuffer + cpBufferUsedSize + 1 + n, want.cmd)
         /\ Holds(new, cpBuffer + n + 1, p) /\ Holds(new, 1, h) /\ Holds(new, cpBuffer, a)
    <2>1. DOMAIN new = 0..MaxCmdSize - 1 /\ new[0] = Header("SESSIONS", cpBuffer + cpBufferUsedSize + 1 + n, want.cmd)
      <3> DEFINE sz == cpBuffer + cpBufferUsedSize
                 nsz == cpBuffer + cpBufferUsedSize + 1 + n
      <3>1. DOMAIN tagged = 0..MaxCmdSize - 1 /\ tagged[0] = Header("SESSIONS", sz, want.cmd) /\ new = SetSize(tagged, nsz)
        BY <1>5, <1>9 DEF new
      <3> HIDE DEF sz, nsz
      <3>2. DOMAIN new = 0..MaxCmdSize - 1 /\ new[0] = Header("SESSIONS", nsz, want.cmd)
        BY <3>1, ZeroInBuffer DEF SetSize, Header
      <3> QED
        BY <3>2 DEF nsz
    <2>2. Holds(new, cpBuffer + n + 1, p)
      BY <1>1, <1>9, <1>n, HoldsBehindHeader DEF new
    <2>3. Holds(new, 1, h)
      BY <1>1, <1>9, <1>n, HoldsBehindHeader DEF new
    <2>4. Holds(new, cpBuffer, a)
      BY <1>2, <1>9, <1>n, HoldsBehindHeader DEF new
    <2> QED
      BY <2>1, <2>2, <2>3, <2>4
  <1>11. HasCommand(new, cpBuffer + n + 1, cpBufferUsedSize, v)
    <2>1. /\ cpBuffer + n + 1 = 1 + Layout[v.cmd].handles + Len(AuthArea(v.cmd, v.auths))
          /\ cpBuffer = 1 + Layout[v.cmd].handles /\ Tag(v.auths) = "SESSIONS"
      <3>1. Len(AuthArea(v.cmd, v.auths)) = n + 1 /\ Layout[v.cmd].handles = Len(h) /\ Tag(v.auths) = "SESSIONS"
        BY <1>0, <1>1, <1>2, <1>4 DEF a, Tag
      <3> DEFINE lh == Len(h)
      <3>2. cpBuffer = 1 + lh /\ lh \in Nat /\ n \in Nat
        BY <1>0, <1>1, <1>3
      <3> HIDE DEF lh
      <3>3. cpBuffer + n + 1 = 1 + lh + (n + 1)
        BY <3>2
      <3> QED
        BY <1>3, <3>1, <3>3 DEF lh
    <2>2. cpBuffer + n + 1 + cpBufferUsedSize <= MaxCmdSize
      BY <1>3, <1>n
    <2>3. new[0] = Header("SESSIONS", cpBuffer + n + 1 + cpBufferUsedSize, want.cmd)
      BY <1>10, <1>n
    <2> QED
      BY <1>3, <1>4, <1>10, <2>1, <2>2, <2>3 DEF HasCommand, h, p, a
  <1> QED
    BY <1>10, <1>11 DEF new, tagged, filled, moved, a, v

\* Tss2_Sys_SetDecryptParam puts an encrypted parameter in the place of one of
\* the same size.
LEMMA ParamReplaced ==
  ASSUME DOMAIN cmdBuffer = 0..MaxCmdSize - 1, HasCommand(cmdBuffer, cpBuffer, cpBufferUsedSize, want),
         Layout[want.cmd].decrypt, NEW size \in Nat \ {0}, cmdBuffer[cpBuffer].n = size
  PROVE  LET new == Write(cmdBuffer, cpBuffer + 1, Cells("cipher", want.cmd, size))
         IN  HasCommand(new, cpBuffer, cpBufferUsedSize, [want EXCEPT !.kind = "cipher", !.size = size]) /\ DOMAIN new = DOMAIN cmdBuffer
  <1> DEFINE h == Handles(want.cmd)
             a == AuthArea(want.cmd, want.auths)
             b == Cells("cipher", want.cmd, size)
             r == Cells("param", want.cmd, Layout[want.cmd].rest)
             x == Cell("size", want.cmd, size)
             v == [want EXCEPT !.kind = "cipher", !.size = size]
             new == Write(cmdBuffer, cpBuffer + 1, b)
  <1>0. want \in Requests
    BY DEF HasCommand
  <1>1. /\ want.cmd \in Commands /\ h \in Seq(Items) /\ Len(h) = Layout[want.cmd].handles /\ Layout[want.cmd].handles \in Nat
        /\ a \in Seq(Items) /\ Len(a) \in Nat /\ Layout[want.cmd].rest \in Nat
        /\ want.kind \in {"plain", "cipher"} /\ want.size \in Nat \cup {Null} /\ Pieces(want.size) \in Nat
        /\ Len(Params(want.cmd, want.kind, want.size)) = 1 + Pieces(want.size) + Layout[want.cmd].rest
    BY <1>0, CommandLengths
  <1>2. /\ cpBuffer = 1 + Len(h) + Len(a) /\ cpBufferUsedSize = 1 + Pieces(want.size) + Layout[want.cmd].rest
        /\ cpBuffer + cpBufferUsedSize <= MaxCmdSize /\ cpBuffer \in Nat
        /\ cmdBuffer[0] = Header(Tag(want.auths), cpBuffer + cpBufferUsedSize, want.cmd)
        /\ Holds(cmdBuffer, 1, h) /\ Holds(cmdBuffer, 1 + Len(h), a) /\ Holds(cmdBuffer, cpBuffer, Params(want.cmd, want.kind, want.size))
    BY SMTT(30), <1>1 DEF HasCommand
  <1>3. /\ cmdBuffer[cpBuffer] = Cell("size", want.cmd, Pieces(want.size))
        /\ Holds(cmdBuffer, cpBuffer + 1 + Pieces(want.size), r)
    <2>1. /\ cpBuffer \in Nat /\ want.cmd \in Commands /\ want.kind \in {"plain", "cipher"} /\ want.size \in Nat \cup {Null}
      BY <1>1, <1>2
    <2>2. Holds(cmdBuffer, cpBuffer, Params(want.cmd, want.kind, want.size)) <=>
             /\ cmdBuffer[cpBuffer] = Cell("size", want.cmd, Pieces(want.size))
             /\ Holds(cmdBuffer, cpBuffer + 1, Cells(want.kind, want.cmd, Pieces(want.size)))
             /\ Holds(cmdBuffer, cpBuffer + 1 + Pieces(want.size), Cells("param", want.cmd, Layout[want.cmd].rest))
      BY <1>0, <2>1, FirstOfRequest
    <2> QED
      BY <1>2, <2>2
  <1>4. Pieces(want.size) = size /\ cmdBuffer[cpBuffer] = x
    BY <1>3 DEF Cell
  <1>5. /\ b \in Seq(Items) /\ Len(b) = size /\ r \in Seq(Items) /\ Len(r) = Layout[want.cmd].rest
    <2>1. "cipher" \in Kinds /\ "param" \in Kinds /\ size \in Nat
      BY DEF Kinds
    <2> QED
      BY ZenonT(60), <1>1, <2>1, CellsSeq
  <1>6. x \in Items
    BY <1>1, ItemType
  <1>7. /\ v \in Requests /\ v.cmd = want.cmd /\ v.kind = "cipher" /\ v.size = size /\ v.auths = want.auths
        /\ Pieces(size) = size
    BY ZenonT(60), <1>0, RequestChanged
  <1> HIDE DEF h, a, b, r, x, v, new
  <1>n. /\ cpBuffer \in Nat \ {0} /\ cpBuffer + 1 \in Nat \ {0} /\ 1 \in Nat /\ 1 + Len(h) \in Nat /\ cpBuffer + 1 + size \in Nat
        /\ 1 + Len(h) <= cpBuffer + 1 /\ 1 + Len(h) + Len(a) <= cpBuffer + 1 /\ cpBuffer + 1 <= cpBuffer + 1
        /\ 1 + Len(h) <= MaxCmdSize /\ 1 + Len(h) + Len(a) <= MaxCmdSize /\ cpBuffer + 1 <= MaxCmdSize
        /\ cpBuffer + 1 + size + Len(r) <= MaxCmdSize /\ cpBuffer + 1 + Len(b) <= cpBuffer + 1 + size
        /\ cpBuffer + 1 + Len(b) <= MaxCmdSize
    <2> DEFINE lh == Len(h)
               la == Len(a)
               lr == Len(r)
               lb == Len(b)
    <2>1. /\ cpBuffer = 1 + lh + la /\ cpBufferUsedSize = 1 + size + lr /\ cpBuffer + cpBufferUsedSize <= MaxCmdSize /\ lh \in Nat /\ la \in Nat
          /\ lr \in Nat /\ lb = size /\ size \in Nat /\ MaxCmdSize \in Nat
      BY <1>1, <1>2, <1>4, <1>5, SysAssumption
    <2> HIDE DEF lh, la, lr, lb
    <2>2. /\ cpBuffer \in Nat \ {0} /\ cpBuffer + 1 \in Nat \ {0} /\ 1 \in Nat /\ 1 + lh \in Nat /\ cpBuffer + 1 + size \in Nat
          /\ 1 + lh <= cpBuffer + 1 /\ 1 + lh + la <= cpBuffer + 1 /\ cpBuffer + 1 <= cpBuffer + 1
      BY <2>1
    <2>3. /\ 1 + lh <= MaxCmdSize /\ 1 + lh + la <= MaxCmdSize /\ cpBuffer + 1 <= MaxCmdSize
          /\ cpBuffer + 1 + size + lr <= MaxCmdSize /\ cpBuffer + 1 + lb <= cpBuffer + 1 + size
          /\ cpBuffer + 1 + lb <= MaxCmdSize
      BY <2>1
    <2> QED
      BY <2>2, <2>3 DEF lh, la, lr, lb
  <1>8. DOMAIN new = DOMAIN cmdBuffer /\ new[0] = cmdBuffer[0]
    BY <1>5, <1>n, WriteDomain, HeaderFrame DEF new
  <1>9. Holds(new, 1, h)
    BY <1>1, <1>2, <1>5, <1>n, HoldsFrame DEF new
  <1>10. Holds(new, 1 + Len(h), a)
    BY <1>1, <1>2, <1>5, <1>n, HoldsFrame DEF new
  <1>11. new[cpBuffer] = x
    <2>1. <<x>> \in Seq(Items) /\ Len(<<x>>) = 1 /\ Holds(cmdBuffer, cpBuffer, <<x>>)
      BY <1>4, <1>6, <1>n, OneSeq
    <2>2. Holds(new, cpBuffer, <<x>>)
      <3> DEFINE t == <<x>>
      <3>1. t \in Seq(Items) /\ cpBuffer + Len(t) <= MaxCmdSize /\ cpBuffer + Len(t) <= cpBuffer + 1 /\ Holds(cmdBuffer, cpBuffer, t) /\ cpBuffer \in Nat
            /\ cpBuffer + 1 \in Nat
        BY <1>n, <2>1
      <3> HIDE DEF t
      <3>2. Holds(new, cpBuffer, t)
        BY <1>5, <3>1, HoldsFrame DEF new
      <3> QED
        BY <3>2 DEF t
    <2> QED
      BY <1>6, <1>n, <2>2, OneSeq
  <1>12. Holds(new, cpBuffer + 1, b)
    BY <1>5, <1>n, HoldsWrite DEF new
  <1>13. Holds(new, cpBuffer + 1 + size, r)
    BY <1>3, <1>4, <1>5, <1>n, HoldsFrame DEF new
  <1>14. Holds(new, cpBuffer, Params(want.cmd, "cipher", size)) /\ Len(Params(want.cmd, "cipher", size)) = cpBufferUsedSize
    <2>1. /\ size \in Nat \cup {Null} /\ cpBuffer \in Nat /\ want.cmd \in Commands /\ "cipher" \in {"plain", "cipher"}
      BY <1>1, <1>n
    <2>3. Len(Params(want.cmd, "cipher", size)) = 1 + Pieces(size) + Layout[want.cmd].rest
      BY <2>1, ParamsHold
    <2>2. Holds(new, cpBuffer, Params(want.cmd, "cipher", size)) <=>
                /\ new[cpBuffer] = Cell("size", want.cmd, Pieces(size))
                /\ Holds(new, cpBuffer + 1, Cells("cipher", want.cmd, Pieces(size)))
                /\ Holds(new, cpBuffer + 1 + Pieces(size), Cells("param", want.cmd, Layout[want.cmd].rest))
      BY <2>1, FirstParam
    <2> QED
      BY <1>2, <1>4, <1>7, <1>11, <1>12, <1>13, <2>2, <2>3 DEF x, b, r
  <1>15. HasCommand(new, cpBuffer, cpBufferUsedSize, v)
    BY <1>1, <1>2, <1>7, <1>8, <1>9, <1>10, <1>14 DEF HasCommand, h, a
  <1> QED
    BY <1>8, <1>15 DEF new, b, v

\* It makes room for a parameter that is as long as the parameter area.
LEMMA ParamInserted ==
  ASSUME DOMAIN cmdBuffer = 0..MaxCmdSize - 1, HasCommand(cmdBuffer, cpBuffer, cpBufferUsedSize, want),
         Layout[want.cmd].decrypt, cmdBuffer[cpBuffer].n = 0, NEW size \in Nat \ {0}, size = cpBufferUsedSize, cmdBuffer[0].size + size <= MaxCmdSize
  PROVE  LET moved == Write(cmdBuffer, cpBuffer + cpBufferUsedSize + 1, At(cmdBuffer, cpBuffer + 1, cpBufferUsedSize - 1))
             filled == Write(moved, cpBuffer, <<Cell("size", want.cmd, size)>> \o Cells("cipher", want.cmd, size))
             new == SetSize(filled, cmdBuffer[0].size + size)
         IN  /\ HasCommand(new, cpBuffer, cpBufferUsedSize + size, [want EXCEPT !.kind = "cipher", !.size = size])
             /\ DOMAIN new = DOMAIN cmdBuffer
  <1> DEFINE h == Handles(want.cmd)
             a == AuthArea(want.cmd, want.auths)
             b == Cells("cipher", want.cmd, size)
             r == Cells("param", want.cmd, Layout[want.cmd].rest)
             x == Cell("size", want.cmd, size)
             xb == <<x>> \o b
             v == [want EXCEPT !.kind = "cipher", !.size = size]
             moved == Write(cmdBuffer, cpBuffer + cpBufferUsedSize + 1, At(cmdBuffer, cpBuffer + 1, cpBufferUsedSize - 1))
             filled == Write(moved, cpBuffer, xb)
             new == SetSize(filled, cmdBuffer[0].size + size)
  <1>0. want \in Requests
    BY DEF HasCommand
  <1>1. /\ want.cmd \in Commands /\ h \in Seq(Items) /\ Len(h) = Layout[want.cmd].handles /\ Layout[want.cmd].handles \in Nat
        /\ a \in Seq(Items) /\ Len(a) \in Nat /\ Layout[want.cmd].rest \in Nat
        /\ want.kind \in {"plain", "cipher"} /\ want.size \in Nat \cup {Null} /\ Pieces(want.size) \in Nat
        /\ Len(Params(want.cmd, want.kind, want.size)) = 1 + Pieces(want.size) + Layout[want.cmd].rest
    BY <1>0, CommandLengths
  <1>2. /\ cpBuffer = 1 + Len(h) + Len(a) /\ cpBufferUsedSize = 1 + Pieces(want.size) + Layout[want.cmd].rest
        /\ cpBuffer + cpBufferUsedSize <= MaxCmdSize /\ cpBuffer \in Nat
        /\ cmdBuffer[0] = Header(Tag(want.auths), cpBuffer + cpBufferUsedSize, want.cmd) /\ cmdBuffer[0].size = cpBuffer + cpBufferUsedSize
        /\ Holds(cmdBuffer, 1, h) /\ Holds(cmdBuffer, 1 + Len(h), a) /\ Holds(cmdBuffer, cpBuffer, Params(want.cmd, want.kind, want.size))
    <2>1. /\ cpBuffer = 1 + Len(h) + Len(a) /\ cpBufferUsedSize = 1 + Pieces(want.size) + Layout[want.cmd].rest
          /\ cpBuffer + cpBufferUsedSize <= MaxCmdSize /\ cpBuffer \in Nat
          /\ cmdBuffer[0] = Header(Tag(want.auths), cpBuffer + cpBufferUsedSize, want.cmd)
          /\ Holds(cmdBuffer, 1, h) /\ Holds(cmdBuffer, 1 + Len(h), a) /\ Holds(cmdBuffer, cpBuffer, Params(want.cmd, want.kind, want.size))
      BY SMTT(30), <1>1 DEF HasCommand
    <2> QED
      BY <2>1 DEF Header
  <1>3. /\ cmdBuffer[cpBuffer] = Cell("size", want.cmd, Pieces(want.size))
        /\ Holds(cmdBuffer, cpBuffer + 1 + Pieces(want.size), r)
    <2>1. /\ cpBuffer \in Nat /\ want.cmd \in Commands /\ want.kind \in {"plain", "cipher"} /\ want.size \in Nat \cup {Null}
      BY <1>1, <1>2
    <2>2. Holds(cmdBuffer, cpBuffer, Params(want.cmd, want.kind, want.size)) <=>
             /\ cmdBuffer[cpBuffer] = Cell("size", want.cmd, Pieces(want.size))
             /\ Holds(cmdBuffer, cpBuffer + 1, Cells(want.kind, want.cmd, Pieces(want.size)))
             /\ Holds(cmdBuffer, cpBuffer + 1 + Pieces(want.size), Cells("param", want.cmd, Layout[want.cmd].rest))
      BY <1>0, <2>1, FirstOfRequest
    <2> QED
      BY <1>2, <2>2
  <1>4. Pieces(want.size) = 0 /\ cpBufferUsedSize - 1 = Layout[want.cmd].rest
    <2>1. Pieces(want.size) = 0
      BY <1>3 DEF Cell
    <2> DEFINE rest == Layout[want.cmd].rest
               u == cpBufferUsedSize
    <2>2. rest \in Nat /\ u = 1 + 0 + rest
      BY <1>1, <1>2, <2>1
    <2> HIDE DEF rest, u
    <2>3. u - 1 = rest
      BY <2>2
    <2> QED
      BY <2>1, <2>3 DEF rest, u
  <1>5. /\ b \in Seq(Items) /\ Len(b) = size /\ r \in Seq(Items) /\ Len(r) = Layout[want.cmd].rest
    <2>1. "cipher" \in Kinds /\ "param" \in Kinds /\ size \in Nat
      BY DEF Kinds
    <2>2. b \in Seq(Items) /\ Len(b) = size
      BY <1>1, <2>1, CellsSeq
    <2>3. r \in Seq(Items) /\ Len(r) = Layout[want.cmd].rest
      <3>1. want.cmd \in Commands /\ Layout[want.cmd].rest \in Nat /\ "param" \in Kinds
        BY <1>1, <2>1
      <3> QED
        BY <3>1, CellsSeq, Zenon
    <2> QED
      BY <2>2, <2>3
  <1>6. x \in Items /\ xb \in Seq(Items) /\ Len(xb) = 1 + size
    <2>1. x \in Items
      BY <1>1, ItemType
    <2> HIDE DEF x, b
    <2>2. <<x>> \in Seq(Items) /\ Len(<<x>>) = 1
      BY <2>1, OneSeq
    <2>3. xb \in Seq(Items) /\ Len(xb) = Len(<<x>>) + Len(b)
      BY <1>5, <2>2, ConcatProperties
    <2> QED
      BY <1>5, <2>1, <2>2, <2>3
  <1>7. /\ v \in Requests /\ v.cmd = want.cmd /\ v.kind = "cipher" /\ v.size = size /\ v.auths = want.auths
        /\ Pieces(size) = size
    <2>1. size \in Nat
      OBVIOUS
    <2> HIDE DEF moved, filled, new, h, a, b, r, x, xb
    <2>2. \A z \in Nat : LET u == [want EXCEPT !.kind = "cipher", !.size = z] IN
             /\ u \in Requests /\ u.cmd = want.cmd /\ u.kind = "cipher" /\ u.size = z /\ u.auths = want.auths
             /\ Pieces(z) = z
      BY <1>0, RequestChanged
    <2> QED
      BY <2>1, <2>2
  <1> HIDE DEF h, a, b, r, x, xb, v
  <1>n. /\ cpBuffer \in Nat \ {0} /\ cpBuffer + 1 \in Nat \ {0} /\ 1 \in Nat \ {0} /\ 1 + Len(h) \in Nat \ {0}
        /\ cpBuffer + cpBufferUsedSize + 1 \in Nat \ {0} /\ cpBuffer + 1 + size = cpBuffer + cpBufferUsedSize + 1
        /\ 1 + Len(h) <= cpBuffer /\ 1 + Len(h) <= cpBuffer + cpBufferUsedSize + 1
        /\ 1 + Len(h) + Len(a) <= cpBuffer /\ 1 + Len(h) + Len(a) <= cpBuffer + cpBufferUsedSize + 1
        /\ 1 + Len(h) <= MaxCmdSize /\ 1 + Len(h) + Len(a) <= MaxCmdSize
        /\ cpBuffer + cpBufferUsedSize + 1 + Len(r) <= MaxCmdSize /\ cpBuffer + Len(xb) <= cpBuffer + cpBufferUsedSize + 1 /\ cpBuffer + Len(xb) <= MaxCmdSize
        /\ cpBuffer + 1 + Pieces(want.size) = cpBuffer + 1 /\ cpBuffer + cpBufferUsedSize + size = cpBuffer + (cpBufferUsedSize + size)
        /\ cpBuffer + (cpBufferUsedSize + size) <= MaxCmdSize /\ cpBufferUsedSize + size = 1 + size + Layout[want.cmd].rest
    <2> DEFINE lh == Len(h)
               la == Len(a)
               lr == Len(r)
               lx == Len(xb)
               rest == Layout[want.cmd].rest
               pcs == Pieces(want.size)
    <2>1. /\ cpBuffer = 1 + lh + la /\ cpBufferUsedSize = 1 + rest /\ lr = rest /\ cpBuffer + cpBufferUsedSize + size <= MaxCmdSize /\ lh \in Nat
          /\ la \in Nat /\ lr \in Nat /\ lx = 1 + size /\ size = cpBufferUsedSize /\ MaxCmdSize \in Nat /\ pcs = 0
      <3>1. cpBuffer + cpBufferUsedSize + size <= MaxCmdSize
        BY <1>2
      <3>2. cpBufferUsedSize = 1 + rest
        BY <1>1, <1>2, <1>4
      <3> QED
        BY <1>1, <1>2, <1>4, <1>5, <1>6, <3>1, <3>2, SysAssumption
    <2> HIDE DEF lh, la, lr, lx, rest, pcs
    <2>2. /\ cpBuffer \in Nat \ {0} /\ cpBuffer + 1 \in Nat \ {0} /\ 1 \in Nat \ {0} /\ 1 + lh \in Nat \ {0}
          /\ cpBuffer + cpBufferUsedSize + 1 \in Nat \ {0} /\ cpBuffer + 1 + size = cpBuffer + cpBufferUsedSize + 1
          /\ 1 + lh <= cpBuffer /\ 1 + lh <= cpBuffer + cpBufferUsedSize + 1
          /\ 1 + lh + la <= cpBuffer /\ 1 + lh + la <= cpBuffer + cpBufferUsedSize + 1
          /\ 1 + lh <= MaxCmdSize /\ 1 + lh + la <= MaxCmdSize
      BY <2>1
    <2>3. /\ cpBuffer + cpBufferUsedSize + 1 + lr <= MaxCmdSize /\ cpBuffer + lx <= cpBuffer + cpBufferUsedSize + 1 /\ cpBuffer + lx <= MaxCmdSize
          /\ cpBuffer + 1 + pcs = cpBuffer + 1 /\ cpBuffer + cpBufferUsedSize + size = cpBuffer + (cpBufferUsedSize + size)
          /\ cpBuffer + (cpBufferUsedSize + size) <= MaxCmdSize /\ cpBufferUsedSize + size = 1 + size + rest
      BY <2>1
    <2> QED
      BY <2>2, <2>3 DEF lh, la, lr, lx, rest, pcs
  <1>8. moved = Write(cmdBuffer, cpBuffer + cpBufferUsedSize + 1, r)
    <2>1. At(cmdBuffer, cpBuffer + 1, Len(r)) = r
      BY <1>3, <1>5, <1>n, HoldsAt
    <2> QED
      BY <1>4, <1>5, <2>1
  <1> HIDE DEF moved
  <1>9. /\ DOMAIN moved = 0..MaxCmdSize - 1 /\ moved[0] = cmdBuffer[0]
        /\ Holds(moved, 1, h) /\ Holds(moved, 1 + Len(h), a) /\ Holds(moved, cpBuffer + cpBufferUsedSize + 1, r)
    <2>1. DOMAIN moved = 0..MaxCmdSize - 1 /\ moved[0] = cmdBuffer[0]
      <3> DEFINE o == cpBuffer + cpBufferUsedSize + 1
      <3>1. o \in Nat \ {0} /\ r \in Seq(Items) /\ moved = Write(cmdBuffer, o, r)
        BY <1>5, <1>8, <1>n
      <3> HIDE DEF o
      <3>2. moved[0] = cmdBuffer[0]
        BY ZenonT(60), <3>1, HeaderFrame
      <3> QED
        BY <3>1, <3>2, WriteDomain
    <2>2. Holds(moved, 1, h)
      BY <1>1, <1>2, <1>5, <1>8, <1>n, HoldsFrame
    <2>3. Holds(moved, 1 + Len(h), a)
      BY <1>1, <1>2, <1>5, <1>8, <1>n, HoldsFrame
    <2>4. Holds(moved, cpBuffer + cpBufferUsedSize + 1, r)
      BY <1>5, <1>8, <1>n, HoldsWrite
    <2> QED
      BY <2>1, <2>2, <2>3, <2>4
  <1> HIDE DEF filled
  <1>10. /\ DOMAIN filled = 0..MaxCmdSize - 1 /\ filled[0] = cmdBuffer[0] /\ Holds(filled, cpBuffer, xb)
         /\ Holds(filled, 1, h) /\ Holds(filled, 1 + Len(h), a) /\ Holds(filled, cpBuffer + cpBufferUsedSize + 1, r)
    <2>1. DOMAIN filled = 0..MaxCmdSize - 1 /\ filled[0] = cmdBuffer[0]
      <3>1. cpBuffer \in Nat \ {0} /\ xb \in Seq(Items) /\ DOMAIN moved = 0..MaxCmdSize - 1 /\ filled = Write(moved, cpBuffer, xb)
        BY <1>6, <1>9, <1>n DEF filled
      <3>2. filled[0] = moved[0]
        BY ZenonT(60), <3>1, HeaderFrame
      <3> QED
        BY <1>9, <3>1, <3>2, WriteDomain
    <2>2. Holds(filled, 1, h)
      BY <1>1, <1>6, <1>9, <1>n, HoldsFrame DEF filled
    <2>3. Holds(filled, 1 + Len(h), a)
      BY <1>1, <1>6, <1>9, <1>n, HoldsFrame DEF filled
    <2>4. Holds(filled, cpBuffer + cpBufferUsedSize + 1, r)
      BY <1>5, <1>6, <1>9, <1>n, HoldsFrame DEF filled
    <2>5. Holds(filled, cpBuffer, xb)
      BY <1>6, <1>9, <1>n, HoldsWrite DEF filled
    <2> QED
      BY <2>1, <2>2, <2>3, <2>4, <2>5
  <1> HIDE DEF new
  <1>11. /\ DOMAIN new = 0..MaxCmdSize - 1 /\ new[0] = Header(Tag(want.auths), cpBuffer + cpBufferUsedSize + size, want.cmd)
         /\ Holds(new, cpBuffer, xb) /\ Holds(new, 1, h) /\ Holds(new, 1 + Len(h), a) /\ Holds(new, cpBuffer + cpBufferUsedSize + 1, r)
    <2>1. DOMAIN new = 0..MaxCmdSize - 1
      BY <1>10, HeaderFieldsFrame DEF new
    <2>2. new[0] = Header(Tag(want.auths), cpBuffer + cpBufferUsedSize + size, want.cmd)
      <3> DEFINE sz == cpBuffer + cpBufferUsedSize
                 nsz == cpBuffer + cpBufferUsedSize + size
      <3>1. /\ DOMAIN filled = 0..MaxCmdSize - 1 /\ filled[0] = Header(Tag(want.auths), sz, want.cmd)
            /\ new = SetSize(filled, nsz)
        BY <1>2, <1>10 DEF new
      <3> HIDE DEF sz, nsz
      <3>2. new[0] = Header(Tag(want.auths), nsz, want.cmd)
        BY <3>1, ZeroInBuffer DEF SetSize, Header
      <3> QED
        BY <3>2 DEF nsz
    <2>3. Holds(new, 1, h)
      BY <1>1, <1>10, <1>n, HoldsBehindHeader DEF new
    <2>4. Holds(new, 1 + Len(h), a)
      BY <1>1, <1>10, <1>n, HoldsBehindHeader DEF new
    <2>5. Holds(new, cpBuffer + cpBufferUsedSize + 1, r)
      BY <1>5, <1>10, <1>n, HoldsBehindHeader DEF new
    <2>6. Holds(new, cpBuffer, xb)
      BY <1>6, <1>10, <1>n, HoldsBehindHeader DEF new
    <2> QED
      BY <2>1, <2>2, <2>3, <2>4, <2>5, <2>6
  <1>12. new[cpBuffer] = x /\ Holds(new, cpBuffer + 1, b)
    <2> DEFINE o == <<x>>
    <2>1. o \in Seq(Items) /\ Len(o) = 1 /\ (Holds(new, cpBuffer, o) <=> new[cpBuffer] = x)
      BY <1>6, <1>n, OneSeq
    <2>2. Holds(new, cpBuffer, o \o b)
      BY <1>11 DEF xb
    <2> HIDE DEF o
    <2>3. Holds(new, cpBuffer, o) /\ Holds(new, cpBuffer + Len(o), b)
      BY <1>5, <1>n, <2>1, <2>2, HoldsConcat
    <2> QED
      BY <2>1, <2>3
  <1>13. Holds(new, cpBuffer, Params(want.cmd, "cipher", size)) /\ Len(Params(want.cmd, "cipher", size)) = cpBufferUsedSize + size
    <2>1. /\ size \in Nat \cup {Null} /\ cpBuffer \in Nat /\ want.cmd \in Commands /\ "cipher" \in {"plain", "cipher"}
      BY <1>1, <1>n
    <2>3. Len(Params(want.cmd, "cipher", size)) = 1 + Pieces(size) + Layout[want.cmd].rest
      BY <2>1, ParamsHold
    <2>2. Holds(new, cpBuffer, Params(want.cmd, "cipher", size)) <=>
                /\ new[cpBuffer] = Cell("size", want.cmd, Pieces(size))
                /\ Holds(new, cpBuffer + 1, Cells("cipher", want.cmd, Pieces(size)))
                /\ Holds(new, cpBuffer + 1 + Pieces(size), Cells("param", want.cmd, Layout[want.cmd].rest))
      BY <2>1, FirstParam
    <2> QED
      BY <1>7, <1>11, <1>12, <1>n, <2>2, <2>3 DEF x, b, r
  <1>14. HasCommand(new, cpBuffer, cpBufferUsedSize + size, v)
    BY <1>1, <1>2, <1>7, <1>11, <1>13, <1>n DEF HasCommand, h, a
  <1> QED
    BY <1>11, <1>14 DEF new, filled, moved, xb, x, b, v

-----------------------------------------------------------------------------
(* Responses in the buffer.                                                *)

\* The parameters of a response.
LEMMA RspSeq ==
  ASSUME NEW c \in Commands, NEW k \in {"cipher", "clear"}
  PROVE  /\ RspParams(c, k) \in Seq(Items) /\ Len(RspParams(c, k)) \in Nat
         /\ Len(RspParams(c, k)) = (IF Layout[c].encrypt THEN 1 + Layout[c].rspSize ELSE 0) + Layout[c].rspRest
  <1> DEFINE x == Cell("size", c, Layout[c].rspSize)
             s == Cells(k, c, Layout[c].rspSize)
             t == Cells("rsp", c, Layout[c].rspRest)
  <1>1. Layout[c].rspSize \in Nat /\ Layout[c].rspRest \in Nat /\ k \in Kinds /\ "rsp" \in Kinds /\ 0 \in Nat
    BY LayoutType DEF Kinds
  <1>2. x \in Items
    BY <1>1, ItemType
  <1>3. s \in Seq(Items) /\ Len(s) = Layout[c].rspSize
    BY <1>1, CellsSeq
  <1>4. t \in Seq(Items) /\ Len(t) = Layout[c].rspRest
    BY <1>1, CellsSeq
  <1>5. CASE Layout[c].encrypt
    <2>1. RspParams(c, k) = (<<x>> \o s) \o t
      BY <1>5 DEF RspParams
    <2> HIDE DEF x, s, t
    <2>2. (<<x>> \o s) \o t \in Seq(Items) /\ Len((<<x>> \o s) \o t) = 1 + Len(s) + Len(t)
      BY SMTT(30), <1>1, <1>2, <1>3, <1>4, ListHolds
    <2> QED
      BY <1>1, <1>3, <1>4, <1>5, <2>1, <2>2
  <1>6. CASE ~Layout[c].encrypt
    <2>1. RspParams(c, k) = <<>> \o t
      BY <1>6 DEF RspParams
    <2> HIDE DEF t
    <2>2. <<>> \o t = t
      BY <1>4, ConcatEmptySeq
    <2> QED
      BY <1>1, <1>4, <1>6, <2>1, <2>2
  <1> QED
    BY <1>5, <1>6

LEMMA FirstOfResponse ==
  ASSUME NEW c \in Commands, NEW k \in Kinds, Layout[c].encrypt, NEW buf, NEW off \in Nat
  PROVE  Holds(buf, off, RspParams(c, k)) <=>
             /\ buf[off] = Cell("size", c, Layout[c].rspSize)
             /\ Holds(buf, off + 1, Cells(k, c, Layout[c].rspSize))
             /\ Holds(buf, off + 1 + Layout[c].rspSize, Cells("rsp", c, Layout[c].rspRest))
  <1> DEFINE x == Cell("size", c, Layout[c].rspSize)
             s == Cells(k, c, Layout[c].rspSize)
             t == Cells("rsp", c, Layout[c].rspRest)
  <1>1. Layout[c].rspSize \in Nat /\ Layout[c].rspRest \in Nat /\ "rsp" \in Kinds
    BY LayoutType DEF Kinds
  <1>2. x \in Items
    BY <1>1, ItemType
  <1>3. s \in Seq(Items) /\ Len(s) = Layout[c].rspSize
    BY <1>1, CellsSeq
  <1>4. t \in Seq(Items)
    BY <1>1, CellsSeq
  <1>5. RspParams(c, k) = (<<x>> \o s) \o t
    BY DEF RspParams
  <1> HIDE DEF x, s, t
  <1>6. Holds(buf, off, (<<x>> \o s) \o t) <=>
           buf[off] = x /\ Holds(buf, off + 1, s) /\ Holds(buf, off + 1 + Len(s), t)
    BY <1>2, <1>3, <1>4, ListHolds
  <1> QED
    BY <1>3, <1>5, <1>6 DEF x, s, t

\* What HasResponse says of the lengths.
LEMMA ResponseLengths ==
  ASSUME NEW w \in Requests
  PROVE  /\ w.cmd \in Commands /\ w.auths \in Nat /\ Layout[w.cmd].rspHandles \in Nat
         /\ RspHandles(w.cmd) \in Seq(Items) /\ Len(RspHandles(w.cmd)) = Layout[w.cmd].rspHandles
         /\ Cells("rspauth", w.cmd, w.auths) \in Seq(Items) /\ Len(Cells("rspauth", w.cmd, w.auths)) = w.auths
  <1>1. w.cmd \in Commands /\ w.auths \in Nat
    BY SysAssumption DEF Requests
  <1>2. Layout[w.cmd].rspHandles \in Nat /\ "rsphandle" \in Kinds /\ "rspauth" \in Kinds
    BY <1>1, LayoutType DEF Kinds
  <1>3. RspHandles(w.cmd) \in Seq(Items) /\ Len(RspHandles(w.cmd)) = Layout[w.cmd].rspHandles
    BY <1>1, <1>2, CellsSeq DEF RspHandles
  <1>4. Cells("rspauth", w.cmd, w.auths) \in Seq(Items) /\ Len(Cells("rspauth", w.cmd, w.auths)) = w.auths
    BY <1>1, <1>2, CellsSeq
  <1> QED
    BY <1>1, <1>2, <1>3, <1>4

\* A response that fits the buffer is received into it.
LEMMA ResponseReceived ==
  ASSUME NEW buf, DOMAIN buf = 0..MaxCmdSize - 1, NEW w \in Requests, Len(Response(w)) <= MaxCmdSize
  PROVE  /\ HasResponse(Write(buf, 0, Response(w)), w, "cipher")
         /\ DOMAIN Write(buf, 0, Response(w)) = DOMAIN buf
         /\ Response(w)[1].tag = Tag(w.auths)
  <1> DEFINE h == RspHandles(w.cmd)
             q == RspParams(w.cmd, "cipher")
             z == Cells("rspauth", w.cmd, w.auths)
             y == Cell("paramsize", w.cmd, Len(q))
             r == IF w.auths = 0 THEN q ELSE <<y>> \o q \o z
             x == Header(Tag(w.auths), Len(h \o r) + 1, "SUCCESS")
             m == <<x>> \o (h \o r)
             new == Write(buf, 0, m)
  <1>1. m = Response(w)
    BY DEF Response, Tag, RspHandles
  <1>2. /\ w.cmd \in Commands /\ w.auths \in Nat /\ Layout[w.cmd].rspHandles \in Nat
        /\ h \in Seq(Items) /\ Len(h) = Layout[w.cmd].rspHandles /\ z \in Seq(Items) /\ Len(z) = w.auths
    BY ResponseLengths
  <1>3. q \in Seq(Items) /\ Len(q) \in Nat
    <2>1. "cipher" \in {"cipher", "clear"}
      OBVIOUS
    <2> QED
      BY <1>2, <2>1, RspSeq
  <1> HIDE DEF h, q, z
  <1>4. y \in Items /\ y.n = Len(q)
    <2>1. "paramsize" \in Kinds
      BY DEF Kinds
    <2>2. y \in Items
      BY <1>2, <1>3, <2>1, ItemType
    <2> QED
      BY <2>2 DEF Cell
  <1> HIDE DEF y
  <1>5. CASE w.auths = 0
    <2>1. r = q
      BY <1>5
    <2>2. h \o q \in Seq(Items) /\ Len(h \o q) = Len(h) + Len(q) /\ Len(h \o q) + 1 \in Nat
      <3>1. h \o q \in Seq(Items) /\ Len(h \o q) = Len(h) + Len(q)
        BY <1>2, <1>3, ConcatProperties
      <3> QED
        BY <1>2, <1>3, <3>1
    <2>3. x \in Items /\ x.tag = Tag(w.auths)
      <3>1. Tag(w.auths) \in {"NO_SESSIONS", "SESSIONS"}
        BY DEF Tag
      <3>2. x = Header(Tag(w.auths), Len(h \o q) + 1, "SUCCESS")
        BY <2>1
      <3> HIDE DEF x
      <3>3. x \in Items
        BY <1>2, <2>2, <3>1, <3>2, ItemType
      <3> QED
        BY <3>2, <3>3 DEF Header
    <2>4. m = <<x>> \o (h \o q)
      BY <2>1
    <2> HIDE DEF x, r, m, new
    <2>5. /\ m \in Seq(Items) /\ Len(m) = 1 + Len(h) + Len(q) /\ m[1] = x
          /\ Holds(new, 0, m) <=> new[0] = x /\ Holds(new, 1, h) /\ Holds(new, 1 + Len(h), q)
      BY SMTT(30), <1>2, <1>3, <2>3, <2>4, BodyHolds
    <2>6. Holds(new, 0, m) /\ DOMAIN new = DOMAIN buf
      <3>1. 0 \in Nat /\ 0 + Len(m) <= MaxCmdSize
        BY <1>1, <1>2, <1>3, <2>5
      <3> QED
        BY <2>5, <3>1, HoldsWrite, WriteDomain DEF new
    <2>7. RspOffset(w.cmd, w.auths) = 1 + Len(h) /\ 1 + Len(h) + Len(q) + w.auths <= MaxCmdSize
      <3>1. 1 + Len(h) + Len(q) <= MaxCmdSize
        BY <1>1, <2>5
      <3>2. RspOffset(w.cmd, w.auths) = 1 + Len(h)
        BY <1>2, <1>5 DEF RspOffset
      <3> QED
        BY <1>2, <1>3, <1>5, <3>1, <3>2
    <2>8. HasResponse(new, w, "cipher")
      BY <1>5, <2>3, <2>5, <2>6, <2>7 DEF HasResponse, h, q
    <2> QED
      BY <1>1, <2>3, <2>5, <2>6, <2>8 DEF new
  <1>6. CASE w.auths # 0
    <2> DEFINE l == (<<y>> \o q) \o z
    <2>1. r = l
      BY <1>6
    <2>2. /\ l \in Seq(Items) /\ Len(l) = 1 + Len(q) + Len(z)
          /\ \A b, o : o \in Nat => (Holds(b, o, l) <=>
                b[o] = y /\ Holds(b, o + 1, q) /\ Holds(b, o + 1 + Len(q), z))
      <3>1. /\ l \in Seq(Items) /\ Len(l) = 1 + Len(q) + Len(z)
        <4>1. 0 \in Nat
          OBVIOUS
        <4> QED
          BY SMTT(30), <1>2, <1>3, <1>4, <4>1, ListHolds
      <3>2. ASSUME NEW b, NEW o \in Nat
            PROVE  Holds(b, o, l) <=> b[o] = y /\ Holds(b, o + 1, q) /\ Holds(b, o + 1 + Len(q), z)
        BY <1>2, <1>3, <1>4, ListHolds
      <3> QED
        BY <3>1, <3>2
    <2> HIDE DEF l
    <2>3. h \o l \in Seq(Items) /\ Len(h \o l) = Len(h) + Len(l) /\ Len(h \o l) + 1 \in Nat
      <3>0. h \in Seq(Items) /\ l \in Seq(Items)
        BY <1>2, <2>2
      <3>1. h \o l \in Seq(Items) /\ Len(h \o l) = Len(h) + Len(l)
        BY <3>0, ConcatProperties
      <3> QED
        BY <3>0, <3>1
    <2>4. x \in Items /\ x.tag = Tag(w.auths)
      <3>1. Tag(w.auths) \in {"NO_SESSIONS", "SESSIONS"}
        BY DEF Tag
      <3>2. x = Header(Tag(w.auths), Len(h \o l) + 1, "SUCCESS")
        BY <2>1
      <3> HIDE DEF x
      <3>3. x \in Items
        BY <1>2, <2>3, <3>1, <3>2, ItemType
      <3> QED
        BY <3>2, <3>3 DEF Header
    <2>5. m = <<x>> \o (h \o l)
      BY <2>1
    <2> HIDE DEF x, r, m, new
    <2>6. /\ m \in Seq(Items) /\ Len(m) = 1 + Len(h) + Len(l) /\ m[1] = x
          /\ Holds(new, 0, m) <=> new[0] = x /\ Holds(new, 1, h) /\ Holds(new, 1 + Len(h), l)
      <3>1. h \in Seq(Items) /\ l \in Seq(Items) /\ x \in Items
        BY <1>2, <2>2, <2>4
      <3> QED
        BY <2>5, <3>1, BodyHolds
    <2>7. Holds(new, 0, m) /\ DOMAIN new = DOMAIN buf
      <3>1. 0 \in Nat /\ 0 + Len(m) <= MaxCmdSize
        BY <1>1, <1>2, <2>2, <2>6
      <3> QED
        BY <2>6, <3>1, HoldsWrite, WriteDomain DEF new
    <2>8. new[1 + Len(h)] = y /\ Holds(new, 1 + Len(h) + 1, q) /\ Holds(new, 1 + Len(h) + 1 + Len(q), z)
      <3>1. 1 + Len(h) \in Nat
        BY <1>2
      <3> QED
        BY <2>2, <2>6, <2>7, <3>1
    <2>9. /\ RspOffset(w.cmd, w.auths) = 1 + Len(h) + 1 /\ 1 + Len(h) + 1 + Len(q) + w.auths <= MaxCmdSize
          /\ RspOffset(w.cmd, w.auths) - 1 = 1 + Len(h)
      <3>1. 1 + Len(h) + Len(l) <= MaxCmdSize
        BY <1>1, <2>6
      <3>2. RspOffset(w.cmd, w.auths) = 1 + Len(h) + 1
        BY <1>2, <1>6 DEF RspOffset
      <3> DEFINE lh == Len(h)
                 lq == Len(q)
                 ll == Len(l)
      <3>3. lh \in Nat /\ lq \in Nat /\ ll = 1 + lq + w.auths /\ 1 + lh + ll <= MaxCmdSize
        BY <1>2, <1>3, <2>2, <3>1
      <3> HIDE DEF lh, lq, ll
      <3>4. 1 + lh + 1 + lq + w.auths <= MaxCmdSize /\ 1 + lh + 1 - 1 = 1 + lh
        BY <1>2, <3>3, SysAssumption
      <3> QED
        BY <3>2, <3>4 DEF lh, lq
    <2>10. HasResponse(new, w, "cipher")
      BY <1>4, <2>4, <2>6, <2>7, <2>8, <2>9 DEF HasResponse, h, q, z
    <2> QED
      BY <1>1, <2>4, <2>6, <2>7, <2>10 DEF new
  <1> QED
    BY <1>5, <1>6

\* Tss2_Sys_GetRspAuths and Complete read it.
LEMMA ResponseRead ==
  ASSUME NEW buf, NEW w, NEW k \in {"cipher", "clear"}, HasResponse(buf, w, k)
  PROVE  LET off == RspOffset(w.cmd, w.auths)
             params == RspParams(w.cmd, k)
         IN  /\ At(buf, 1, Layout[w.cmd].rspHandles) = RspHandles(w.cmd)
             /\ At(buf, off, Len(params)) = params
             /\ Len(params) = Len(RspParams(w.cmd, "cipher"))
             /\ off \in Nat \ {0} /\ Len(params) \in Nat /\ off + Len(params) <= MaxCmdSize
             /\ w.auths # 0 => At(buf, off + buf[off - 1].n, w.auths) = Cells("rspauth", w.cmd, w.auths)
  <1> DEFINE off == RspOffset(w.cmd, w.auths)
             q == RspParams(w.cmd, k)
             h == RspHandles(w.cmd)
             z == Cells("rspauth", w.cmd, w.auths)
  <1>0. w \in Requests
    BY DEF HasResponse
  <1>1. /\ w.cmd \in Commands /\ w.auths \in Nat /\ Layout[w.cmd].rspHandles \in Nat
        /\ h \in Seq(Items) /\ Len(h) = Layout[w.cmd].rspHandles /\ z \in Seq(Items) /\ Len(z) = w.auths
    BY <1>0, ResponseLengths
  <1>2. q \in Seq(Items) /\ Len(q) \in Nat /\ Len(q) = Len(RspParams(w.cmd, "cipher"))
    <2>1. "cipher" \in {"cipher", "clear"}
      OBVIOUS
    <2>2. q \in Seq(Items) /\ Len(q) \in Nat
      BY <1>1, RspSeq
    <2>3. Len(q) = (IF Layout[w.cmd].encrypt THEN 1 + Layout[w.cmd].rspSize ELSE 0) + Layout[w.cmd].rspRest
      BY <1>1, RspSeq
    <2>4. Len(RspParams(w.cmd, "cipher"))
             = (IF Layout[w.cmd].encrypt THEN 1 + Layout[w.cmd].rspSize ELSE 0) + Layout[w.cmd].rspRest
      BY <1>1, <2>1, RspSeq
    <2> QED
      BY <2>2, <2>3, <2>4
  <1>3. /\ off + Len(q) + w.auths <= MaxCmdSize /\ Holds(buf, 1, h) /\ Holds(buf, off, q)
        /\ w.auths # 0 => buf[off - 1].n = Len(q) /\ Holds(buf, off + Len(q), z)
    BY DEF HasResponse
  <1>4. off \in Nat \ {0}
    BY <1>1 DEF RspOffset
  <1> HIDE DEF off, q, h, z
  <1>5. At(buf, 1, Len(h)) = h
    <2>1. 1 \in Nat
      OBVIOUS
    <2> QED
      BY <1>1, <1>3, <2>1, HoldsAt
  <1>6. At(buf, off, Len(q)) = q
    BY <1>2, <1>3, <1>4, HoldsAt
  <1>7. ASSUME w.auths # 0 PROVE At(buf, off + buf[off - 1].n, w.auths) = z
    <2> DEFINE o == off + Len(q)
    <2>1. o \in Nat /\ Holds(buf, o, z) /\ z \in Seq(Items)
      BY <1>1, <1>2, <1>3, <1>4, <1>7
    <2> HIDE DEF o
    <2>2. At(buf, o, Len(z)) = z
      BY <2>1, HoldsAt
    <2> QED
      BY <1>1, <1>3, <1>7, <2>2 DEF o
  <1>8. off + Len(q) <= MaxCmdSize
    BY <1>1, <1>2, <1>3, <1>4, SysAssumption
  <1> QED
    BY <1>1, <1>2, <1>4, <1>5, <1>6, <1>7, <1>8 DEF off, q, h, z

\* Tss2_Sys_SetEncryptParam decrypts its first parameter in place.
LEMMA ResponseDecrypted ==
  ASSUME NEW buf, DOMAIN buf = 0..MaxCmdSize - 1, NEW w, NEW k \in {"cipher", "clear"}, HasResponse(buf, w, k),
         w.auths # 0, Layout[w.cmd].encrypt
  PROVE  LET off == 1 + Layout[w.cmd].rspHandles + 1
             new == Write(buf, off + 1, Cells("clear", w.cmd, buf[off].n))
         IN  HasResponse(new, w, "clear") /\ DOMAIN new = DOMAIN buf
  <1> DEFINE off == 1 + Layout[w.cmd].rspHandles + 1
             h == RspHandles(w.cmd)
             z == Cells("rspauth", w.cmd, w.auths)
             size == Layout[w.cmd].rspSize
             b == Cells("clear", w.cmd, size)
             t == Cells("rsp", w.cmd, Layout[w.cmd].rspRest)
             x == Cell("size", w.cmd, size)
             new == Write(buf, off + 1, b)
             lq == 1 + size + Layout[w.cmd].rspRest
  <1>0. w \in Requests
    BY DEF HasResponse
  <1>1. /\ w.cmd \in Commands /\ w.auths \in Nat /\ Layout[w.cmd].rspHandles \in Nat
        /\ h \in Seq(Items) /\ Len(h) = Layout[w.cmd].rspHandles /\ z \in Seq(Items) /\ Len(z) = w.auths
    BY <1>0, ResponseLengths
  <1>2. /\ size \in Nat /\ Layout[w.cmd].rspRest \in Nat /\ off \in Nat \ {0} /\ RspOffset(w.cmd, w.auths) = off
        /\ off - 1 = 1 + Len(h) /\ off = 2 + Len(h)
    BY <1>1, LayoutType DEF RspOffset
  <1>3. Len(RspParams(w.cmd, k)) = lq /\ Len(RspParams(w.cmd, "clear")) = lq
    <2>1. "clear" \in {"cipher", "clear"}
      OBVIOUS
    <2>2. Len(RspParams(w.cmd, k)) = lq
      BY <1>1, RspSeq
    <2>3. Len(RspParams(w.cmd, "clear")) = lq
      BY <1>1, <2>1, RspSeq
    <2> QED
      BY <2>2, <2>3
  <1>4. /\ off + lq + w.auths <= MaxCmdSize /\ buf[0].tag = Tag(w.auths)
        /\ Holds(buf, 1, h) /\ Holds(buf, off, RspParams(w.cmd, k))
        /\ buf[off - 1].n = lq /\ Holds(buf, off + lq, z)
    BY <1>2, <1>3 DEF HasResponse
  <1>5. /\ b \in Seq(Items) /\ Len(b) = size /\ t \in Seq(Items) /\ Len(t) = Layout[w.cmd].rspRest
    <2>1. "clear" \in Kinds /\ "rsp" \in Kinds
      BY DEF Kinds
    <2>2. b \in Seq(Items) /\ Len(b) = size
      BY <1>1, <1>2, <2>1, CellsSeq
    <2>3. t \in Seq(Items) /\ Len(t) = Layout[w.cmd].rspRest
      BY <1>1, <1>2, <2>1, CellsSeq
    <2> QED
      BY <2>2, <2>3
  <1>6. x \in Items
    <2>1. "size" \in Kinds
      BY DEF Kinds
    <2> QED
      BY <1>1, <1>2, <2>1, ItemType
  <1>7. buf[off] = x /\ Holds(buf, off + 1 + size, t)
    <2> HIDE DEF off
    <2>1. Holds(buf, off, RspParams(w.cmd, k)) <=>
             /\ buf[off] = Cell("size", w.cmd, Layout[w.cmd].rspSize)
             /\ Holds(buf, off + 1, Cells(k, w.cmd, Layout[w.cmd].rspSize))
             /\ Holds(buf, off + 1 + Layout[w.cmd].rspSize, Cells("rsp", w.cmd, Layout[w.cmd].rspRest))
      <3>1. w.cmd \in Commands /\ off \in Nat /\ k \in Kinds
        BY <1>1, <1>2 DEF Kinds
      <3> QED
        BY <3>1, FirstOfResponse
    <2> QED
      BY <1>4, <2>1
  <1>8. buf[off].n = size
    BY <1>7 DEF Cell
  <1>n. /\ off + 1 \in Nat \ {0} /\ off + 1 + size \in Nat /\ off + lq \in Nat /\ 1 \in Nat
        /\ 1 + Len(h) <= off + 1 /\ 1 + Len(h) <= MaxCmdSize
        /\ off + 1 + Len(b) <= off + 1 + size /\ off + 1 + Len(b) <= MaxCmdSize
        /\ off + 1 + Len(b) <= off + lq /\ off + lq + Len(z) <= MaxCmdSize
        /\ off + 1 + size + Len(t) <= MaxCmdSize
        /\ off - 1 \in 0..MaxCmdSize - 1 /\ off \in 0..MaxCmdSize - 1 /\ off - 1 # 0
    <2> DEFINE lh == Len(h)
               lb == Len(b)
               lt == Len(t)
               lz == Len(z)
               hs == Layout[w.cmd].rspHandles
    <2> HIDE DEF h, b, t, z
    <2>1. /\ lh \in Nat /\ lb = size /\ size \in Nat /\ lt \in Nat /\ lz = w.auths /\ w.auths \in Nat /\ lq = 1 + size + lt
          /\ off = 2 + lh /\ off + lq + w.auths <= MaxCmdSize /\ MaxCmdSize \in Nat
      BY <1>1, <1>2, <1>4, <1>5, SysAssumption
    <2> HIDE DEF lh, lb, lt, lz, lq, off, size
    <2>2. /\ off + 1 \in Nat \ {0} /\ off + 1 + size \in Nat /\ off + lq \in Nat /\ 1 \in Nat
          /\ 1 + lh <= off + 1 /\ 1 + lh <= MaxCmdSize
          /\ off + 1 + lb <= off + 1 + size /\ off + 1 + lb <= MaxCmdSize
      BY <2>1
    <2>3. /\ off + 1 + lb <= off + lq /\ off + lq + lz <= MaxCmdSize
          /\ off + 1 + size + lt <= MaxCmdSize /\ off - 1 # 0
      BY SMTT(30), <2>1
    <2>4. off - 1 \in 0..MaxCmdSize - 1 /\ off \in 0..MaxCmdSize - 1
      BY <2>1
    <2> QED
      BY <2>2, <2>3, <2>4 DEF lh, lb, lt, lz, hs
  <1> HIDE DEF off, h, z, size, b, t, x, new, lq
  <1>9. DOMAIN new = DOMAIN buf /\ new[0] = buf[0]
    <2> DEFINE o == off + 1
    <2>1. o \in Nat \ {0} /\ b \in Seq(Items) /\ new = Write(buf, o, b)
      BY <1>5, <1>n DEF new
    <2> HIDE DEF o
    <2>2. new[0] = buf[0]
      BY <2>1, HeaderFrame
    <2> QED
      BY <2>1, <2>2, WriteDomain
  <1>10. \A i \in 0..MaxCmdSize - 1 : i < off + 1 => new[i] = buf[i]
    <2> SUFFICES ASSUME NEW i \in 0..MaxCmdSize - 1, i < off + 1 PROVE new[i] = buf[i]
      OBVIOUS
    <2>1. i - (off + 1) + 1 \notin 1..Len(b)
      BY <1>2
    <2> QED
      BY <2>1 DEF new, Write
  <1>11. new[off] = x /\ new[off - 1].n = lq
    <2>1. off < off + 1 /\ off - 1 < off + 1
      BY <1>2
    <2> QED
      BY <1>4, <1>7, <1>10, <1>n, <2>1
  <1>12. Holds(new, 1, h)
    BY <1>1, <1>4, <1>5, <1>n, HoldsFrame DEF new
  <1>13. Holds(new, off + 1, b)
    BY <1>5, <1>n, HoldsWrite DEF new
  <1>14. Holds(new, off + 1 + size, t)
    BY <1>5, <1>7, <1>n, HoldsFrame DEF new
  <1>15. Holds(new, off + lq, z)
    BY <1>1, <1>4, <1>5, <1>n, HoldsFrame DEF new
  <1>16. Holds(new, off, RspParams(w.cmd, "clear"))
    <2>1. "clear" \in Kinds
      BY DEF Kinds
    <2>2. Holds(new, off, RspParams(w.cmd, "clear")) <=>
             /\ new[off] = Cell("size", w.cmd, Layout[w.cmd].rspSize)
             /\ Holds(new, off + 1, Cells("clear", w.cmd, Layout[w.cmd].rspSize))
             /\ Holds(new, off + 1 + Layout[w.cmd].rspSize, Cells("rsp", w.cmd, Layout[w.cmd].rspRest))
      BY <1>1, <1>2, <2>1, FirstOfResponse
    <2> QED
      BY <1>11, <1>13, <1>14, <2>2 DEF x, b, t, size
  <1>17. HasResponse(new, w, "clear")
    BY <1>0, <1>2, <1>3, <1>4, <1>9, <1>11, <1>12, <1>15, <1>16 DEF HasResponse, h, z
  <1> QED
    BY <1>8, <1>9, <1>17 DEF new, off, b

-----------------------------------------------------------------------------
(* The steps.                                                              *)

USE DEF IInv, Inv

LEMMA InitIInv == Init => IInv
  <1> SUFFICES ASSUME Init PROVE IInv
    OBVIOUS
  <1>1. TypeOK
    <2>1. 0 \in 0..MaxCmdSize /\ 0 \in 0..MaxAuths /\ 0 \in 0..MaxPrepares
      BY SysAssumption
    <2>2. flags \in [decrypt : BOOLEAN, encrypt : BOOLEAN, auth : BOOLEAN, null : BOOLEAN]
      BY DEF Init, NoFlags
    <2>3. DOMAIN cmdBuffer = 0..MaxCmdSize - 1
      BY DEF Init
    <2> QED
      BY <2>1, <2>2, <2>3 DEF Init, TypeOK, Stages, TctiStates
  <1> QED
    BY <1>1 DEF Init, CommandInv, FlagsInv, CountInv, SentInv, ResponseInv, TransmitsEncoding, ReadsResponse

\* A call that changes nothing leaves the command as it was.
LEMMA EarlyReturnStep ==
  ASSUME IInv, NEW op, NEW rc, EarlyReturn(op, rc, FALSE), op \in {"GetRspAuths", "Complete"} => rc # "SUCCESS"
  PROVE  IInv'
  <1>1. /\ usable' = usable /\ last' = [op |-> op, rc |-> rc, out |-> <<>>]
        /\ UNCHANGED <<previousStage, nextData, cmd_header, rsp_header, authsCount, flags, tcti, want, sent, prepares>>
        /\ UNCHANGED <<cmdBuffer, cpBuffer, cpBufferUsedSize, commandCode>>
    BY DEF EarlyReturn, Returns, TypeOK, buffer
  <1>2. TypeOK'
    BY <1>1 DEF TypeOK
  <1>3. ReadsResponse'
    BY <1>1 DEF ReadsResponse
  <1>4. CommandInv' /\ FlagsInv' /\ CountInv'
    BY <1>1 DEF CommandInv, FlagsInv, CountInv
  <1>5. SentInv' /\ TransmitsEncoding'
    BY <1>1 DEF SentInv, TransmitsEncoding
  <1>6. ResponseInv'
    BY <1>1 DEF ResponseInv
  <1> QED
    BY <1>2, <1>3, <1>4, <1>5, <1>6

\* So does a call that only tells the command is lost.
LEMMA LostStep ==
  ASSUME IInv, ~usable', previousStage' \in {"INITIALIZE", "PREPARE"}, last'.op \notin {"GetRspAuths", "Complete"}, TypeOK'
  PROVE  IInv'
  BY DEF CommandInv, FlagsInv, CountInv, SentInv, ResponseInv, TransmitsEncoding, ReadsResponse

LEMMA PrepareRefusedStep == IInv /\ PrepareRefused => IInv'
  <1> SUFFICES ASSUME IInv, PrepareRefused PROVE IInv'
    OBVIOUS
  <1>1. /\ flags' = NoFlags /\ nextData' = 0 /\ previousStage \notin PrepareStages
        /\ last' = [op |-> "Prepare", rc |-> "SYS_BAD_SEQUENCE", out |-> <<>>]
        /\ UNCHANGED <<previousStage, cmd_header, rsp_header, authsCount, tcti, cmdBuffer, cpBuffer, cpBufferUsedSize,
                       commandCode, prepares, want, usable, sent>>
    BY DEF PrepareRefused, Returns, buffer, history
  <1>2. TypeOK'
    BY <1>1, SysAssumption DEF TypeOK, NoFlags
  <1>3. CommandInv' /\ CountInv' /\ SentInv' /\ TransmitsEncoding' /\ ReadsResponse'
    BY <1>1 DEF CommandInv, CountInv, SentInv, TransmitsEncoding, ReadsResponse
  <1>4. FlagsInv' /\ ResponseInv'
    BY <1>1 DEF FlagsInv, ResponseInv, NoFlags, PrepareStages
  <1> QED
    BY <1>2, <1>3, <1>4

LEMMA PrepareTornStep ==
  ASSUME NEW c \in Commands
  PROVE  IInv /\ PrepareTorn(c) => IInv'
  <1> SUFFICES ASSUME IInv, PrepareTorn(c) PROVE IInv'
    OBVIOUS
  <1>1. /\ previousStage \in PrepareStages /\ prepares < MaxPrepares /\ prepares' = prepares + 1 /\ commandCode' = c
        /\ cpBuffer' = 1 + Layout[c].handles /\ nextData' = cpBuffer' /\ flags' = NoFlags /\ usable' = FALSE
        /\ last' = [op |-> "Prepare", rc |-> "SYS_BAD_VALUE", out |-> <<>>]
        /\ cmdBuffer' = Write(SetCode(SetTag(cmdBuffer, "NO_SESSIONS"), c), 1, Cells("handle", c, Layout[c].handles))
        /\ UNCHANGED <<previousStage, cpBufferUsedSize, cmd_header, rsp_header, authsCount, tcti, want, sent>>
    BY DEF PrepareTorn, CommonPreparePrologue, Returns
  <1>2. DOMAIN cmdBuffer' = 0..MaxCmdSize - 1
    <2>1. DOMAIN SetCode(SetTag(cmdBuffer, "NO_SESSIONS"), c) = DOMAIN cmdBuffer
      BY HeaderFieldsFrame
    <2> QED
      BY <1>1, <2>1, WriteDomain DEF TypeOK
  <1>3. cpBuffer' \in 0..MaxCmdSize
    BY <1>1, LayoutType, HandlesFit, SysAssumption
  <1>4. TypeOK'
    <2>1. prepares' \in 0..MaxPrepares
      BY <1>1, SysAssumption DEF TypeOK
    <2>2. flags' \in [decrypt : BOOLEAN, encrypt : BOOLEAN, auth : BOOLEAN, null : BOOLEAN]
      BY <1>1 DEF NoFlags
    <2> QED
      BY <1>1, <1>2, <1>3, <2>1, <2>2 DEF TypeOK
  <1>5. CommandInv' /\ FlagsInv' /\ CountInv'
    BY <1>1 DEF CommandInv, FlagsInv, CountInv
  <1>6. SentInv' /\ TransmitsEncoding' /\ ReadsResponse' /\ ResponseInv'
    BY <1>1 DEF SentInv, TransmitsEncoding, ReadsResponse, ResponseInv, PrepareStages
  <1> QED
    BY <1>4, <1>5, <1>6

LEMMA PrepareStep ==
  ASSUME NEW c \in Commands, NEW size \in Layout[c].sizes
  PROVE  IInv /\ Prepare(c, size) => IInv'
  <1> SUFFICES ASSUME IInv, Prepare(c, size) PROVE IInv'
    OBVIOUS
  <1> DEFINE body == Handles(c) \o Params(c, "plain", size)
             w == [cmd |-> c, kind |-> "plain", size |-> size, auths |-> 0]
             cp == 1 + Layout[c].handles
             used == Len(body) + 1 - cp
             new == Write(cmdBuffer, 0, <<Header("NO_SESSIONS", Len(body) + 1, c)>> \o body)
  <1>1. /\ prepares < MaxPrepares /\ prepares' = prepares + 1 /\ commandCode' = c /\ cpBuffer' = cp
        /\ Len(body) + 1 <= MaxCmdSize /\ cmdBuffer' = new /\ nextData' = Len(body) + 1
        /\ cpBufferUsedSize' = used /\ previousStage' = "PREPARE"
        /\ flags' = [decrypt |-> Layout[c].decrypt, encrypt |-> Layout[c].encrypt,
                     auth |-> Layout[c].auth, null |-> Layout[c].decrypt /\ size = Null]
        /\ want' = w /\ usable' = TRUE /\ last' = [op |-> "Prepare", rc |-> "SUCCESS", out |-> <<>>]
        /\ UNCHANGED <<cmd_header, rsp_header, authsCount, tcti, sent>>
    <2>1. CommonPreparePrologue(c) /\ CommonPrepareEpilogue(c, size)
      BY DEF Prepare
    <2>2. prepares < MaxPrepares /\ prepares' = prepares + 1 /\ commandCode' = c /\ cpBuffer' = cp
      BY <2>1 DEF CommonPreparePrologue
    <2>3. /\ Len(body) + 1 <= MaxCmdSize /\ cmdBuffer' = new /\ nextData' = Len(body) + 1
          /\ cpBufferUsedSize' = nextData' - cpBuffer' /\ previousStage' = "PREPARE"
      BY <2>1, Zenon DEF CommonPrepareEpilogue, UsedSize, Handles
    <2>4. cpBufferUsedSize' = used
      BY <2>2, <2>3
    <2>5. /\ flags' = [decrypt |-> Layout[c].decrypt, encrypt |-> Layout[c].encrypt,
                       auth |-> Layout[c].auth, null |-> Layout[c].decrypt /\ size = Null]
          /\ want' = w /\ usable' = TRUE /\ last' = [op |-> "Prepare", rc |-> "SUCCESS", out |-> <<>>]
          /\ UNCHANGED <<cmd_header, rsp_header, authsCount, tcti, sent>>
      BY Zenon DEF Prepare, Returns
    <2> QED
      BY <2>2, <2>3, <2>4, <2>5, Zenon
  <1>2. size \in Nat \cup {Null} /\ DOMAIN cmdBuffer = 0..MaxCmdSize - 1
    BY LayoutType DEF TypeOK
  <1>3. /\ HasCommand(new, cp, used, w)
        /\ DOMAIN new = DOMAIN cmdBuffer /\ Len(body) \in Nat
    BY <1>1, <1>2, CommandPrepared
  <1>4. w \in Requests /\ w.cmd = c /\ w.auths = 0
    BY <1>3 DEF HasCommand
  <1> HIDE DEF body, w, cp, used, new
  <1>5. cp \in Nat \ {0} /\ used \in Nat /\ cp + used <= MaxCmdSize
    <2>1. cp \in Nat \ {0} /\ used \in Nat
      BY <1>3, ParameterArea
    <2> QED
      BY <1>3, <2>1 DEF HasCommand
  <1>6. TypeOK'
    <2>1. cp \in 0..MaxCmdSize /\ used \in 0..MaxCmdSize /\ Len(body) + 1 \in 0..MaxCmdSize
      BY SMTT(30), <1>1, <1>3, <1>5, SysAssumption
    <2>2. flags' \in [decrypt : BOOLEAN, encrypt : BOOLEAN, auth : BOOLEAN, null : BOOLEAN]
      BY <1>1, LayoutType
    <2>3. prepares' \in 0..MaxPrepares
      BY <1>1, SysAssumption DEF TypeOK
    <2>4. DOMAIN cmdBuffer' = 0..MaxCmdSize - 1
      BY <1>1, <1>2, <1>3
    <2> QED
      BY <1>1, <2>1, <2>2, <2>3, <2>4 DEF TypeOK, Stages
  <1>7. CommandInv' /\ CountInv' /\ FlagsInv'
    BY <1>1, <1>3, <1>4 DEF CommandInv, CountInv, FlagsInv
  <1>8. SentInv' /\ TransmitsEncoding' /\ ReadsResponse' /\ ResponseInv'
    BY <1>1 DEF SentInv, TransmitsEncoding, ReadsResponse, ResponseInv
  <1> QED
    BY <1>6, <1>7, <1>8

LEMMA SetCmdAuthsStep ==
  ASSUME NEW n \in 1..MaxAuths
  PROVE  IInv /\ SetCmdAuths(n) => IInv'
  <1> SUFFICES ASSUME IInv, SetCmdAuths(n) PROVE IInv'
    OBVIOUS
  <1>1. CASE EarlyReturn("SetCmdAuths", "SYS_BAD_SEQUENCE", FALSE) \/ EarlyReturn("SetCmdAuths", "SUCCESS", FALSE)
    BY <1>1, EarlyReturnStep
  <1> DEFINE size == cmdBuffer[0].size + 1 + n
             frame == UNCHANGED <<previousStage, commandCode, cpBufferUsedSize, nextData, cmd_header, rsp_header,
                                  flags, tcti, sent, prepares>>
  <1>2. ASSUME previousStage = "PREPARE", size > MaxCmdSize, cmdBuffer' = SetTag(cmdBuffer, "SESSIONS"),
               authsCount' = 0, usable' = FALSE, Returns("SetCmdAuths", "SYS_INSUFFICIENT_CONTEXT"),
               UNCHANGED <<cpBuffer, want>>, frame
        PROVE  IInv'
    <2>1. TypeOK'
      <3>1. DOMAIN cmdBuffer' = DOMAIN cmdBuffer
        BY <1>2, HeaderFieldsFrame
      <3>2. 0 \in 0..MaxAuths
        BY SysAssumption
      <3> QED
        BY <1>2, <3>1, <3>2 DEF TypeOK
    <2> QED
      BY <1>2, <2>1, LostStep DEF Returns
  <1> DEFINE moved == Write(cmdBuffer, cpBuffer + n + 1, At(cmdBuffer, cpBuffer, cpBufferUsedSize))
             filled == Write(moved, cpBuffer, AuthArea(commandCode, n))
             new == SetSize(SetTag(filled, "SESSIONS"), size)
             v == [want EXCEPT !.auths = n]
  <1>3. ASSUME previousStage = "PREPARE", usable, want.auths = 0, size <= MaxCmdSize, cmdBuffer' = new,
               cpBuffer' = cpBuffer + n + 1, authsCount' = n, want' = v,
               Returns("SetCmdAuths", "SUCCESS"), UNCHANGED usable, frame
        PROVE  IInv'
    <2>1. commandCode = want.cmd /\ HasCommand(cmdBuffer, cpBuffer, cpBufferUsedSize, want)
      BY <1>3 DEF CommandInv
    <2>2. DOMAIN cmdBuffer = 0..MaxCmdSize - 1
      BY DEF TypeOK
    <2>3. HasCommand(new, cpBuffer + n + 1, cpBufferUsedSize, v) /\ DOMAIN new = DOMAIN cmdBuffer
      <3>1. cmdBuffer[0].size + 1 + n <= MaxCmdSize
        BY <1>3
      <3>2. LET mv == Write(cmdBuffer, cpBuffer + n + 1, At(cmdBuffer, cpBuffer, cpBufferUsedSize))
                fl == Write(mv, cpBuffer, AuthArea(want.cmd, n))
                nw == SetSize(SetTag(fl, "SESSIONS"), cmdBuffer[0].size + 1 + n)
            IN  /\ HasCommand(nw, cpBuffer + n + 1, cpBufferUsedSize, [want EXCEPT !.auths = n])
                /\ DOMAIN nw = DOMAIN cmdBuffer
        BY <1>3, <2>1, <2>2, <3>1, AuthsAdded
      <3> QED
        BY <2>1, <3>2
    <2>4. v \in Requests /\ v.cmd = want.cmd /\ v.auths = n
      <3>1. want \in Requests
        BY <2>1 DEF HasCommand
      <3> QED
        BY <3>1, RequestChanged
    <2> HIDE DEF new, v
    <2>5. TypeOK'
      <3>1. cpBuffer + n + 1 \in Nat /\ cpBufferUsedSize \in Nat /\ cpBuffer + n + 1 + cpBufferUsedSize <= MaxCmdSize
        <4>1. cpBuffer + n + 1 \in Nat /\ cpBufferUsedSize \in Nat
          BY <2>3, ParameterArea
        <4> QED
          BY <2>3, <4>1 DEF HasCommand
      <3>2. cpBuffer + n + 1 \in 0..MaxCmdSize /\ n \in 0..MaxAuths
        BY <3>1, SysAssumption
      <3> QED
        BY <1>3, <2>2, <2>3, <3>2 DEF TypeOK
    <2>6. CommandInv' /\ CountInv' /\ FlagsInv'
      BY <1>3, <2>1, <2>3, <2>4 DEF CommandInv, CountInv, FlagsInv
    <2>7. SentInv' /\ TransmitsEncoding' /\ ReadsResponse' /\ ResponseInv'
      BY <1>3 DEF SentInv, TransmitsEncoding, ReadsResponse, ResponseInv, Returns
    <2> QED
      BY <2>5, <2>6, <2>7
  <1> HIDE DEF IInv
  <1> QED
    BY <1>1, <1>2, <1>3, Zenon DEF SetCmdAuths

LEMMA SetDecryptParamStep ==
  ASSUME ~NullParams, NEW size \in ParamSizes
  PROVE  IInv /\ SetDecryptParam(size) => IInv'
  <1> SUFFICES ASSUME IInv, SetDecryptParam(size) PROVE IInv'
    OBVIOUS
  <1> DEFINE insert == DecryptParamSize = 0 /\ flags.null
             fail == CASE previousStage # "PREPARE" -> "SYS_BAD_SEQUENCE"
                       [] ~flags.decrypt -> "SYS_NO_DECRYPT_PARAM"
                       [] cmdBuffer[0].size + size > MaxCmdSize -> "SYS_INSUFFICIENT_CONTEXT"
                       [] insert /\ InsertOffset(size) + cpBufferUsedSize - 1 > MaxCmdSize ->
                             "SYS_INSUFFICIENT_CONTEXT"
                       [] ~insert /\ DecryptParamSize # size -> "SYS_BAD_SIZE"
                       [] OTHER -> "none"
             v == [want EXCEPT !.kind = "cipher", !.size = size]
  <1>1. CASE EarlyReturn("SetDecryptParam", fail, FALSE)
    <2> HIDE DEF fail
    <2> QED
      BY <1>1, EarlyReturnStep
  <1>2. CASE ~EarlyReturn("SetDecryptParam", fail, FALSE)
    <2>1. /\ fail = "none" /\ usable
          /\ insert => NullParams \/ size = cpBufferUsedSize
          /\ \/ insert /\ InsertParam(size)
             \/ /\ ~insert
                /\ cmdBuffer' = Write(cmdBuffer, cpBuffer + 1, Cells("cipher", commandCode, size))
                /\ UNCHANGED cpBufferUsedSize
          /\ want' = v
          /\ last' = [op |-> "SetDecryptParam", rc |-> "SUCCESS", out |-> <<>>]
          /\ UNCHANGED <<previousStage, commandCode, cpBuffer, nextData, cmd_header, rsp_header, authsCount,
                         flags, tcti, usable, sent, prepares>>
      BY <1>2, Zenon DEF SetDecryptParam, Returns
    <2>2. /\ previousStage = "PREPARE" /\ flags.decrypt /\ ~(cmdBuffer[0].size + size > MaxCmdSize)
          /\ insert \/ DecryptParamSize = size
      BY <2>1
    <2> HIDE DEF fail
    <2>3. commandCode = want.cmd /\ HasCommand(cmdBuffer, cpBuffer, cpBufferUsedSize, want)
      BY <2>1, <2>2 DEF CommandInv
    <2>4. DOMAIN cmdBuffer = 0..MaxCmdSize - 1 /\ Layout[want.cmd].decrypt /\ size \in Nat \ {0}
      BY <2>1, <2>2, SysAssumption DEF TypeOK, FlagsInv
    <2>5. want \in Requests
      BY <2>3 DEF HasCommand
    <2>6. v \in Requests /\ v.cmd = want.cmd /\ v.auths = want.auths
      <3>1. size \in Nat
        BY <2>4
      <3> QED
        BY <2>5, <3>1, RequestChanged
    <2>7. HasCommand(cmdBuffer', cpBuffer, cpBufferUsedSize', v) /\ DOMAIN cmdBuffer' = DOMAIN cmdBuffer
      <3>1. CASE insert /\ InsertParam(size)
        <4>1. cmdBuffer[cpBuffer].n = 0 /\ size = cpBufferUsedSize
          BY <2>1, <3>1 DEF DecryptParamSize
        <4>2. cmdBuffer[0].size + size <= MaxCmdSize
          <5>1. cpBuffer \in Nat \ {0} /\ cpBufferUsedSize \in Nat
            BY <2>3, ParameterArea
          <5>2. cmdBuffer[0].size = cpBuffer + cpBufferUsedSize
            BY <2>3 DEF HasCommand, Header
          <5> QED
            BY <2>2, <2>4, <5>1, <5>2, SysAssumption
        <4>3. LET mv == Write(cmdBuffer, cpBuffer + cpBufferUsedSize + 1,
                              At(cmdBuffer, cpBuffer + 1, cpBufferUsedSize - 1))
                  fl == Write(mv, cpBuffer, <<Cell("size", want.cmd, size)>> \o Cells("cipher", want.cmd, size))
                  nw == SetSize(fl, cmdBuffer[0].size + size)
              IN  HasCommand(nw, cpBuffer, cpBufferUsedSize + size, v) /\ DOMAIN nw = DOMAIN cmdBuffer
          BY <2>3, <2>4, <4>1, <4>2, ParamInserted
        <4> QED
          BY <2>3, <3>1, <4>3 DEF InsertParam, InsertOffset
      <3>2. CASE ~insert
        <4>1. cmdBuffer[cpBuffer].n = size
          BY <2>2, <3>2 DEF DecryptParamSize
        <4>2. LET nw == Write(cmdBuffer, cpBuffer + 1, Cells("cipher", want.cmd, size))
              IN  HasCommand(nw, cpBuffer, cpBufferUsedSize, v) /\ DOMAIN nw = DOMAIN cmdBuffer
          BY <2>3, <2>4, <4>1, ParamReplaced
        <4> QED
          BY <2>1, <2>3, <3>2, <4>2
      <3> QED
        BY <2>1, <3>1, <3>2
    <2> HIDE DEF v, insert
    <2>8. TypeOK'
      <3>1. cpBuffer \in Nat /\ cpBufferUsedSize' \in Nat /\ cpBuffer + cpBufferUsedSize' <= MaxCmdSize
        <4>1. cpBuffer \in Nat /\ cpBufferUsedSize' \in Nat
          BY <2>7, ParameterArea
        <4> QED
          BY <2>7, <4>1 DEF HasCommand
      <3>2. cpBufferUsedSize' \in 0..MaxCmdSize
        <4> DEFINE u == cpBufferUsedSize'
                   c == cpBuffer
        <4>1. c \in Nat /\ u \in Nat /\ c + u <= MaxCmdSize
          BY <3>1
        <4> HIDE DEF u, c
        <4>2. u \in 0..MaxCmdSize
          BY <4>1, SysAssumption
        <4> QED
          BY <4>2 DEF u
      <3> QED
        BY <2>1, <2>4, <2>7, <3>2 DEF TypeOK
    <2>9. CommandInv' /\ CountInv' /\ FlagsInv'
      BY <2>1, <2>3, <2>6, <2>7 DEF CommandInv, CountInv, FlagsInv
    <2>10. SentInv' /\ TransmitsEncoding' /\ ReadsResponse' /\ ResponseInv'
      BY <2>1, <2>2 DEF SentInv, TransmitsEncoding, ReadsResponse, ResponseInv
    <2> QED
      BY <2>8, <2>9, <2>10
  <1> QED
    BY <1>1, <1>2

LEMMA ExecuteAsyncStep == IInv /\ ExecuteAsync => IInv'
  <1> SUFFICES ASSUME IInv, ExecuteAsync PROVE IInv'
    OBVIOUS
  <1>1. CASE \E rc \in {"SYS_BAD_SEQUENCE", "TCTI_BAD_SEQUENCE", "TCTI_IO_ERROR"} : EarlyReturn("ExecuteAsync", rc, FALSE)
    BY <1>1, EarlyReturnStep
  <1>2. ASSUME previousStage = "PREPARE", usable, sent' = At(cmdBuffer, 0, cmdBuffer[0].size), tcti' = "RECEIVE",
               cmd_header' = cmdBuffer[0], previousStage' = "SEND_COMMAND", Returns("ExecuteAsync", "SUCCESS"),
               UNCHANGED <<buffer, nextData, rsp_header, authsCount, flags, want, usable, prepares>>
        PROVE  IInv'
    <2>1. UNCHANGED <<cmdBuffer, cpBuffer, cpBufferUsedSize, commandCode>>
      BY <1>2 DEF buffer
    <2>2. commandCode = want.cmd /\ HasCommand(cmdBuffer, cpBuffer, cpBufferUsedSize, want)
      BY <1>2 DEF CommandInv
    <2>3. sent' = Encoding(want)
      BY <1>2, <2>2, CommandEncoded
    <2>4. TypeOK'
      BY <1>2, <2>1 DEF TypeOK, Stages, TctiStates
    <2>5. CommandInv' /\ CountInv' /\ FlagsInv'
      BY <1>2, <2>1 DEF CommandInv, CountInv, FlagsInv
    <2>6. SentInv' /\ TransmitsEncoding' /\ ReadsResponse' /\ ResponseInv'
      BY <1>2, <2>1, <2>3 DEF SentInv, TransmitsEncoding, ReadsResponse, ResponseInv, Returns
    <2> QED
      BY <2>4, <2>5, <2>6
  <1> HIDE DEF IInv
  <1> QED
    BY <1>1, <1>2 DEF ExecuteAsync

\* A buffer whose header is restored holds what it held.
LEMMA HoldsSame ==
  ASSUME NEW S, NEW s \in Seq(S), NEW buf, NEW new, NEW off \in Nat, off + Len(s) <= MaxCmdSize,
         \A i \in 0..MaxCmdSize - 1 : new[i] = buf[i], Holds(buf, off, s)
  PROVE  Holds(new, off, s)
  <1> SUFFICES ASSUME NEW i \in 1..Len(s) PROVE new[off + i - 1] = s[i]
    BY DEF Holds
  <1>1. Len(s) \in Nat
    OBVIOUS
  <1>2. off + i - 1 \in 0..MaxCmdSize - 1
    BY <1>1, SysAssumption
  <1> QED
    BY <1>2 DEF Holds

LEMMA CommandSame ==
  ASSUME NEW buf, NEW new, NEW cp, NEW used, NEW w, \A i \in 0..MaxCmdSize - 1 : new[i] = buf[i],
         HasCommand(buf, cp, used, w)
  PROVE  HasCommand(new, cp, used, w)
  <1> DEFINE h == Handles(w.cmd)
             a == AuthArea(w.cmd, w.auths)
             p == Params(w.cmd, w.kind, w.size)
             lh == Len(h)
             la == Len(a)
             lp == Len(p)
  <1>0. w \in Requests
    BY DEF HasCommand
  <1>1. /\ h \in Seq(Items) /\ a \in Seq(Items) /\ p \in Seq(Items) /\ lh = Layout[w.cmd].handles
    BY <1>0, CommandLengths
  <1>2. /\ cp = 1 + lh + la /\ used = lp /\ cp + used <= MaxCmdSize
        /\ Holds(buf, 1, h) /\ Holds(buf, 1 + lh, a) /\ Holds(buf, cp, p)
    BY <1>1 DEF HasCommand
  <1> HIDE DEF h, a, p
  <1>3. lh \in Nat /\ la \in Nat /\ lp \in Nat
    BY <1>1
  <1> HIDE DEF lh, la, lp
  <1>4. /\ 1 \in Nat /\ 1 + lh \in Nat /\ cp \in Nat
        /\ 1 + lh <= MaxCmdSize /\ 1 + lh + la <= MaxCmdSize /\ cp + lp <= MaxCmdSize
    BY <1>2, <1>3, SysAssumption
  <1>5. Holds(new, 1, h)
    BY <1>1, <1>2, <1>4, HoldsSame DEF lh
  <1>6. Holds(new, 1 + lh, a)
    BY <1>1, <1>2, <1>4, HoldsSame DEF la
  <1>7. Holds(new, cp, p)
    BY <1>1, <1>2, <1>4, HoldsSame DEF lp
  <1>8. new[0] = buf[0]
    BY ZeroInBuffer
  <1> QED
    BY <1>1, <1>5, <1>6, <1>7, <1>8 DEF HasCommand, h, a, p, lh

\* After a TPM error the command is there again.
LEMMA TpmErrorStep ==
  ASSUME IInv, previousStage = "SEND_COMMAND", tcti = "RECEIVE", TpmError
  PROVE  IInv'
  <1>1. usable /\ cmd_header = cmdBuffer[0] /\ commandCode = want.cmd
        /\ HasCommand(cmdBuffer, cpBuffer, cpBufferUsedSize, want)
    BY DEF SentInv, CommandInv
  <1> DEFINE new == [cmdBuffer EXCEPT ![0] = cmd_header]
  <1>2. /\ tcti' = "TRANSMIT" /\ cmdBuffer' = new /\ nextData' = 1
        /\ rsp_header' = [tag |-> "NO_SESSIONS", rc |-> "TPM_ERROR"] /\ previousStage' = "PREPARE" /\ usable' = usable
        /\ last' = [op |-> "ExecuteFinish", rc |-> "TPM_ERROR", out |-> <<>>]
        /\ UNCHANGED <<commandCode, cpBuffer, cpBufferUsedSize, cmd_header, authsCount, flags, want, sent, prepares>>
    BY DEF TpmError, Received, Returns, TypeOK
  <1>3. DOMAIN cmdBuffer = 0..MaxCmdSize - 1
    BY DEF TypeOK
  <1>4. DOMAIN new = 0..MaxCmdSize - 1 /\ \A i \in 0..MaxCmdSize - 1 : new[i] = cmdBuffer[i]
    BY <1>1, <1>3
  <1> HIDE DEF new
  <1>5. HasCommand(new, cpBuffer, cpBufferUsedSize, want)
    BY <1>1, <1>4, CommandSame
  <1>6. TypeOK'
    <2>1. 1 \in 0..MaxCmdSize
      BY SysAssumption
    <2> QED
      BY <1>2, <1>4, <2>1 DEF TypeOK, Stages, TctiStates
  <1>7. CommandInv' /\ CountInv' /\ FlagsInv'
    BY <1>1, <1>2, <1>5 DEF CommandInv, CountInv, FlagsInv
  <1>8. SentInv' /\ TransmitsEncoding' /\ ReadsResponse' /\ ResponseInv'
    BY <1>2 DEF SentInv, TransmitsEncoding, ReadsResponse, ResponseInv
  <1> QED
    BY <1>6, <1>7, <1>8

\* A response nothing can be read from.
LEMMA BadResponseStep ==
  ASSUME IInv, previousStage = "SEND_COMMAND", NEW st \in {"PREPARE", "RECEIVE_RESPONSE", "SEND_COMMAND"}, NEW tag,
         NEW size, NEW code, NEW rc, NEW rtag, rc # "SUCCESS",
         st = "RECEIVE_RESPONSE" => tag = "NO_SESSIONS",
         Received(st, Write(cmdBuffer, 0, <<Header(tag, size, code)>>), rtag, rc, FALSE)
  PROVE  IInv'
  <1> DEFINE x == Header(tag, size, code)
             new == Write(cmdBuffer, 0, <<x>>)
  <1>1. /\ tcti' = "TRANSMIT" /\ cmdBuffer' = new /\ nextData' = 1
        /\ rsp_header' = [tag |-> rtag, rc |-> rc] /\ previousStage' = st /\ usable' = FALSE
        /\ last' = [op |-> "ExecuteFinish", rc |-> rc, out |-> <<>>]
        /\ UNCHANGED <<commandCode, cpBuffer, cpBufferUsedSize, cmd_header, authsCount, flags, want, sent, prepares>>
    BY DEF Received, Returns
  <1>2. DOMAIN cmdBuffer = 0..MaxCmdSize - 1
    BY DEF TypeOK
  <1>3. DOMAIN new = 0..MaxCmdSize - 1
    BY <1>2, WriteDomain
  <1>4. new[0] = x
    <2> HIDE DEF x
    <2>1. 0 - 0 + 1 \in 1..Len(<<x>>) /\ <<x>>[0 - 0 + 1] = x
      OBVIOUS
    <2> QED
      BY <1>2, <2>1, ZeroInBuffer DEF Write
  <1>5. new[0].tag = tag
    BY <1>4 DEF Header
  <1> HIDE DEF new, x
  <1>6. TypeOK'
    <2>1. 1 \in 0..MaxCmdSize
      BY SysAssumption
    <2> QED
      BY <1>1, <1>3, <2>1 DEF TypeOK, Stages, TctiStates
  <1>7. CommandInv' /\ CountInv' /\ FlagsInv'
    BY <1>1 DEF CommandInv, CountInv, FlagsInv
  <1>8. SentInv' /\ TransmitsEncoding' /\ ReadsResponse' /\ ResponseInv'
    BY <1>1, <1>5 DEF SentInv, TransmitsEncoding, ReadsResponse, ResponseInv
  <1> QED
    BY <1>6, <1>7, <1>8

LEMMA TpmSuccessStep ==
  ASSUME IInv, previousStage = "SEND_COMMAND", tcti = "RECEIVE", TpmSuccess
  PROVE  IInv'
  <1>1. usable /\ commandCode = want.cmd /\ want \in Requests /\ DOMAIN cmdBuffer = 0..MaxCmdSize - 1
    BY DEF SentInv, CommandInv, CountInv, TypeOK
  <1> DEFINE new == Write(cmdBuffer, 0, Response(want))
  <1>2. /\ Len(Response(want)) <= MaxCmdSize
        /\ tcti' = "TRANSMIT" /\ cmdBuffer' = new /\ nextData' = 1
        /\ rsp_header' = [tag |-> Response(want)[1].tag, rc |-> "SUCCESS"]
        /\ previousStage' = "RECEIVE_RESPONSE" /\ usable' = usable
        /\ last' = [op |-> "ExecuteFinish", rc |-> "SUCCESS", out |-> <<>>]
        /\ UNCHANGED <<commandCode, cpBuffer, cpBufferUsedSize, cmd_header, authsCount, flags, want, sent, prepares>>
    BY DEF TpmSuccess, Received, Returns, TypeOK
  <1>3. /\ HasResponse(new, want, "cipher") /\ DOMAIN new = DOMAIN cmdBuffer
        /\ Response(want)[1].tag = Tag(want.auths)
    BY <1>1, <1>2, ResponseReceived
  <1> HIDE DEF new
  <1>4. TypeOK'
    <2>1. 1 \in 0..MaxCmdSize
      BY SysAssumption
    <2> QED
      BY <1>1, <1>2, <1>3, <2>1 DEF TypeOK, Stages, TctiStates
  <1>5. CommandInv' /\ CountInv' /\ FlagsInv'
    BY <1>2 DEF CommandInv, CountInv, FlagsInv
  <1>6. SentInv' /\ TransmitsEncoding' /\ ReadsResponse'
    BY <1>2 DEF SentInv, TransmitsEncoding, ReadsResponse
  <1>7. ResponseInv'
    BY <1>1, <1>2, <1>3 DEF ResponseInv
  <1> QED
    BY <1>4, <1>5, <1>6, <1>7

LEMMA ExecuteFinishStep == IInv /\ ExecuteFinish => IInv'
  <1> SUFFICES ASSUME IInv, ExecuteFinish PROVE IInv'
    OBVIOUS
  <1>1. CASE \E rc \in {"SYS_BAD_SEQUENCE", "TCTI_BAD_SEQUENCE", "TCTI_TRY_AGAIN"} :
                EarlyReturn("ExecuteFinish", rc, FALSE)
    BY <1>1, EarlyReturnStep
  <1>2. ASSUME previousStage = "SEND_COMMAND", Returns("ExecuteFinish", "TCTI_IO_ERROR"), tcti' = "TRANSMIT",
               usable' = FALSE,
               UNCHANGED <<previousStage, nextData, cmd_header, rsp_header, authsCount, flags, buffer, want, sent, prepares>>
        PROVE  IInv'
    <2>1. UNCHANGED <<cmdBuffer, cpBuffer, cpBufferUsedSize, commandCode>>
      BY <1>2 DEF buffer
    <2>2. TypeOK'
      BY <1>2, <2>1 DEF TypeOK, TctiStates
    <2>3. CommandInv' /\ CountInv' /\ FlagsInv'
      BY <1>2 DEF CommandInv, CountInv, FlagsInv
    <2>4. SentInv' /\ TransmitsEncoding' /\ ReadsResponse' /\ ResponseInv'
      BY <1>2 DEF SentInv, TransmitsEncoding, ReadsResponse, ResponseInv, Returns
    <2> QED
      BY <2>2, <2>3, <2>4
  <1>3. CASE \E rc \in {"SYS_INSUFFICIENT_RESPONSE", "SYS_INSUFFICIENT_CONTEXT"} : BadResponseSize(rc)
    <2>1. /\ previousStage' = "PREPARE" /\ usable' = FALSE /\ last'.op = "ExecuteFinish"
          /\ UNCHANGED <<nextData, cmd_header, rsp_header, authsCount, flags, tcti, want, sent, prepares>>
          /\ UNCHANGED <<cmdBuffer, cpBuffer, cpBufferUsedSize, commandCode>>
      BY <1>3 DEF BadResponseSize, Returns, buffer
    <2>2. TypeOK'
      BY <2>1 DEF TypeOK, Stages
    <2> QED
      BY <2>1, <2>2, LostStep
  <1>4. ASSUME previousStage = "SEND_COMMAND",
               Received("SEND_COMMAND", Write(cmdBuffer, 0, <<Header("other", 1, "SUCCESS")>>),
                        "other", "SYS_MALFORMED_RESPONSE", FALSE)
        PROVE  IInv'
    BY <1>4, BadResponseStep
  <1>5. ASSUME previousStage = "SEND_COMMAND",
               Received("PREPARE", Write(cmdBuffer, 0, <<Header("NO_SESSIONS", 0, "SUCCESS")>>),
                        "NO_SESSIONS", "SYS_INSUFFICIENT_RESPONSE", FALSE)
        PROVE  IInv'
    BY <1>5, BadResponseStep
  <1>6. ASSUME previousStage = "SEND_COMMAND", TpmInitialize PROVE IInv'
    BY <1>6, BadResponseStep DEF TpmInitialize
  <1>7. ASSUME previousStage = "SEND_COMMAND", receive_checks(tcti), TpmError PROVE IInv'
    BY <1>7, TpmErrorStep DEF receive_checks
  <1>8. ASSUME previousStage = "SEND_COMMAND", receive_checks(tcti), TpmSuccess PROVE IInv'
    BY <1>8, TpmSuccessStep DEF receive_checks
  <1> HIDE DEF IInv
  <1>9. ASSUME previousStage = "SEND_COMMAND", MalformedResponse PROVE IInv'
    BY <1>3, <1>4, <1>5, <1>9 DEF MalformedResponse
  <1>10. ASSUME previousStage = "SEND_COMMAND", ReceiveFails PROVE IInv'
    BY <1>1, <1>2, <1>10 DEF ReceiveFails
  <1> QED
    BY <1>1, <1>6, <1>7, <1>8, <1>9, <1>10 DEF ExecuteFinish

\* While a response can be read it is in the buffer.
LEMMA ResponseThere ==
  ASSUME IInv, previousStage = "RECEIVE_RESPONSE",
         usable \/ (flags.auth /\ rsp_header.rc = "SUCCESS") \/ (flags.encrypt /\ cmdBuffer[0].tag # "NO_SESSIONS")
  PROVE  /\ usable /\ rsp_header = [tag |-> Tag(want.auths), rc |-> "SUCCESS"] /\ commandCode = want.cmd
         /\ \E k \in {"cipher", "clear"} : HasResponse(cmdBuffer, want, k)
  BY DEF ResponseInv, NoFlags

LEMMA GetRspAuthsStep == IInv /\ GetRspAuths => IInv'
  <1> SUFFICES ASSUME IInv, GetRspAuths PROVE IInv'
    OBVIOUS
  <1>1. CASE EarlyReturn("GetRspAuths", "SYS_BAD_SEQUENCE", FALSE)
    BY <1>1, EarlyReturnStep
  <1> DEFINE paramsize == 1 + Layout[commandCode].rspHandles
             offset == paramsize + 1 + cmdBuffer[paramsize].n
             out == At(cmdBuffer, offset, authsCount)
  <1>2. ASSUME previousStage = "RECEIVE_RESPONSE", rsp_header = [tag |-> "SESSIONS", rc |-> "SUCCESS"], flags.auth,
               Delivers("GetRspAuths", out),
               UNCHANGED <<previousStage, nextData, cmd_header, rsp_header, authsCount, flags, tcti, buffer, history>>
        PROVE  IInv'
    <2>1. /\ last' = [op |-> "GetRspAuths", rc |-> "SUCCESS", out |-> out]
          /\ UNCHANGED <<previousStage, nextData, cmd_header, rsp_header, authsCount, flags, tcti, prepares, want,
                         usable, sent>>
          /\ UNCHANGED <<cmdBuffer, cpBuffer, cpBufferUsedSize, commandCode>>
      BY <1>2 DEF Delivers, buffer, history
    <2>2. /\ usable /\ rsp_header = [tag |-> Tag(want.auths), rc |-> "SUCCESS"] /\ commandCode = want.cmd
          /\ \E k \in {"cipher", "clear"} : HasResponse(cmdBuffer, want, k)
      BY <1>2, ResponseThere
    <2>3. want.auths # 0 /\ authsCount = want.auths
      BY <1>2, <2>2 DEF Tag, CountInv
    <2>4. PICK k \in {"cipher", "clear"} : HasResponse(cmdBuffer, want, k)
      BY <2>2
    <2>5. LET off == RspOffset(want.cmd, want.auths)
          IN  /\ off \in Nat \ {0}
              /\ At(cmdBuffer, off + cmdBuffer[off - 1].n, want.auths) = Cells("rspauth", want.cmd, want.auths)
      BY <2>3, <2>4, ResponseRead
    <2>6. RspOffset(want.cmd, want.auths) = paramsize + 1 /\ paramsize \in Nat
      <3>1. want \in Requests
        BY <2>4 DEF HasResponse
      <3>2. Layout[want.cmd].rspHandles \in Nat
        BY <3>1, ResponseLengths
      <3> QED
        BY <2>2, <2>3, <3>2 DEF RspOffset
    <2>7. out = Cells("rspauth", want.cmd, want.auths)
      <3> DEFINE off == RspOffset(want.cmd, want.auths)
                 m == cmdBuffer[off - 1].n
                 q == paramsize + 1
      <3>1. At(cmdBuffer, off + m, want.auths) = Cells("rspauth", want.cmd, want.auths)
        BY <2>5
      <3>2. off = q
        BY <2>6
      <3>3. off - 1 = paramsize
        <4>1. paramsize \in Nat /\ off = paramsize + 1
          BY <2>6
        <4> HIDE DEF off, paramsize
        <4> QED
          BY <4>1
      <3>4. m = cmdBuffer[paramsize].n
        BY <3>3
      <3>5. out = At(cmdBuffer, q + cmdBuffer[paramsize].n, authsCount)
        OBVIOUS
      <3> HIDE DEF off, m, q, out, paramsize
      <3> QED
        BY <2>3, <3>1, <3>2, <3>4, <3>5
    <2> HIDE DEF out
    <2>8. TypeOK'
      BY <2>1 DEF TypeOK
    <2>9. CommandInv' /\ CountInv' /\ FlagsInv'
      BY <2>1 DEF CommandInv, CountInv, FlagsInv
    <2>10. SentInv' /\ TransmitsEncoding'
      BY <2>1 DEF SentInv, TransmitsEncoding
    <2>11. ResponseInv'
      BY <2>1 DEF ResponseInv
    <2>12. ReadsResponse'
      BY <2>1, <2>7 DEF ReadsResponse
    <2> QED
      BY <2>8, <2>9, <2>10, <2>11, <2>12
  <1> HIDE DEF IInv
  <1> QED
    BY <1>1, <1>2, Zenon DEF GetRspAuths

LEMMA SetEncryptParamStep == IInv /\ SetEncryptParam => IInv'
  <1> SUFFICES ASSUME IInv, SetEncryptParam PROVE IInv'
    OBVIOUS
  <1> DEFINE offset == 1 + Layout[commandCode].rspHandles + 1
             fail == CASE ~flags.encrypt -> "SYS_NO_ENCRYPT_PARAM"
                       [] previousStage # "RECEIVE_RESPONSE" -> "SYS_BAD_SEQUENCE"
                       [] cmdBuffer[0].tag = "NO_SESSIONS" -> "SYS_NO_ENCRYPT_PARAM"
                       [] OTHER -> "none"
             new == Write(cmdBuffer, offset + 1, Cells("clear", commandCode, cmdBuffer[offset].n))
  <1>1. CASE EarlyReturn("SetEncryptParam", fail, FALSE)
    <2> HIDE DEF fail
    <2> QED
      BY <1>1, EarlyReturnStep
  <1>2. CASE ~EarlyReturn("SetEncryptParam", fail, FALSE)
    <2>1. /\ fail = "none" /\ cmdBuffer' = new
          /\ last' = [op |-> "SetEncryptParam", rc |-> "SUCCESS", out |-> <<>>]
          /\ UNCHANGED <<previousStage, commandCode, cpBuffer, cpBufferUsedSize, nextData, cmd_header,
                         rsp_header, authsCount, flags, tcti>>
          /\ UNCHANGED <<prepares, want, usable, sent>>
      BY <1>2, Zenon DEF SetEncryptParam, Returns, history
    <2>2. flags.encrypt /\ previousStage = "RECEIVE_RESPONSE" /\ cmdBuffer[0].tag # "NO_SESSIONS"
      BY <2>1
    <2>3. /\ usable /\ rsp_header = [tag |-> Tag(want.auths), rc |-> "SUCCESS"] /\ commandCode = want.cmd
          /\ \E k \in {"cipher", "clear"} : HasResponse(cmdBuffer, want, k)
      BY <2>2, ResponseThere
    <2>4. PICK k \in {"cipher", "clear"} : HasResponse(cmdBuffer, want, k)
      BY <2>3
    <2>5. want.auths # 0 /\ Layout[want.cmd].encrypt /\ DOMAIN cmdBuffer = 0..MaxCmdSize - 1
      BY <2>2, <2>3, <2>4 DEF HasResponse, Tag, FlagsInv, TypeOK
    <2>6. HasResponse(new, want, "clear") /\ DOMAIN new = DOMAIN cmdBuffer
      <3>1. LET off == 1 + Layout[want.cmd].rspHandles + 1
                nw == Write(cmdBuffer, off + 1, Cells("clear", want.cmd, cmdBuffer[off].n))
            IN  HasResponse(nw, want, "clear") /\ DOMAIN nw = DOMAIN cmdBuffer
        BY <2>4, <2>5, ResponseDecrypted
      <3> QED
        BY <2>3, <3>1
    <2> HIDE DEF new, fail
    <2>7. TypeOK'
      BY <2>1, <2>6 DEF TypeOK
    <2>8. CommandInv' /\ CountInv' /\ FlagsInv'
      BY <2>1, <2>2 DEF CommandInv, CountInv, FlagsInv
    <2>9. SentInv' /\ TransmitsEncoding' /\ ReadsResponse'
      BY <2>1, <2>2 DEF SentInv, TransmitsEncoding, ReadsResponse
    <2>10. ResponseInv'
      BY <2>1, <2>3, <2>6 DEF ResponseInv
    <2> QED
      BY <2>7, <2>8, <2>9, <2>10
  <1> QED
    BY <1>1, <1>2

LEMMA CompleteStep == IInv /\ Complete => IInv'
  <1> SUFFICES ASSUME IInv, Complete PROVE IInv'
    OBVIOUS
  <1>1. CASE EarlyReturn("Complete", "SYS_BAD_SEQUENCE", FALSE)
    BY <1>1, EarlyReturnStep
  <1> DEFINE handles == Layout[commandCode].rspHandles
             len == Len(RspParams(commandCode, "cipher"))
             out == At(cmdBuffer, nextData, handles) \o At(cmdBuffer, RspParamsOffset, len)
  <1>2. ASSUME previousStage = "RECEIVE_RESPONSE", usable, nextData = 1, Delivers("Complete", out),
               nextData' = RspParamsOffset + len,
               UNCHANGED <<previousStage, cmd_header, rsp_header, authsCount, flags, tcti, buffer, history>>
        PROVE  IInv'
    <2>1. /\ last' = [op |-> "Complete", rc |-> "SUCCESS", out |-> out]
          /\ UNCHANGED <<previousStage, cmd_header, rsp_header, authsCount, flags, tcti, prepares, want,
                         usable, sent>>
          /\ UNCHANGED <<cmdBuffer, cpBuffer, cpBufferUsedSize, commandCode>>
      BY <1>2 DEF Delivers, buffer, history
    <2>2. commandCode = want.cmd /\ \E k \in {"cipher", "clear"} : HasResponse(cmdBuffer, want, k)
      BY <1>2, ResponseThere
    <2>3. PICK k \in {"cipher", "clear"} : HasResponse(cmdBuffer, want, k)
      BY <2>2
    <2>4. LET off == RspOffset(want.cmd, want.auths)
              params == RspParams(want.cmd, k)
          IN  /\ At(cmdBuffer, 1, Layout[want.cmd].rspHandles) = RspHandles(want.cmd)
              /\ At(cmdBuffer, off, Len(params)) = params
              /\ Len(params) = Len(RspParams(want.cmd, "cipher"))
              /\ off \in Nat \ {0} /\ Len(params) \in Nat /\ off + Len(params) <= MaxCmdSize
      BY <2>3, ResponseRead
    <2>5. RspOffset(want.cmd, want.auths) = RspParamsOffset
      BY <2>2, <2>3 DEF RspOffset, RspParamsOffset, HasResponse, Tag
    <2>6. out = Cells("rsphandle", want.cmd, Layout[want.cmd].rspHandles) \o RspParams(want.cmd, k)
      BY <1>2, <2>2, <2>4, <2>5 DEF RspHandles
    <2>7. nextData' \in 0..MaxCmdSize
      <3> DEFINE o == RspParamsOffset
                 l == len
      <3>1. o \in Nat /\ l \in Nat /\ o + l <= MaxCmdSize /\ nextData' = o + l
        BY <1>2, <2>2, <2>4, <2>5
      <3> HIDE DEF o, l
      <3> QED
        BY <3>1, SysAssumption
    <2> HIDE DEF out
    <2>8. TypeOK'
      BY <2>1, <2>7 DEF TypeOK
    <2>9. CommandInv' /\ CountInv' /\ FlagsInv'
      BY <2>1 DEF CommandInv, CountInv, FlagsInv
    <2>10. SentInv' /\ TransmitsEncoding'
      BY <2>1 DEF SentInv, TransmitsEncoding
    <2>11. ResponseInv'
      BY <2>1 DEF ResponseInv
    <2>12. ReadsResponse'
      BY <2>1, <2>6 DEF ReadsResponse
    <2> QED
      BY <2>8, <2>9, <2>10, <2>11, <2>12
  <1> HIDE DEF IInv
  <1> QED
    BY <1>1, <1>2, Zenon DEF Complete

LEMMA AbortStep == IInv /\ Abort => IInv'
  <1> SUFFICES ASSUME IInv, Abort PROVE IInv'
    OBVIOUS
  <1>1. /\ previousStage' = "INITIALIZE" /\ usable' = FALSE /\ last'.op = "Abort"
        /\ UNCHANGED <<nextData, cmd_header, rsp_header, authsCount, flags, tcti, want, sent, prepares>>
        /\ UNCHANGED <<cmdBuffer, cpBuffer, cpBufferUsedSize, commandCode>>
    BY DEF Abort, Returns, buffer
  <1>2. TypeOK'
    BY <1>1 DEF TypeOK, Stages
  <1> QED
    BY <1>1, <1>2, LostStep

LEMMA StutterStep == IInv /\ UNCHANGED vars => IInv'
  <1> SUFFICES ASSUME IInv, UNCHANGED vars PROVE IInv'
    OBVIOUS
  <1>1. TypeOK'
    BY DEF vars, TypeOK
  <1>2. CommandInv' /\ CountInv' /\ FlagsInv'
    BY DEF vars, CommandInv, CountInv, FlagsInv
  <1>3. SentInv' /\ TransmitsEncoding' /\ ReadsResponse'
    BY DEF vars, SentInv, TransmitsEncoding, ReadsResponse
  <1>4. ResponseInv'
    BY DEF vars, ResponseInv
  <1> QED
    BY <1>1, <1>2, <1>3, <1>4

LEMMA NextIInv == ~NullParams /\ IInv /\ [Next]_vars => IInv'
  <1> HIDE DEF IInv
  <1> SUFFICES ASSUME ~NullParams, IInv, [Next]_vars PROVE IInv'
    OBVIOUS
  <1>1. CASE PrepareRefused
    BY <1>1, PrepareRefusedStep
  <1>2. ASSUME NEW c \in Commands, PrepareTorn(c) PROVE IInv'
    BY <1>2, PrepareTornStep
  <1>3. ASSUME NEW c \in Commands, NEW size \in Layout[c].sizes, Prepare(c, size) PROVE IInv'
    BY <1>3, PrepareStep
  <1>4. ASSUME NEW n \in 1..MaxAuths, SetCmdAuths(n) PROVE IInv'
    BY <1>4, SetCmdAuthsStep
  <1>5. ASSUME NEW size \in ParamSizes, SetDecryptParam(size) PROVE IInv'
    BY <1>5, SetDecryptParamStep
  <1>6. CASE ExecuteAsync
    BY <1>6, ExecuteAsyncStep
  <1>7. CASE ExecuteFinish
    BY <1>7, ExecuteFinishStep
  <1>8. CASE GetRspAuths
    BY <1>8, GetRspAuthsStep
  <1>9. CASE SetEncryptParam
    BY <1>9, SetEncryptParamStep
  <1>10. CASE Complete
    BY <1>10, CompleteStep
  <1>11. CASE Abort
    BY <1>11, AbortStep
  <1>12. CASE UNCHANGED vars
    BY <1>12, StutterStep
  <1> QED
    BY <1>1, <1>2, <1>3, <1>4, <1>5, <1>6, <1>7, <1>8, <1>9, <1>10, <1>11, <1>12 DEF Next

LEMMA Invariance == ~NullParams => (Spec => []IInv)
  <1> HIDE DEF IInv
  <1> SUFFICES ASSUME ~NullParams PROVE Spec => []IInv
    OBVIOUS
  <1>1. Init => IInv
    BY InitIInv
  <1>2. IInv /\ [Next]_vars => IInv'
    BY NextIInv
  <1> QED
    BY <1>1, <1>2, PTL DEF Spec

-----------------------------------------------------------------------------
(* What holds of a context, as long as the client inserts no parameter of  *)
(* another size for a NULL: ~NullParams.                                   *)

\* Offsets stay within the buffer: cpBuffer, nextData and cpBufferUsedSize
\* never leave it, whatever is prepared, moved, inserted and read.
THEOREM TypeCorrect == ~NullParams => (Spec => []TypeOK)
  <1> SUFFICES ASSUME ~NullParams PROVE Spec => []TypeOK
    OBVIOUS
  <1>1. Spec => []IInv
    BY Invariance
  <1>2. IInv => TypeOK
    OBVIOUS
  <1> QED
    BY <1>1, <1>2, PTL

\* Tss2_Sys_ExecuteAsync transmits the command that was asked for, also when it
\* is executed again after an error of the TPM or when a parameter was replaced
\* before, for a client that sets the authorizations of a prepared command at
\* most once.
THEOREM SendsRequest == ~NullParams => (Spec => []TransmitsEncoding)
  <1> SUFFICES ASSUME ~NullParams PROVE Spec => []TransmitsEncoding
    OBVIOUS
  <1>1. Spec => []IInv
    BY Invariance
  <1>2. IInv => TransmitsEncoding
    OBVIOUS
  <1> QED
    BY <1>1, <1>2, PTL

\* The cpHash the layers above compute over Tss2_Sys_GetCpBuffer is that of
\* the command which is sent.
THEOREM CpHashOfCommand == ~NullParams => (Spec => []CpBufferIsParameters)
  <1> SUFFICES ASSUME ~NullParams PROVE Spec => []CpBufferIsParameters
    OBVIOUS
  <1>1. Spec => []IInv
    BY Invariance
  <1>2. IInv => CpBufferIsParameters
    <2> SUFFICES ASSUME IInv, usable, previousStage \in {"PREPARE", "SEND_COMMAND"}
                 PROVE  At(cmdBuffer, cpBuffer, cpBufferUsedSize) = Params(want.cmd, want.kind, want.size)
      BY DEF CpBufferIsParameters
    <2>1. HasCommand(cmdBuffer, cpBuffer, cpBufferUsedSize, want)
      BY DEF CommandInv
    <2> QED
      BY <2>1, ParameterArea
  <1> QED
    BY <1>1, <1>2, PTL

\* Tss2_Sys_GetRspAuths and Complete return what the TPM answered.
THEOREM ReadsAnswer == ~NullParams => (Spec => []ReadsResponse)
  <1> SUFFICES ASSUME ~NullParams PROVE Spec => []ReadsResponse
    OBVIOUS
  <1>1. Spec => []IInv
    BY Invariance
  <1>2. IInv => ReadsResponse
    OBVIOUS
  <1> QED
    BY <1>1, <1>2, PTL

=============================================================================
