--------------------------- MODULE TctiMssimProofs ----------------------------
(***************************************************************************)
(* Proofs about TctiMssim, for every number of commands, every length of a *)
(* response and every set of faults.                                       *)
(***************************************************************************)
EXTENDS TctiMssim, SequenceTheorems, TLAPS

-----------------------------------------------------------------------------
(* The inductive invariant.                                                *)

Chunks == [kind : {"size", "body", "zero"}, cmd : 1..MaxCmds]

\* Chunk i of the response to command n.
ChunkAt(n, i) == Chunk(IF i = 1 THEN "size" ELSE IF i <= BodyLen + 1 THEN "body" ELSE "zero", n)

\* The command has not been answered; the size field is not known.
Unanswered(h, w) == h = 0 /\ todo = <<sent>> /\ flight = <<>> /\ w = <<>>

\* The first pos chunks of the response have been read, w and then the chunks
\* in flight follow them; header.size is known once the size field is read.
InPlace(h, w, pos) ==
    /\ h = IF pos = 0 THEN 0 ELSE BodyLen
    /\ todo = <<>>
    /\ Len(w) + Len(flight) <= BodyLen + 2 - pos
    /\ \A i \in 1..Len(w) : w[i] = ChunkAt(sent, pos + i)
    /\ \A i \in 1..Len(flight) : flight[i] = ChunkAt(sent, pos + Len(w) + i)

\* The response has been read, header.size has been kept: what is left of the
\* stream is too short to be taken for another response.
PlaceLost(h, w) == h = BodyLen /\ todo = <<>> /\ Len(w) + Len(flight) <= 1

\* Where a call with header.size h and the readable chunks w is in the stream.
Placed(h, w) == Unanswered(h, w) \/ InPlace(h, w, 0) \/ InPlace(h, w, 1) \/ PlaceLost(h, w)

\* While a response is owed the context knows its place, or cannot succeed.
PlaceInv == clean /\ state = "RECEIVE" => Placed(hsize, wire)

\* Between two commands the stream is empty.
EmptyInv == clean /\ state = "TRANSMIT" => hsize = 0 /\ todo = <<>> /\ flight = <<>> /\ wire = <<>>

IInv == TypeOK /\ PlaceInv /\ EmptyInv /\ ResponseMatches

-----------------------------------------------------------------------------
(* Chunks, responses and the records of a call.                            *)

Sizes == {0, BodyLen, Misread}
Calls == [state : {"TRANSMIT", "RECEIVE"}, hsize : Sizes, cancel : BOOLEAN, wire : Seq(Chunks),
          data : Seq(Chunks), rc : TctiCodes \cup {"go"}]

LEMMA ChunkType ==
  ASSUME NEW n \in 1..MaxCmds, NEW i \in Nat
  PROVE  ChunkAt(n, i) \in Chunks
  BY DEF ChunkAt, Chunk, Chunks

\* The response to command n, chunk by chunk.
LEMMA ResponseSeq ==
  ASSUME NEW n \in 1..MaxCmds
  PROVE  /\ Response(n) \in Seq(Chunks)
         /\ Len(Response(n)) = BodyLen + 2
         /\ \A i \in 1..BodyLen + 2 : Response(n)[i] = ChunkAt(n, i)
  <1> DEFINE a == <<Chunk("size", n)>>
             b == Body(n)
             z == <<Chunk("zero", n)>>
  <1>1. a \in Seq(Chunks) /\ Len(a) = 1 /\ a[1] = Chunk("size", n)
    BY DEF Chunk, Chunks
  <1>2. z \in Seq(Chunks) /\ Len(z) = 1 /\ z[1] = Chunk("zero", n)
    BY DEF Chunk, Chunks
  <1>3. b \in Seq(Chunks) /\ Len(b) = BodyLen /\ \A i \in 1..BodyLen : b[i] = Chunk("body", n)
    <2>1. Chunk("body", n) \in Chunks
      BY DEF Chunk, Chunks
    <2>2. b \in [1..BodyLen -> Chunks]
      BY <2>1 DEF Body
    <2> QED
      BY <2>2, MssimAssumption DEF Body
  <1> HIDE DEF a, b, z
  <1> DEFINE ab == a \o b
  <1>4. /\ ab \in Seq(Chunks) /\ Len(ab) = BodyLen + 1
        /\ ab[1] = Chunk("size", n)
        /\ \A i \in 2..BodyLen + 1 : ab[i] = Chunk("body", n)
    <2>1. /\ ab \in Seq(Chunks) /\ Len(ab) = 1 + BodyLen
          /\ \A i \in 1..1 + BodyLen : ab[i] = IF i <= 1 THEN a[i] ELSE b[i - 1]
      <3>1. /\ ab \in Seq(Chunks) /\ Len(ab) = Len(a) + Len(b)
            /\ \A i \in 1..Len(a) + Len(b) : ab[i] = IF i <= Len(a) THEN a[i] ELSE b[i - Len(a)]
        BY <1>1, <1>3, ConcatProperties
      <3> QED
        BY <1>1, <1>3, <3>1, Zenon
    <2> HIDE DEF ab
    <2> QED
      BY <1>1, <1>3, <2>1, MssimAssumption
  <1> HIDE DEF ab
  <1>5. /\ ab \o z \in Seq(Chunks) /\ Len(ab \o z) = BodyLen + 2
        /\ (ab \o z)[1] = Chunk("size", n)
        /\ \A i \in 2..BodyLen + 1 : (ab \o z)[i] = Chunk("body", n)
        /\ (ab \o z)[BodyLen + 2] = Chunk("zero", n)
    <2> DEFINE abz == ab \o z
    <2>1. /\ abz \in Seq(Chunks) /\ Len(abz) = BodyLen + 1 + 1
          /\ \A i \in 1..BodyLen + 1 + 1 : abz[i] = IF i <= BodyLen + 1 THEN ab[i] ELSE z[i - (BodyLen + 1)]
      <3>1. /\ abz \in Seq(Chunks) /\ Len(abz) = Len(ab) + Len(z)
            /\ \A i \in 1..Len(ab) + Len(z) : abz[i] = IF i <= Len(ab) THEN ab[i] ELSE z[i - Len(ab)]
        BY <1>2, <1>4, ConcatProperties
      <3> QED
        BY <1>2, <1>4, <3>1, Zenon
    <2> HIDE DEF abz
    <2>2. /\ abz \in Seq(Chunks) /\ Len(abz) = BodyLen + 2
          /\ abz[1] = Chunk("size", n)
          /\ \A i \in 2..BodyLen + 1 : abz[i] = Chunk("body", n)
      BY <1>4, <2>1, MssimAssumption
    <2>3. abz[BodyLen + 2] = Chunk("zero", n)
      BY <1>2, <2>1, MssimAssumption
    <2> QED
      BY <2>2, <2>3 DEF abz
  <1>6. Response(n) = ab \o z
    BY DEF Response, ab, a, b, z
  <1> QED
    BY <1>5, <1>6, MssimAssumption DEF ChunkAt

\* What the read of n chunks takes from w and leaves of it.
LEMMA SplitSeq ==
  ASSUME NEW w \in Seq(Chunks), NEW n \in Nat, n <= Len(w)
  PROVE  /\ SubSeq(w, 1, n) \in Seq(Chunks) /\ Len(SubSeq(w, 1, n)) = n
         /\ \A i \in 1..n : SubSeq(w, 1, n)[i] = w[i]
         /\ SubSeq(w, n + 1, Len(w)) \in Seq(Chunks)
         /\ Len(SubSeq(w, n + 1, Len(w))) = Len(w) - n
         /\ \A i \in 1..Len(w) - n : SubSeq(w, n + 1, Len(w))[i] = w[n + i]
  <1>0. Len(w) \in Nat /\ \A i \in 1..Len(w) : w[i] \in Chunks
    OBVIOUS
  <1>1. /\ SubSeq(w, 1, n) \in Seq(Chunks)
        /\ Len(SubSeq(w, 1, n)) = IF 1 <= n THEN n - 1 + 1 ELSE 0
        /\ \A i \in 1..n - 1 + 1 : SubSeq(w, 1, n)[i] = w[1 + i - 1]
    <2>1. \A i \in 1..n : w[i] \in Chunks
      BY <1>0
    <2> QED
      BY <1>0, <2>1, SubSeqProperties
  <1>2. /\ SubSeq(w, n + 1, Len(w)) \in Seq(Chunks)
        /\ Len(SubSeq(w, n + 1, Len(w))) = IF n + 1 <= Len(w) THEN Len(w) - (n + 1) + 1 ELSE 0
        /\ \A i \in 1..Len(w) - (n + 1) + 1 : SubSeq(w, n + 1, Len(w))[i] = w[n + 1 + i - 1]
    <2>1. \A i \in n + 1..Len(w) : w[i] \in Chunks
      BY <1>0
    <2>2. n + 1 \in Int /\ Len(w) \in Int
      BY <1>0
    <2> QED
      BY <2>1, <2>2, SubSeqProperties
  <1>3. \A i \in 1..n : SubSeq(w, 1, n)[i] = w[i]
    BY <1>1
  <1>4. \A i \in 1..Len(w) - n : SubSeq(w, n + 1, Len(w))[i] = w[n + i]
    <2>1. SUFFICES ASSUME NEW i \in 1..Len(w) - n PROVE SubSeq(w, n + 1, Len(w))[i] = w[n + i]
      OBVIOUS
    <2>2. i \in 1..Len(w) - (n + 1) + 1 /\ n + 1 + i - 1 = n + i
      BY <1>0
    <2> QED
      BY <1>2, <2>2
  <1> QED
    BY <1>0, <1>1, <1>2, <1>3, <1>4

\* How a poll and a read of n chunks end: with a failure that takes the
\* context back to TRANSMIT, with a timeout that changes nothing, or with the
\* first n readable chunks.
LEMMA PollAndRecvResult ==
  ASSUME NEW c \in Calls, c.rc = "go", NEW n \in Nat, NEW t, NEW d \in PollAndRecv(c, n, t)
  PROVE  /\ d \in Calls /\ d.cancel = c.cancel
         /\ \/ d.rc = "TCTI_IO_ERROR" /\ d.state = "TRANSMIT"
            \/ d.rc = "TCTI_TRY_AGAIN" /\ d.state = c.state /\ d.hsize = c.hsize /\ d.wire = c.wire
            \/ /\ d.rc = "go" /\ d.state = c.state /\ d.hsize = c.hsize
               /\ n <= Len(c.wire) /\ Len(d.data) = n /\ Len(d.wire) = Len(c.wire) - n
               /\ \A i \in 1..n : d.data[i] = c.wire[i]
               /\ \A i \in 1..Len(d.wire) : d.wire[i] = c.wire[n + i]
  <1>0. {"TCTI_IO_ERROR", "TCTI_TRY_AGAIN"} \subseteq TctiCodes /\ <<>> \in Seq(Chunks) /\ 0 \in Sizes
    BY EmptySeq DEF TctiCodes, RetryCodes, FatalCodes, Sizes
  <1>1. CASE d = Out(c, "TCTI_IO_ERROR")
    BY <1>0, <1>1 DEF Out, Calls
  <1>2. CASE d = Stop(c, "TCTI_TRY_AGAIN")
    BY <1>0, <1>2 DEF Stop, Calls
  <1>3. CASE d = Out([c EXCEPT !.wire = <<>>], "TCTI_IO_ERROR")
    BY <1>0, <1>3 DEF Out, Calls
  <1>4. CASE /\ n <= Len(c.wire)
             /\ d = [c EXCEPT !.data = SubSeq(c.wire, 1, n), !.wire = SubSeq(c.wire, n + 1, Len(c.wire))]
    <2>1. c.wire \in Seq(Chunks)
      BY DEF Calls
    <2>2. /\ SubSeq(c.wire, 1, n) \in Seq(Chunks) /\ Len(SubSeq(c.wire, 1, n)) = n
          /\ \A i \in 1..n : SubSeq(c.wire, 1, n)[i] = c.wire[i]
          /\ SubSeq(c.wire, n + 1, Len(c.wire)) \in Seq(Chunks)
          /\ Len(SubSeq(c.wire, n + 1, Len(c.wire))) = Len(c.wire) - n
          /\ \A i \in 1..Len(c.wire) - n : SubSeq(c.wire, n + 1, Len(c.wire))[i] = c.wire[n + i]
      BY <1>4, <2>1, SplitSeq
    <2>3. /\ d.data = SubSeq(c.wire, 1, n) /\ d.wire = SubSeq(c.wire, n + 1, Len(c.wire))
          /\ d.rc = "go" /\ d.state = c.state /\ d.hsize = c.hsize /\ d.cancel = c.cancel /\ d \in Calls
      BY <1>4, <2>2 DEF Calls
    <2> QED
      BY <1>4, <2>2, <2>3
  <1> QED
    BY <1>1, <1>2, <1>3, <1>4 DEF PollAndRecv

\* The same for one chunk.
LEMMA PollAndRecvOne ==
  ASSUME NEW c \in Calls, c.rc = "go", NEW t, NEW d \in PollAndRecv(c, 1, t)
  PROVE  /\ d \in Calls /\ d.cancel = c.cancel
         /\ \/ d.rc = "TCTI_IO_ERROR" /\ d.state = "TRANSMIT"
            \/ d.rc = "TCTI_TRY_AGAIN" /\ d.state = c.state /\ d.hsize = c.hsize /\ d.wire = c.wire
            \/ /\ d.rc = "go" /\ d.state = c.state /\ d.hsize = c.hsize
               /\ 1 <= Len(c.wire) /\ Len(d.data) = 1 /\ Len(d.wire) = Len(c.wire) - 1
               /\ d.data[1] = c.wire[1]
               /\ \A i \in 1..Len(d.wire) : d.wire[i] = c.wire[1 + i]
  <1> DEFINE n == 1
  <1>1. n \in Nat /\ d \in PollAndRecv(c, n, t) /\ 1 \in 1..n
    OBVIOUS
  <1> HIDE DEF n
  <1>2. /\ d \in Calls /\ d.cancel = c.cancel
        /\ \/ d.rc = "TCTI_IO_ERROR" /\ d.state = "TRANSMIT"
           \/ d.rc = "TCTI_TRY_AGAIN" /\ d.state = c.state /\ d.hsize = c.hsize /\ d.wire = c.wire
           \/ /\ d.rc = "go" /\ d.state = c.state /\ d.hsize = c.hsize
              /\ n <= Len(c.wire) /\ Len(d.data) = n /\ Len(d.wire) = Len(c.wire) - n
              /\ \A i \in 1..n : d.data[i] = c.wire[i]
              /\ \A i \in 1..Len(d.wire) : d.wire[i] = c.wire[n + i]
    BY <1>1, PollAndRecvResult
  <1> QED
    BY <1>1, <1>2 DEF n

-----------------------------------------------------------------------------
(* The phases of tcti_mssim_receive.                                       *)

\* A call that ends early: it may be repeated where it is, or it has failed
\* and the context is back in TRANSMIT.
Ended(c) ==
    /\ c \in Calls
    /\ \/ /\ c.rc \in {"TCTI_TRY_AGAIN", "TCTI_INSUFFICIENT_BUFFER"} /\ c.state = "RECEIVE"
          /\ clean => Placed(c.hsize, c.wire)
       \/ c.rc = "TCTI_IO_ERROR" /\ c.state = "TRANSMIT"

\* A call that has the size field.
Sized(c) ==
    /\ c \in Calls /\ c.rc = "go" /\ c.state = "RECEIVE"
    /\ clean => Placed(c.hsize, c.wire) /\ c.hsize = BodyLen

\* A call that has read what it takes for the response.
Filled(c) ==
    /\ c \in Calls /\ c.rc = "go" /\ c.state = "RECEIVE"
    /\ clean => /\ PlaceLost(c.hsize, c.wire)
                /\ c.data = Body(sent) \/ c.wire = <<>>

\* A call that has read all.
Read(c) ==
    /\ c \in Calls /\ c.rc = "go" /\ c.state = "RECEIVE"
    /\ clean => todo = <<>> /\ flight = <<>> /\ c.wire = <<>> /\ c.data = Body(sent)

LEMMA CallType ==
  ASSUME TypeOK
  PROVE  /\ Call \in Calls /\ Call.state = state /\ Call.hsize = hsize /\ Call.cancel = cancel
         /\ Call.wire = wire /\ Call.rc = "go"
  <1>1. <<>> \in Seq(Chunks)
    BY EmptySeq
  <1> QED
    BY <1>1 DEF TypeOK, Call, Calls, Chunks, TctiStates, Sizes

\* One chunk is read where only the size field can be.
LEMMA SizeFieldRead ==
  ASSUME TypeOK, clean, Placed(0, wire), NEW v \in Seq(Chunks),
         1 <= Len(wire), Len(v) = Len(wire) - 1, \A i \in 1..Len(v) : v[i] = wire[1 + i]
  PROVE  SizeOf(wire[1]) = BodyLen /\ InPlace(BodyLen, v, 1)
  <1>1. wire \in Seq(Chunks) /\ flight \in Seq(Chunks) /\ Len(wire) \in Nat /\ Len(flight) \in Nat
    BY DEF TypeOK, Chunks
  <1>2. InPlace(0, wire, 0)
    <2>1. wire # <<>>
      BY <1>1
    <2> QED
      BY <2>1, MssimAssumption DEF Placed, Unanswered, InPlace, PlaceLost
  <1>3. wire[1] = ChunkAt(sent, 1)
    BY <1>1, <1>2 DEF InPlace
  <1>4. \A i \in 1..Len(v) : v[i] = ChunkAt(sent, 1 + i)
    BY <1>1, <1>2 DEF InPlace
  <1>5. \A i \in 1..Len(flight) : flight[i] = ChunkAt(sent, 1 + Len(v) + i)
    <2>1. 1 + Len(v) = 0 + Len(wire)
      BY <1>1
    <2> QED
      BY <1>2, <2>1 DEF InPlace
  <1>6. todo = <<>> /\ Len(v) + Len(flight) <= BodyLen + 2 - 1
    BY <1>1, <1>2, MssimAssumption DEF InPlace
  <1>7. SizeOf(wire[1]) = BodyLen
    BY <1>3 DEF SizeOf, ChunkAt, Chunk
  <1> QED
    BY <1>4, <1>5, <1>6, <1>7 DEF InPlace

LEMMA SizeType ==
  ASSUME NEW c \in Chunks
  PROVE  SizeOf(c) \in Sizes
  BY DEF SizeOf, Chunks, Sizes

LEMMA ReadSizeStep ==
  ASSUME TypeOK, PlaceInv, state = "RECEIVE", NEW t, NEW c \in ReadSize(Call, t)
  PROVE  (Sized(c) \/ Ended(c)) /\ c.cancel = cancel
  <1>1. CASE hsize # 0
    <2>1. c = Call
      BY <1>1, CallType DEF ReadSize
    <2>2. clean => hsize = BodyLen
      BY <1>1 DEF PlaceInv, Placed, Unanswered, InPlace, PlaceLost
    <2> QED
      BY <2>1, <2>2, CallType DEF Sized, PlaceInv
  <1>2. CASE hsize = 0
    <2>1. PICK d \in PollAndRecv(Call, 1, t) :
             c = IF d.rc = "go" THEN [d EXCEPT !.hsize = SizeOf(d.data[1]), !.data = <<>>] ELSE d
      BY <1>2, CallType DEF ReadSize
    <2>2. /\ d \in Calls /\ d.cancel = cancel
          /\ \/ d.rc = "TCTI_IO_ERROR" /\ d.state = "TRANSMIT"
             \/ d.rc = "TCTI_TRY_AGAIN" /\ d.state = state /\ d.hsize = hsize /\ d.wire = wire
             \/ /\ d.rc = "go" /\ d.state = state /\ d.hsize = hsize
                /\ 1 <= Len(wire) /\ Len(d.data) = 1 /\ Len(d.wire) = Len(wire) - 1
                /\ d.data[1] = wire[1]
                /\ \A i \in 1..Len(d.wire) : d.wire[i] = wire[1 + i]
      BY <2>1, CallType, PollAndRecvOne
    <2>3. CASE d.rc = "TCTI_IO_ERROR"
      BY <2>1, <2>2, <2>3 DEF Ended
    <2>4. CASE d.rc = "TCTI_TRY_AGAIN"
      BY <2>1, <2>2, <2>4 DEF Ended, PlaceInv
    <2>5. CASE d.rc = "go"
      <3>1. wire[1] \in Chunks /\ d.data[1] = wire[1] /\ d.wire \in Seq(Chunks)
        <4>1. wire \in Seq(Chunks) /\ d.data[1] = wire[1] /\ 1 \in 1..Len(wire) /\ d.wire \in Seq(Chunks)
          BY <2>2, <2>5 DEF TypeOK, Chunks, Calls
        <4> QED
          BY <4>1, ElementOfSeq
      <3>2. SizeOf(wire[1]) \in Sizes /\ <<>> \in Seq(Chunks)
        BY <3>1, SizeType, EmptySeq
      <3>3. c \in Calls /\ c.rc = "go" /\ c.state = "RECEIVE" /\ c.hsize = SizeOf(wire[1]) /\ c.wire = d.wire
            /\ c.cancel = cancel
        BY <2>1, <2>2, <2>5, <3>1, <3>2 DEF Calls
      <3>4. clean => SizeOf(wire[1]) = BodyLen /\ InPlace(BodyLen, d.wire, 1)
        BY <1>2, <2>2, <2>5, <3>1, SizeFieldRead DEF PlaceInv
      <3> QED
        BY <3>3, <3>4 DEF Sized, Placed
    <2> QED
      BY <2>2, <2>3, <2>4, <2>5
  <1> QED
    BY <1>1, <1>2

\* A response read in its place is the response to the last command.
LEMMA BodyRead ==
  ASSUME TypeOK, NEW w \in Seq(Chunks), NEW v \in Seq(Chunks), NEW b \in Seq(Chunks),
         Placed(BodyLen, w), BodyLen <= Len(w), Len(b) = BodyLen, Len(v) = Len(w) - BodyLen,
         \A i \in 1..BodyLen : b[i] = w[i]
  PROVE  PlaceLost(BodyLen, v) /\ (b = Body(sent) \/ v = <<>>)
  <1>1. flight \in Seq(Chunks) /\ Len(w) \in Nat /\ Len(v) \in Nat /\ Len(flight) \in Nat
    BY DEF TypeOK, Chunks
  <1>2. CASE PlaceLost(BodyLen, w)
    <2>1. Len(v) + Len(flight) <= 1 /\ Len(v) = 0
      BY <1>1, <1>2, MssimAssumption DEF PlaceLost
    <2> QED
      BY <1>2, <2>1, EmptySeq DEF PlaceLost
  <1>3. CASE InPlace(BodyLen, w, 1)
    <2>1. Len(v) + Len(flight) <= 1
      BY <1>1, <1>3, MssimAssumption DEF InPlace
    <2>2. \A i \in 1..BodyLen : b[i] = Chunk("body", sent)
      <3>1. SUFFICES ASSUME NEW i \in 1..BodyLen PROVE b[i] = Chunk("body", sent)
        OBVIOUS
      <3>2. i \in 1..Len(w) /\ 1 + i # 1 /\ 1 + i <= BodyLen + 1
        BY <1>1, MssimAssumption
      <3>3. b[i] = ChunkAt(sent, 1 + i)
        BY <1>3, <3>2 DEF InPlace
      <3> QED
        BY <3>2, <3>3 DEF ChunkAt
    <2>3. b = Body(sent)
      <3>1. b = [i \in 1..BodyLen |-> b[i]]
        OBVIOUS
      <3> QED
        BY <2>2, <3>1 DEF Body
    <2> QED
      BY <1>3, <2>1, <2>3 DEF PlaceLost, InPlace
  <1> QED
    BY <1>2, <1>3, MssimAssumption DEF Placed, Unanswered, InPlace

LEMMA ReadBodyStep ==
  ASSUME TypeOK, NEW c, Sized(c), NEW small \in BOOLEAN, NEW t, NEW d \in ReadBody(c, small, t)
  PROVE  (Filled(d) \/ Ended(d)) /\ d.cancel = c.cancel
  <1>0. c \in Calls /\ c.hsize \in Nat /\ c.wire \in Seq(Chunks)
    BY MssimAssumption DEF Sized, Calls, Sizes, Misread
  <1>1. CASE d = Stop(c, "TCTI_INSUFFICIENT_BUFFER")
    BY <1>1 DEF Stop, Sized, Ended, Calls, TctiCodes, RetryCodes
  <1>2. CASE d \in PollAndRecv(c, c.hsize, t)
    <2>2. /\ d \in Calls /\ d.cancel = c.cancel
          /\ \/ d.rc = "TCTI_IO_ERROR" /\ d.state = "TRANSMIT"
             \/ d.rc = "TCTI_TRY_AGAIN" /\ d.state = c.state /\ d.hsize = c.hsize /\ d.wire = c.wire
             \/ /\ d.rc = "go" /\ d.state = c.state /\ d.hsize = c.hsize
                /\ c.hsize <= Len(c.wire) /\ Len(d.data) = c.hsize /\ Len(d.wire) = Len(c.wire) - c.hsize
                /\ \A i \in 1..c.hsize : d.data[i] = c.wire[i]
                /\ \A i \in 1..Len(d.wire) : d.wire[i] = c.wire[c.hsize + i]
      BY <1>0, <1>2, PollAndRecvResult DEF Sized
    <2>3. CASE d.rc = "TCTI_IO_ERROR"
      BY <2>2, <2>3 DEF Ended
    <2>4. CASE d.rc = "TCTI_TRY_AGAIN"
      BY <2>2, <2>4 DEF Ended, Sized
    <2>5. CASE d.rc = "go"
      <3>1. d.wire \in Seq(Chunks) /\ d.data \in Seq(Chunks)
        BY <2>2 DEF Calls
      <3>2. clean => PlaceLost(BodyLen, d.wire) /\ (d.data = Body(sent) \/ d.wire = <<>>)
        BY <1>0, <2>2, <2>5, <3>1, BodyRead DEF Sized
      <3> QED
        BY <2>2, <2>5, <3>2 DEF Filled, Sized
    <2> QED
      BY <2>2, <2>3, <2>4, <2>5
  <1> QED
    BY <1>1, <1>2 DEF ReadBody, Sized

LEMMA ReadTailStep ==
  ASSUME TypeOK, NEW c, Filled(c), NEW t, NEW d \in ReadTail(c, t)
  PROVE  (Read(d) \/ Ended(d)) /\ d.cancel = c.cancel
  <1>0. c \in Calls /\ c.rc = "go" /\ c.wire \in Seq(Chunks) /\ c.data \in Seq(Chunks)
    BY DEF Filled, Calls
  <1>1. PICK e \in PollAndRecv(c, 1, t) : d = [e EXCEPT !.data = c.data]
    BY <1>0 DEF ReadTail
  <1>2. /\ e \in Calls /\ e.cancel = c.cancel
        /\ \/ e.rc = "TCTI_IO_ERROR" /\ e.state = "TRANSMIT"
           \/ e.rc = "TCTI_TRY_AGAIN" /\ e.state = c.state /\ e.hsize = c.hsize /\ e.wire = c.wire
           \/ /\ e.rc = "go" /\ e.state = c.state /\ e.hsize = c.hsize
              /\ 1 <= Len(c.wire) /\ Len(e.data) = 1 /\ Len(e.wire) = Len(c.wire) - 1
    BY <1>0, <1>1, PollAndRecvOne
  <1>3. /\ d \in Calls /\ d.cancel = c.cancel /\ d.rc = e.rc /\ d.state = e.state /\ d.hsize = e.hsize
        /\ d.wire = e.wire /\ d.data = c.data
    BY <1>0, <1>1, <1>2 DEF Calls
  <1>4. CASE e.rc = "TCTI_IO_ERROR"
    BY <1>2, <1>3, <1>4 DEF Ended
  <1>5. CASE e.rc = "TCTI_TRY_AGAIN"
    BY <1>2, <1>3, <1>5 DEF Ended, Filled, Placed
  <1>6. CASE e.rc = "go"
    <2>1. d.wire \in Seq(Chunks) /\ flight \in Seq(Chunks) /\ Len(d.wire) = Len(c.wire) - 1 /\ 1 <= Len(c.wire)
      BY <1>2, <1>3, <1>6 DEF TypeOK, Chunks, Calls
    <2>2. ASSUME clean PROVE todo = <<>> /\ Len(flight) = 0 /\ Len(d.wire) = 0 /\ c.wire # <<>>
      <3>1. todo = <<>> /\ Len(c.wire) + Len(flight) <= 1
        BY <2>2 DEF Filled, PlaceLost
      <3>2. Len(c.wire) \in Nat /\ Len(flight) \in Nat
        BY <1>0, <2>1
      <3>3. c.wire # <<>>
        BY <2>1
      <3> QED
        <4>1. Len(flight) = 0 /\ Len(d.wire) = 0
          <5> DEFINE x == Len(c.wire)
                     y == Len(flight)
                     z == Len(d.wire)
          <5>1. x \in Nat /\ y \in Nat /\ x + y <= 1 /\ 1 <= x /\ z = x - 1
            BY <2>1, <3>1, <3>2
          <5> HIDE DEF x, y, z
          <5>2. y = 0 /\ z = 0
            BY <5>1
          <5> QED
            BY <5>2 DEF y, z
        <4> QED
          BY <3>1, <3>3, <4>1
    <2>3. clean => todo = <<>> /\ flight = <<>> /\ d.wire = <<>> /\ d.data = Body(sent)
      BY <1>3, <2>1, <2>2, EmptySeq DEF Filled
    <2> QED
      BY <1>2, <1>3, <1>6, <2>3 DEF Read, Filled
  <1> QED
    BY <1>2, <1>4, <1>5, <1>6

\* A receive that has succeeded.
Delivered(c) ==
    /\ c \in Calls /\ c.rc = "SUCCESS" /\ c.state = "TRANSMIT" /\ c.hsize = 0
    /\ clean => todo = <<>> /\ flight = <<>> /\ c.wire = <<>> /\ c.data = Body(sent)

\* A receive that could not tell the simulator to stop cancelling.
CancelKept(c) == c \in Calls /\ c.rc = "TCTI_IO_ERROR" /\ ~calm

LEMMA FinishCancelStep ==
  ASSUME NEW c, Read(c), NEW d \in FinishCancel(c)
  PROVE  Delivered(d) \/ CancelKept(d)
  <1>1. "SUCCESS" \in TctiCodes /\ "TCTI_IO_ERROR" \in TctiCodes /\ 0 \in Sizes
    BY DEF TctiCodes, FatalCodes, Sizes
  <1>2. CASE d = Out(c, "SUCCESS")
    BY <1>1, <1>2 DEF Out, Read, Delivered, Calls
  <1>3. CASE d = Out([c EXCEPT !.cancel = FALSE], "SUCCESS")
    BY <1>1, <1>3 DEF Out, Read, Delivered, Calls
  <1>4. CASE d = Stop(c, "TCTI_IO_ERROR") /\ ~calm
    BY <1>1, <1>4 DEF Stop, Read, CancelKept, Calls
  <1> QED
    BY <1>2, <1>3, <1>4 DEF FinishCancel, Read

\* How a receive ends.
LEMMA ReceiveCalls ==
  ASSUME TypeOK, PlaceInv, state = "RECEIVE", NEW small \in BOOLEAN, NEW t, NEW f \in receive_calls(small, t)
  PROVE  Delivered(f) \/ Ended(f) \/ CancelKept(f)
  <1>1. PICK c \in ReadSize(Call, t) :
           f \in UNION {UNION {FinishCancel(e) : e \in ReadTail(d, t)} : d \in ReadBody(c, small, t)}
    BY DEF receive_calls
  <1>2. PICK d \in ReadBody(c, small, t) : f \in UNION {FinishCancel(e) : e \in ReadTail(d, t)}
    BY <1>1
  <1>3. PICK e \in ReadTail(d, t) : f \in FinishCancel(e)
    BY <1>2
  <1>4. \A x : Ended(x) => x.rc # "go"
    BY DEF Ended
  <1>5. CASE Ended(c)
    <2>1. d = c
      BY <1>4, <1>5 DEF ReadBody
    <2>2. e = c
      BY <1>4, <1>5, <2>1 DEF ReadTail
    <2> QED
      BY <1>3, <1>4, <1>5, <2>2 DEF FinishCancel
  <1>6. CASE Sized(c) /\ Ended(d)
    <2>1. e = d
      BY <1>4, <1>6 DEF ReadTail
    <2> QED
      BY <1>3, <1>4, <1>6, <2>1 DEF FinishCancel
  <1>7. CASE Filled(d) /\ Ended(e)
    BY <1>3, <1>4, <1>7 DEF FinishCancel
  <1>8. CASE Read(e)
    BY <1>3, <1>8, FinishCancelStep
  <1>9. Sized(c) \/ Ended(c)
    BY ReadSizeStep
  <1>10. Sized(c) => Filled(d) \/ Ended(d)
    BY ReadBodyStep
  <1>11. Filled(d) => Read(e) \/ Ended(e)
    BY ReadTailStep
  <1> QED
    BY <1>5, <1>6, <1>7, <1>8, <1>9, <1>10, <1>11

\* A size query that has succeeded.
Told(c) == c \in Calls /\ c.rc = "SUCCESS" /\ c.state = "RECEIVE" /\ (clean => Placed(c.hsize, c.wire))

\* How a size query ends.
LEMMA SizeCalls ==
  ASSUME TypeOK, PlaceInv, state = "RECEIVE", NEW t, NEW f \in size_calls(t)
  PROVE  Told(f) \/ Ended(f)
  <1>1. PICK c \in ReadSize(Call, t) : f = IF c.rc = "go" THEN Stop(c, "SUCCESS") ELSE c
    BY DEF size_calls
  <1>2. Sized(c) \/ Ended(c)
    BY ReadSizeStep
  <1>3. CASE Ended(c)
    BY <1>1, <1>3 DEF Ended
  <1>4. CASE Sized(c)
    BY <1>1, <1>4 DEF Sized, Told, Stop, Calls, TctiCodes
  <1> QED
    BY <1>2, <1>3, <1>4

-----------------------------------------------------------------------------
(* The steps.                                                              *)

LEMMA InitIInv == Init => IInv
  <1> SUFFICES ASSUME Init PROVE IInv
    OBVIOUS
  <1>1. <<>> \in Seq(1..MaxCmds) /\ <<>> \in Seq(Chunks)
    BY EmptySeq
  <1>2. TypeOK
    <2>1. last.rc \in TctiCodes
      BY DEF Init, TctiCodes
    <2>2. \A s \in {flight, wire, data} : s \in Seq(Chunks)
      BY <1>1 DEF Init
    <2>3. sent \in 0..MaxCmds /\ state \in TctiStates \ {"FINAL"} /\ todo \in Seq(1..MaxCmds)
      BY <1>1, MssimAssumption DEF Init, TctiStates
    <2> QED
      BY <2>1, <2>2, <2>3 DEF Init, TypeOK, Chunks
  <1> QED
    BY <1>2 DEF Init, IInv, PlaceInv, EmptyInv, ResponseMatches

\* A finished call keeps the invariant.
LEMMA ApplyStep ==
  ASSUME IInv, NEW c, NEW op \in {"size", "receive"}, Apply(op, c),
         \/ Ended(c) \/ CancelKept(c)
         \/ op = "receive" /\ Delivered(c)
         \/ op = "size" /\ Told(c)
  PROVE  IInv'
  <1>1. c \in Calls /\ c.rc \in TctiCodes
    BY DEF Ended, CancelKept, Delivered, Told, TctiCodes, RetryCodes, FatalCodes
  <1>2. TypeOK'
    <2>1. <<>> \in Seq(Chunks)
      BY EmptySeq
    <2>2. data' \in Seq(Chunks) /\ wire' \in Seq(Chunks) /\ hsize' \in Sizes /\ cancel' \in BOOLEAN
          /\ state' \in {"TRANSMIT", "RECEIVE"} /\ last'.rc \in TctiCodes /\ clean' \in BOOLEAN
      BY <1>1, <2>1 DEF Apply, Returns, Calls
    <2> QED
      BY <2>2 DEF IInv, TypeOK, Apply, Chunks, Sizes, TctiStates
  <1>3. CASE c.rc = "TCTI_IO_ERROR"
    <2>1. ~clean'
      BY <1>3 DEF Apply, FatalCodes
    <2> QED
      BY <1>2, <2>1 DEF IInv, PlaceInv, EmptyInv, ResponseMatches
  <1>4. CASE c.rc # "TCTI_IO_ERROR"
    <2>1. clean' => clean
      BY DEF Apply
    <2>2. Placed(c.hsize, c.wire) => Placed(c.hsize, c.wire)'
      BY <1>1 DEF Placed, Unanswered, InPlace, PlaceLost, Apply
    <2>3. PlaceInv'
      <3>1. Placed(c.hsize, c.wire) /\ state' = "RECEIVE" => Placed(hsize, wire)'
        BY <2>2 DEF Apply, Placed, Unanswered, InPlace, PlaceLost
      <3>2. clean /\ c.state = "RECEIVE" => Placed(c.hsize, c.wire)
        BY <1>4 DEF Ended, CancelKept, Delivered, Told
      <3> QED
        BY <2>1, <3>1, <3>2 DEF PlaceInv, Apply
    <2>4. EmptyInv'
      BY <1>4, <2>1 DEF EmptyInv, Apply, Ended, CancelKept, Delivered, Told
    <2>5. ResponseMatches'
      BY <1>4, <2>1 DEF ResponseMatches, Apply, Returns, Ended, CancelKept, Delivered, Told, Body
    <2> QED
      BY <1>2, <2>3, <2>4, <2>5 DEF IInv
  <1> QED
    BY <1>3, <1>4

\* The simulator and the network.
LEMMA EnvironmentStep ==
  ASSUME IInv, Environment
  PROVE  IInv'
  <1>0. /\ wire \in Seq(Chunks) /\ flight \in Seq(Chunks) /\ todo \in Seq(1..MaxCmds)
        /\ Len(wire) \in Nat /\ Len(flight) \in Nat
    BY DEF IInv, TypeOK, Chunks
  <1>1. CASE Simulate
    <2>1. Head(todo) \in 1..MaxCmds /\ Tail(todo) \in Seq(1..MaxCmds)
      <3>1. todo # <<>>
        BY <1>1 DEF Simulate
      <3> QED
        BY <1>0, <3>1, HeadTailProperties
    <2>2. /\ Response(Head(todo)) \in Seq(Chunks) /\ Len(Response(Head(todo))) = BodyLen + 2
          /\ \A i \in 1..BodyLen + 2 : Response(Head(todo))[i] = ChunkAt(Head(todo), i)
      BY <2>1, ResponseSeq
    <2>3. flight' \in Seq(Chunks)
      BY <1>0, <1>1, <2>2 DEF Simulate
    <2>4. TypeOK'
      BY <1>1, <2>1, <2>3 DEF Simulate, client, IInv, TypeOK, Chunks
    <2>5. ASSUME clean, state = "RECEIVE" PROVE InPlace(0, wire, 0)' /\ hsize' = 0
      <3>1. Unanswered(hsize, wire)
        BY <1>1, <2>5 DEF IInv, PlaceInv, Placed, InPlace, PlaceLost, Simulate
      <3>2. Head(todo) = sent /\ Tail(todo) = <<>> /\ flight = <<>> /\ wire = <<>>
        BY <3>1 DEF Unanswered
      <3>3. flight' = Response(sent)
        BY <1>1, <2>2, <3>2, ConcatEmptySeq DEF Simulate
      <3>4. /\ todo' = <<>> /\ wire' = <<>> /\ sent' = sent /\ hsize' = 0
        BY <1>1, <3>1, <3>2 DEF Simulate, client, Unanswered
      <3>5. /\ Len(flight') = BodyLen + 2 /\ Len(wire') = 0
            /\ \A i \in 1..Len(flight') : flight'[i] = ChunkAt(sent', 0 + Len(wire') + i)
        BY <2>2, <3>2, <3>3, <3>4
      <3> QED
        BY <3>4, <3>5, MssimAssumption DEF InPlace
    <2>6. PlaceInv' /\ EmptyInv' /\ ResponseMatches'
      BY <1>1, <2>5 DEF Simulate, client, IInv, PlaceInv, Placed, EmptyInv, ResponseMatches
    <2> QED
      BY <2>4, <2>6 DEF IInv
  <1>2. CASE Arrive
    <2>1. /\ Head(flight) \in Chunks /\ Tail(flight) \in Seq(Chunks) /\ Len(Tail(flight)) = Len(flight) - 1
          /\ Head(flight) = flight[1] /\ \A i \in 1..Len(flight) - 1 : Tail(flight)[i] = flight[i + 1]
          /\ 1 <= Len(flight)
      BY <1>0, <1>2 DEF Arrive
    <2>2. /\ wire' \in Seq(Chunks) /\ Len(wire') = Len(wire) + 1
          /\ wire'[Len(wire) + 1] = flight[1]
          /\ \A i \in 1..Len(wire) : wire'[i] = wire[i]
      BY <1>0, <1>2, <2>1, AppendProperties DEF Arrive
    <2>3. TypeOK'
      BY <1>2, <2>1, <2>2 DEF Arrive, client, IInv, TypeOK, Chunks
    <2>4. ASSUME NEW h, NEW pos \in {0, 1}, InPlace(h, wire, pos) PROVE InPlace(h, wire, pos)'
      <3>1. Len(wire') + Len(flight') <= BodyLen + 2 - pos
        BY <1>0, <1>2, <2>1, <2>2, <2>4 DEF InPlace, Arrive
      <3>2. ASSUME NEW i \in 1..Len(wire') PROVE wire'[i] = ChunkAt(sent, pos + i)
        <4>1. CASE i \in 1..Len(wire)
          BY <2>2, <2>4, <4>1 DEF InPlace
        <4>2. CASE i = Len(wire) + 1
          BY <1>0, <2>1, <2>2, <2>4, <4>2 DEF InPlace
        <4> QED
          BY <1>0, <2>2, <3>2, <4>1, <4>2
      <3>3. ASSUME NEW i \in 1..Len(flight') PROVE flight'[i] = ChunkAt(sent, pos + Len(wire') + i)
        <4>1. flight'[i] = flight[i + 1] /\ i + 1 \in 1..Len(flight) /\ i \in Nat
          BY <1>0, <1>2, <2>1, <3>3 DEF Arrive
        <4>2. flight[i + 1] = ChunkAt(sent, pos + Len(wire) + (i + 1))
          BY <2>4, <4>1 DEF InPlace
        <4>3. pos + Len(wire) + (i + 1) = pos + Len(wire') + i
          BY <1>0, <2>2, <4>1
        <4> QED
          BY <4>1, <4>2, <4>3
      <3> QED
        BY <1>2, <2>4, <3>1, <3>2, <3>3 DEF InPlace, Arrive
    <2>5. PlaceLost(hsize, wire) => PlaceLost(hsize, wire)'
      BY <1>0, <1>2, <2>1, <2>2 DEF PlaceLost, Arrive, client
    <2>6. clean /\ state = "RECEIVE" => Placed(hsize, wire)'
      BY <1>2, <2>4, <2>5 DEF IInv, PlaceInv, Placed, Unanswered, Arrive, client, InPlace
    <2>7. PlaceInv' /\ EmptyInv' /\ ResponseMatches'
      BY <1>2, <2>6 DEF IInv, PlaceInv, EmptyInv, ResponseMatches, Arrive, client
    <2> QED
      BY <2>3, <2>7 DEF IInv
  <1>3. CASE Disconnect
    <2>1. <<>> \in Seq(1..MaxCmds) /\ <<>> \in Seq(Chunks) /\ Len(<<>>) = 0
      BY EmptySeq
    <2>2. TypeOK'
      BY <1>3, <2>1 DEF Disconnect, client, IInv, TypeOK, Chunks
    <2>3. Unanswered(hsize, wire) => InPlace(hsize, wire, 0)'
      BY <1>3, <2>1, MssimAssumption DEF Unanswered, InPlace, Disconnect, client
    <2>4. ASSUME NEW pos \in {0, 1} PROVE InPlace(hsize, wire, pos) => InPlace(hsize, wire, pos)'
      BY <1>0, <1>3, <2>1, MssimAssumption DEF InPlace, Disconnect, client
    <2>5. PlaceLost(hsize, wire) => PlaceLost(hsize, wire)'
      BY <1>0, <1>3, <2>1 DEF PlaceLost, Disconnect, client
    <2>6. PlaceInv' /\ EmptyInv' /\ ResponseMatches'
      BY <1>3, <2>3, <2>4, <2>5 DEF IInv, PlaceInv, Placed, EmptyInv, ResponseMatches, Disconnect, client
    <2> QED
      BY <2>2, <2>6 DEF IInv
  <1> QED
    BY <1>1, <1>2, <1>3 DEF Environment

\* A call that is refused.
LEMMA RefusedStep ==
  ASSUME IInv, NEW op, NEW rc \in RetryCodes, Refused(op, rc)
  PROVE  IInv'
  <1>1. last'.op = op /\ last'.rc = rc /\ last'.rc \in TctiCodes /\ rc # "SUCCESS"
    BY DEF Refused, Returns, TctiCodes, RetryCodes
  <1>2. TypeOK'
    BY <1>1 DEF IInv, TypeOK, Refused
  <1>3. PlaceInv'
    BY DEF IInv, PlaceInv, Placed, Unanswered, InPlace, PlaceLost, Refused
  <1> QED
    BY <1>1, <1>2, <1>3 DEF IInv, EmptyInv, ResponseMatches, Refused

LEMMA TransmitStep ==
  ASSUME IInv, transmit
  PROVE  IInv'
  <1>1. CASE Refused("transmit", "TCTI_BAD_SEQUENCE") \/ Refused("transmit", "TCTI_BAD_VALUE")
    BY <1>1, RefusedStep DEF RetryCodes
  <1> DEFINE Sends == /\ conn /\ sent' = sent + 1 /\ todo' = Append(todo, sent') /\ state' = "RECEIVE"
                      /\ Returns("transmit", "SUCCESS")
             Breaks == ~conn /\ Returns("transmit", "TCTI_IO_ERROR") /\ UNCHANGED <<state, todo, sent>>
  <1> SUFFICES ASSUME transmit_checks(state), sent < MaxCmds, Sends \/ Breaks,
                      UNCHANGED <<calm, hsize, cancel, locality, conn, flight, wire, data, clean>>
               PROVE  IInv'
    BY <1>1 DEF transmit
  <1>2. CASE transmit_checks(state) /\ conn
    <2>1. /\ sent' = sent + 1 /\ sent' \in 1..MaxCmds /\ todo' = Append(todo, sent') /\ state' = "RECEIVE"
          /\ last' = [op |-> "transmit", rc |-> "SUCCESS"]
          /\ UNCHANGED <<calm, hsize, cancel, locality, conn, flight, wire, data, clean>>
      BY <1>2, MssimAssumption DEF Returns, IInv, TypeOK
    <2>2. todo' \in Seq(1..MaxCmds) /\ last'.rc \in TctiCodes /\ sent' \in 0..MaxCmds
          /\ state' \in TctiStates \ {"FINAL"}
      <3>1. todo \in Seq(1..MaxCmds)
        BY DEF IInv, TypeOK
      <3> QED
        BY <2>1, <3>1, AppendProperties, MssimAssumption DEF TctiCodes, TctiStates
    <2>3. TypeOK'
      BY <2>1, <2>2 DEF IInv, TypeOK
    <2>4. clean => Unanswered(hsize, wire)'
      BY <1>2, <2>1 DEF IInv, EmptyInv, Unanswered, transmit_checks
    <2> QED
      BY <2>1, <2>3, <2>4 DEF IInv, PlaceInv, Placed, EmptyInv, ResponseMatches
  <1>3. CASE transmit_checks(state) /\ ~conn
    <2>1. /\ last' = [op |-> "transmit", rc |-> "TCTI_IO_ERROR"] /\ last'.rc \in TctiCodes
          /\ UNCHANGED <<calm, hsize, cancel, locality, conn, flight, wire, data, clean, state, todo, sent>>
      BY <1>3 DEF Returns, TctiCodes, FatalCodes
    <2>2. TypeOK'
      BY <2>1 DEF IInv, TypeOK
    <2> QED
      BY <1>3, <2>1, <2>2 DEF IInv, PlaceInv, EmptyInv, ResponseMatches, transmit_checks
  <1> QED
    BY <1>1, <1>2, <1>3

LEMMA CancelStep ==
  ASSUME IInv, cancel_cmd
  PROVE  IInv'
  <1>1. CASE ~cancel_checks(state)
    BY <1>1, RefusedStep DEF cancel_cmd, RetryCodes
  <1>2. CASE cancel_checks(state)
    <2>1. /\ last'.op = "cancel" /\ last'.rc \in TctiCodes
          /\ UNCHANGED <<calm, hsize, locality, conn, todo, flight, wire, sent, data>>
          /\ \/ state' = "TRANSMIT" /\ cancel' = TRUE /\ clean' = FALSE
             \/ UNCHANGED <<state, cancel, clean>>
      BY <1>2 DEF cancel_cmd, Returns, TctiCodes, FatalCodes
    <2>2. TypeOK'
      BY <2>1 DEF IInv, TypeOK, TctiStates
    <2>3. PlaceInv'
      BY <2>1 DEF IInv, PlaceInv, Placed, Unanswered, InPlace, PlaceLost
    <2> QED
      BY <2>1, <2>2, <2>3 DEF IInv, EmptyInv, ResponseMatches
  <1> QED
    BY <1>1, <1>2

LEMMA SetLocalityStep ==
  ASSUME IInv, set_locality
  PROVE  IInv'
  <1>1. CASE ~set_locality_checks(state)
    BY <1>1, RefusedStep DEF set_locality, RetryCodes
  <1>2. CASE set_locality_checks(state)
    <2>1. /\ last'.op = "setLocality" /\ last'.rc \in TctiCodes /\ locality' \in {0, 1}
          /\ UNCHANGED <<calm, state, hsize, cancel, conn, todo, flight, wire, sent, data, clean>>
      BY <1>2 DEF set_locality, Returns, TctiCodes, IInv, TypeOK
    <2>2. TypeOK'
      BY <2>1 DEF IInv, TypeOK
    <2> QED
      BY <1>2, <2>1, <2>2 DEF IInv, PlaceInv, EmptyInv, ResponseMatches, set_locality_checks
  <1> QED
    BY <1>1, <1>2

LEMMA FinalizeStep ==
  ASSUME IInv, finalize
  PROVE  IInv'
  <1>0. <<>> \in Seq(1..MaxCmds) /\ <<>> \in Seq(Chunks) /\ Len(<<>>) = 0
    BY EmptySeq
  <1>1. /\ last'.op = "finalize" /\ last'.rc \in TctiCodes
        /\ conn' = FALSE /\ todo' = <<>> /\ flight' = <<>> /\ wire' = <<>>
        /\ UNCHANGED <<calm, state, hsize, cancel, locality, sent, data, clean>>
    BY DEF finalize, Returns, TctiCodes
  <1>2. TypeOK'
    BY <1>0, <1>1 DEF IInv, TypeOK, Chunks
  <1>3. ASSUME Placed(hsize, wire) PROVE Placed(hsize, wire)'
    <2>1. hsize = 0 \/ hsize = BodyLen
      BY <1>3, MssimAssumption DEF Placed, Unanswered, InPlace, PlaceLost
    <2>2. CASE hsize = 0
      BY <1>0, <1>1, <2>2, MssimAssumption DEF Placed, InPlace
    <2>3. CASE hsize = BodyLen
      BY <1>0, <1>1, <2>3 DEF Placed, PlaceLost
    <2> QED
      BY <2>1, <2>2, <2>3
  <1> QED
    BY <1>1, <1>2, <1>3 DEF IInv, PlaceInv, EmptyInv, ResponseMatches

LEMMA NextIInv == IInv /\ [Next]_vars => IInv'
  <1> SUFFICES ASSUME IInv, [Next]_vars PROVE IInv'
    OBVIOUS
  <1>1. ASSUME NEW t \in Timeouts, size(t) PROVE IInv'
    <2>1. CASE ~receive_checks(state)
      BY <1>1, <2>1, RefusedStep DEF size, RetryCodes
    <2>2. CASE receive_checks(state)
      <3>1. PICK c \in size_calls(t) : Apply("size", c)
        BY <1>1, <2>2 DEF size
      <3>2. Told(c) \/ Ended(c)
        BY <2>2, SizeCalls DEF IInv, receive_checks
      <3> QED
        BY <3>1, <3>2, ApplyStep
    <2> QED
      BY <2>1, <2>2
  <1>2. ASSUME NEW t \in Timeouts, NEW small \in BOOLEAN, receive(small, t) PROVE IInv'
    <2>1. CASE ~receive_checks(state)
      BY <1>2, <2>1, RefusedStep DEF receive, RetryCodes
    <2>2. CASE receive_checks(state)
      <3>1. PICK c \in receive_calls(small, t) : Apply("receive", c)
        BY <1>2, <2>2 DEF receive
      <3>2. Delivered(c) \/ Ended(c) \/ CancelKept(c)
        BY <2>2, ReceiveCalls DEF IInv, receive_checks
      <3> QED
        BY <3>1, <3>2, ApplyStep
    <2> QED
      BY <2>1, <2>2
  <1>3. CASE UNCHANGED vars
    <2>1. TypeOK'
      BY <1>3 DEF IInv, TypeOK, vars
    <2>2. PlaceInv'
      BY <1>3 DEF IInv, PlaceInv, Placed, Unanswered, InPlace, PlaceLost, vars
    <2> QED
      BY <1>3, <2>1, <2>2 DEF IInv, EmptyInv, ResponseMatches, vars
  <1> QED
    BY <1>1, <1>2, <1>3, TransmitStep, CancelStep, SetLocalityStep, FinalizeStep, EnvironmentStep
       DEF Next, Client

\* The invariant holds at any time.
LEMMA Invariance == Spec => []IInv
  BY InitIInv, NextIInv, PTL DEF Spec

\* However the chunks of a response arrive, whatever calls time out or are
\* repeated and whenever the connection breaks, a successful receive delivers
\* the response to the last command and nothing else, and a context that is
\* ready to transmit has an empty stream (tcti_mssim_receive).
THEOREM ResponseDelivered == Spec => []StreamInv
  <1>1. IInv => StreamInv
    <2>1. <<>> \o <<>> \o <<>> = <<>>
      BY EmptySeq, ConcatEmptySeq
    <2> QED
      BY <2>1 DEF IInv, StreamInv, EmptyInv, NoStrayBytes
  <1> QED
    BY <1>1, Invariance, PTL

-----------------------------------------------------------------------------
(* The contract of tcti-common.h.                                          *)

\* In a calm behaviour every step is a step of the contract.
LEMMA CalmStep ==
  ASSUME IInv, calm, [Next]_vars
  PROVE  calm' /\ (Contract!Next \/ UNCHANGED <<state, last>>)
  <1> USE DEF Contract!Returns, Contract!Refused, Contract!transmit_checks, Contract!receive_checks,
              Contract!cancel_checks, Contract!set_locality_checks, transmit_checks, receive_checks,
              cancel_checks, set_locality_checks, Refused, Returns
  <1>c. /\ {"TCTI_IO_ERROR", "TCTI_BAD_VALUE"} \subseteq Contract!TctiCodes \ {"SUCCESS"} /\ "SUCCESS" \in Contract!TctiCodes
        /\ {"TCTI_TRY_AGAIN", "TCTI_INSUFFICIENT_BUFFER"} \subseteq Contract!RetryCodes
        /\ "TCTI_IO_ERROR" \in Contract!FatalCodes
    BY DEF Contract!TctiCodes, Contract!FatalCodes, Contract!RetryCodes
  <1>1. CASE transmit
    BY <1>1, <1>c DEF transmit, Contract!Next, Contract!Transmit
  <1>2. CASE cancel_cmd
    BY <1>2, <1>c DEF cancel_cmd, Contract!Next, Contract!Cancel
  <1>3. CASE set_locality
    BY <1>3, <1>c DEF set_locality, Contract!Next, Contract!SetLocality
  <1>4. CASE Environment
    BY <1>4 DEF Environment, Simulate, Arrive, Disconnect, client
  <1>5. ASSUME NEW t \in Timeouts, size(t) PROVE calm' /\ Contract!Next
    <2>1. CASE ~receive_checks(state)
      BY <1>5, <2>1 DEF size, Contract!Next, Contract!Size
    <2>2. CASE receive_checks(state)
      <3>1. PICK c \in size_calls(t) : Apply("size", c)
        BY <1>5, <2>2 DEF size
      <3>2. Told(c) \/ Ended(c)
        BY <2>2, SizeCalls DEF IInv
      <3>3. /\ calm' /\ state' = c.state /\ last' = [op |-> "size", rc |-> c.rc]
            /\ \/ c.rc \in {"SUCCESS", "TCTI_TRY_AGAIN", "TCTI_INSUFFICIENT_BUFFER"} /\ c.state = "RECEIVE"
               \/ c.rc = "TCTI_IO_ERROR" /\ c.state = "TRANSMIT"
        BY <3>1, <3>2 DEF Apply, Told, Ended
      <3> QED
        BY <1>c, <2>2, <3>3 DEF Contract!Next, Contract!Size
    <2> QED
      BY <2>1, <2>2
  <1>6. ASSUME NEW t \in Timeouts, NEW small \in BOOLEAN, receive(small, t) PROVE calm' /\ Contract!Next
    <2>1. CASE ~receive_checks(state)
      BY <1>6, <2>1 DEF receive, Contract!Next, Contract!Receive
    <2>2. CASE receive_checks(state)
      <3>1. PICK c \in receive_calls(small, t) : Apply("receive", c)
        BY <1>6, <2>2 DEF receive
      <3>2. Delivered(c) \/ Ended(c)
        BY <2>2, ReceiveCalls DEF IInv, CancelKept
      <3>3. /\ calm' /\ state' = c.state /\ last' = [op |-> "receive", rc |-> c.rc]
            /\ \/ c.rc \in {"TCTI_TRY_AGAIN", "TCTI_INSUFFICIENT_BUFFER"} /\ c.state = "RECEIVE"
               \/ c.rc \in {"SUCCESS", "TCTI_IO_ERROR"} /\ c.state = "TRANSMIT"
        BY <3>1, <3>2 DEF Apply, Delivered, Ended
      <3> QED
        BY <1>c, <2>2, <3>3 DEF Contract!Next, Contract!Receive
    <2> QED
      BY <2>1, <2>2
  <1>7. CASE UNCHANGED vars
    BY <1>7 DEF vars
  <1> QED
    BY <1>1, <1>2, <1>3, <1>4, <1>5, <1>6, <1>7 DEF Next, Client, finalize

\* A context whose platform commands do not fail, and whose client does not
\* finalize it, is the state machine the comment of tcti-common.h documents,
\* on a stream that times out, fails and breaks at any point.
THEOREM Refinement == Spec => ImplementsContract
  <1>1. Init => Contract!Init
    BY DEF Init, Contract!Init
  <1>2. IInv /\ [Next]_vars => [Contract!Next]_(Contract!vars)
    <2> SUFFICES ASSUME IInv, [Next]_vars PROVE [Contract!Next]_(Contract!vars)
      OBVIOUS
    <2>2. CASE calm
      BY <2>2, CalmStep DEF Contract!vars
    <2>3. CASE ~calm
      <3>1. calm' = calm
        BY DEF Next, Client, Environment, vars, client, transmit, cancel_cmd, set_locality, finalize, Simulate,
           Arrive, Disconnect, size, receive, Apply, Refused
      <3> QED
        BY <2>3, <3>1 DEF Contract!vars
    <2> QED
      BY <2>2, <2>3
  <1> QED
    BY <1>1, <1>2, Invariance, PTL DEF Spec, ImplementsContract, Contract!Spec

=============================================================================
