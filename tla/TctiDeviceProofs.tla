-------------------------- MODULE TctiDeviceProofs ---------------------------
(***************************************************************************)
(* Proofs about TctiDevice, for every number of commands, every length of  *)
(* a response and every set of faults.                                     *)
(***************************************************************************)
EXTENDS TctiDevice, SequenceTheorems, TLAPS

-----------------------------------------------------------------------------
(* The inductive invariant.                                                *)

\* While the TPM executes a command there is nothing to read.
BusyInv == busy => state = "RECEIVE" /\ unread = <<>> /\ ~partial /\ ~eof

\* A kept header outlives a receive only when the connection has ended.
PartialInv == partial => state = "RECEIVE" \/ eof

\* A kept header is the beginning of the response to the last command; the
\* driver has the rest, and the client knows the size.
KeptInv ==
    ~reread /\ partial =>
        /\ driver = "parts" /\ known \in 1..MaxLen
        /\ answer = Response(sent, known) /\ header = answer[1]
        /\ unread = IF eof THEN <<>> ELSE SubSeq(answer, 2, known)

\* At the end of the connection there is nothing to read.
EofInv == eof => unread = <<>>

\* Without a kept header the driver has the whole response.
FreshInv ==
    ~reread /\ ~partial /\ state = "RECEIVE" /\ unread # <<>> =>
        \E len \in 1..MaxLen : answer = Response(sent, len) /\ unread = answer

\* After a successful receive no command is being executed.
DoneInv == ~reread /\ last.op = "receive" /\ last.rc = "SUCCESS" => ~busy

\* In a calm behaviour nothing is read twice and only finalize ends the
\* connection.
CalmInv == calm => ~reread /\ (eof => state = "FINAL")

Inv ==
    /\ BusyInv /\ PartialInv /\ EofInv /\ KeptInv /\ FreshInv /\ DoneInv /\ CalmInv
    /\ ResponseMatches /\ NothingKept
IInv == TypeOK /\ Inv

-----------------------------------------------------------------------------
(* Responses and parts of them.                                            *)

\* A response is a sequence of its chunks.
LEMMA ResponseSeq ==
  ASSUME NEW n \in 0..MaxCmds, NEW len \in 1..MaxLen
  PROVE  /\ Response(n, len) \in Seq(Chunks)
         /\ Len(Response(n, len)) = len
         /\ \A i \in 1..len : Response(n, len)[i] = Chunk(n, i, len)
         /\ Response(n, len) # <<>>
  <1>1. \A i \in 1..len : Chunk(n, i, len) \in Chunks
    BY DeviceAssumption DEF Chunk, Chunks
  <1>2. Response(n, len) \in [1..len -> Chunks]
    BY <1>1 DEF Response
  <1> QED
    BY <1>2, DeviceAssumption DEF Response

\* The first chunk of a response, put before the others, gives the response.
LEMMA HeaderAndRest ==
  ASSUME NEW n \in 0..MaxCmds, NEW len \in 1..MaxLen
  PROVE  LET r == Response(n, len) IN
         /\ SubSeq(r, 2, len) \in Seq(Chunks)
         /\ Len(SubSeq(r, 2, len)) = len - 1
         /\ <<r[1]>> \o SubSeq(r, 2, len) = r
  <1> DEFINE r == Response(n, len)
  <1>1. r \in Seq(Chunks) /\ Len(r) = len /\ r[1] = Chunk(n, 1, len)
    BY ResponseSeq, DeviceAssumption
  <1>2. SubSeq(r, 1, len) = <<r[1]>> \o SubSeq(r, 2, len)
    <2> HIDE DEF r
    <2>1. 1 \in 1..Len(r) /\ len \in 1..Len(r)
      BY <1>1, DeviceAssumption
    <2>2. SubSeq(r, 1, len) = <<r[1]>> \o SubSeq(r, 1 + 1, len)
      BY <1>1, <2>1, SubSeqRecursiveFirst
    <2> QED
      BY <2>2
  <1>3. SubSeq(r, 1, len) = r
    <2> HIDE DEF r
    <2> QED
      BY <1>1, SubSeqFull
  <1>4. \A i \in 2..len : r[i] \in Chunks
    <2> HIDE DEF r
    <2> QED
      BY <1>1, ElementOfSeq, DeviceAssumption
  <1>5. SubSeq(r, 2, len) \in Seq(Chunks) /\ Len(SubSeq(r, 2, len)) = len - 1
    <2> HIDE DEF r
    <2>1. 2 \in Int /\ len \in Int
      BY DeviceAssumption
    <2> QED
      BY <1>4, <2>1, SubSeqProperties, DeviceAssumption
  <1> QED
    BY <1>2, <1>3, <1>5

\* What a read takes and leaves are sequences of chunks.
LEMMA ReadSeq ==
  ASSUME unread \in Seq(Chunks), NEW n \in 0..Len(unread)
  PROVE  /\ Took(n) \in Seq(Chunks) /\ Len(Took(n)) = n
         /\ Left(n) \in Seq(Chunks)
         /\ n > 0 => Took(n)[1] = unread[1]
         /\ n = Len(unread) => Took(n) = unread /\ Left(n) = <<>>
  <1>0. Len(unread) \in Nat
    OBVIOUS
  <1>1. \A i \in 1..Len(unread) : unread[i] \in Chunks
    OBVIOUS
  <1>2. Took(n) \in Seq(Chunks) /\ Len(Took(n)) = n /\ \A i \in 1..n : Took(n)[i] = unread[i]
    <2>1. \A i \in 1..n : unread[i] \in Chunks
      BY <1>0, <1>1
    <2>2. /\ SubSeq(unread, 1, n) \in Seq(Chunks)
          /\ Len(SubSeq(unread, 1, n)) = IF 1 <= n THEN n - 1 + 1 ELSE 0
          /\ \A i \in 1..n - 1 + 1 : SubSeq(unread, 1, n)[i] = unread[1 + i - 1]
      BY <1>0, <2>1, SubSeqProperties
    <2> QED
      BY <1>0, <2>2 DEF Took
  <1>3. SubSeq(unread, n + 1, Len(unread)) \in Seq(Chunks)
    <2>1. \A i \in n + 1..Len(unread) : unread[i] \in Chunks
      BY <1>0, <1>1
    <2> QED
      BY <1>0, <2>1, SubSeqProperties
  <1>4. Left(n) \in Seq(Chunks)
    BY <1>3 DEF Left
  <1>5. n = Len(unread) => Took(n) = unread
    BY SubSeqFull DEF Took
  <1>6. n = Len(unread) => Left(n) = <<>>
    BY <1>0, SubSeqEmpty DEF Left
  <1> QED
    BY <1>0, <1>2, <1>4, <1>5, <1>6

\* What a receive delivers is a sequence of chunks that begins with the header.
LEMMA DeliveredSeq ==
  ASSUME TypeOK, unread # <<>>, NEW n \in 1..MaxLen
  PROVE  /\ Delivered(n) \in Seq(Chunks)
         /\ Left(Least(IF partial THEN n - 1 ELSE n, Len(unread))) \in Seq(Chunks)
         /\ Delivered(n)[1] = IF partial THEN header ELSE unread[1]
  <1>1. unread \in Seq(Chunks) /\ Len(unread) \in Nat \ {0} /\ header \in Chunks
    BY EmptySeq DEF TypeOK
  <1>2. n \in Nat \ {0} /\ n - 1 \in Nat
    BY DeviceAssumption
  <1>3. /\ Least(n - 1, Len(unread)) \in 0..Len(unread)
        /\ Least(n, Len(unread)) \in 1..Len(unread)
    BY <1>1, <1>2 DEF Least
  <1>4. CASE partial
    <2>1. Took(Least(n - 1, Len(unread))) \in Seq(Chunks) /\ Left(Least(n - 1, Len(unread))) \in Seq(Chunks)
      BY <1>1, <1>3, ReadSeq
    <2>2. <<header>> \in Seq(Chunks) /\ Len(<<header>>) = 1 /\ <<header>>[1] = header
      BY <1>1
    <2>3. /\ <<header>> \o Took(Least(n - 1, Len(unread))) \in Seq(Chunks)
          /\ (<<header>> \o Took(Least(n - 1, Len(unread))))[1] = header
      BY <2>1, <2>2
    <2> QED
      BY <1>4, <2>1, <2>3 DEF Delivered
  <1>5. CASE ~partial
    BY <1>1, <1>3, <1>5, ReadSeq DEF Delivered
  <1> QED
    BY <1>4, <1>5

\* Unless the size was asked for twice, a receive that succeeds delivers the
\* whole response to the last command and leaves nothing to read.
LEMMA DeliveredWhole ==
  ASSUME IInv, ~reread, state = "RECEIVE", unread # <<>>, NEW n \in 1..MaxLen,
         known # 0 => n = known, "SUCCESS" \in Verdicts(n)
  PROVE  /\ Delivered(n) = answer /\ answer[1].cmd = sent
         /\ Left(Least(IF partial THEN n - 1 ELSE n, Len(unread))) = <<>>
  <1>1. unread \in Seq(Chunks) /\ Len(unread) \in Nat \ {0} /\ sent \in 0..MaxCmds
    BY EmptySeq DEF IInv, TypeOK
  <1>2. n \in Nat \ {0}
    BY DeviceAssumption
  <1>3. CASE partial
    <2>1. /\ known \in 1..MaxLen /\ n = known
          /\ answer = Response(sent, known) /\ header = answer[1] /\ unread = SubSeq(answer, 2, known)
      BY <1>3, DeviceAssumption DEF IInv, Inv, KeptInv
    <2>2. Len(unread) = n - 1 /\ <<header>> \o unread = answer
      BY <1>1, <2>1, HeaderAndRest
    <2>3. Least(n - 1, Len(unread)) = Len(unread)
      BY <1>1, <2>2 DEF Least
    <2>4. Took(Len(unread)) = unread /\ Left(Len(unread)) = <<>>
      BY <1>1, ReadSeq
    <2>5. answer[1] = Chunk(sent, 1, known)
      BY <1>1, <2>1, ResponseSeq, DeviceAssumption
    <2> QED
      BY <1>3, <2>2, <2>3, <2>4, <2>5 DEF Delivered, Chunk
  <1>4. CASE ~partial
    <2>1. PICK len \in 1..MaxLen : answer = Response(sent, len) /\ unread = answer
      BY <1>4 DEF IInv, Inv, FreshInv
    <2>2. Len(unread) = len /\ answer[1] = Chunk(sent, 1, len) /\ len \in Nat
      BY <1>1, <2>1, ResponseSeq, DeviceAssumption
    <2>3. Delivered(n)[1] = unread[1]
      BY <1>4, DeliveredSeq DEF IInv
    <2>4. ~(n < len)
      BY <2>1, <2>2, <2>3 DEF Verdicts, Chunk
    <2>5. Least(n, Len(unread)) = Len(unread)
      BY <1>1, <1>2, <2>2, <2>4 DEF Least
    <2>6. Took(Len(unread)) = unread /\ Left(Len(unread)) = <<>>
      BY <1>1, ReadSeq
    <2> QED
      BY <1>4, <2>1, <2>2, <2>5, <2>6 DEF Delivered, Chunk
  <1> QED
    BY <1>3, <1>4

-----------------------------------------------------------------------------
(* Invariance.                                                             *)

\* The initial states satisfy the invariant.
LEMMA InitIInv == Init => IInv
  <1> SUFFICES ASSUME Init PROVE IInv
    OBVIOUS
  <1>1. TypeOK
    <2>1. NoChunk \in Chunks
      BY DeviceAssumption DEF NoChunk, Chunk, Chunks
    <2>2. {calm, partial, busy, eof, clean, reread} \subseteq BOOLEAN
      BY DEF Init
    <2>3. unread \in Seq(Chunks) /\ data \in Seq(Chunks) /\ answer \in Seq(Chunks)
      BY EmptySeq DEF Init
    <2>4. known \in 0..MaxLen /\ sent \in 0..MaxCmds
      BY DeviceAssumption DEF Init
    <2>5. last.rc \in TctiCodes
      BY DEF Init, TctiCodes
    <2> QED
      BY <2>1, <2>2, <2>3, <2>4, <2>5 DEF Init, TypeOK, TctiStates
  <1>2. Inv
    BY DEF Init, Inv, BusyInv, PartialInv, EofInv, KeptInv, FreshInv, DoneInv, CalmInv, ResponseMatches, NothingKept
  <1> QED
    BY <1>1, <1>2 DEF IInv

\* A call that changes nothing in the context keeps the invariant, unless it is
\* a successful receive.
LEMMA AnswersStep ==
  ASSUME IInv, NEW op, NEW rc \in TctiCodes \ {"SUCCESS"}, Answers(op, rc)
  PROVE  IInv'
  <1>1. TypeOK'
    BY DEF IInv, TypeOK, Answers, Returns
  <1>2. Inv'
    BY DEF IInv, Inv, BusyInv, PartialInv, EofInv, KeptInv, FreshInv, DoneInv, CalmInv, ResponseMatches, NothingKept,
           Answers, Returns
  <1> QED
    BY <1>1, <1>2 DEF IInv

\* tcti_device_transmit.
LEMMA TransmitStep ==
  ASSUME IInv, transmit
  PROVE  IInv'
  <1>1. CASE Answers("transmit", "TCTI_BAD_SEQUENCE") \/ Answers("transmit", "TCTI_IO_ERROR")
    BY <1>1, AnswersStep DEF TctiCodes, RetryCodes, FatalCodes
  <1>2. CASE /\ transmit_checks(state) /\ ~eof /\ ~busy
             /\ sent < MaxCmds
             /\ state' = "RECEIVE"
             /\ sent' = sent + 1
             /\ busy' = TRUE /\ unread' = <<>> /\ known' = 0
             /\ Returns("transmit", "SUCCESS")
             /\ UNCHANGED <<calm, driver, partial, header, eof, data, answer, reread>>
    <2>1. ~partial
      BY <1>2 DEF IInv, Inv, PartialInv, transmit_checks
    <2>2. TypeOK'
      <3>1. sent' \in 0..MaxCmds /\ known' \in 0..MaxLen
        BY <1>2, DeviceAssumption DEF IInv, TypeOK
      <3>2. unread' \in Seq(Chunks) /\ last'.rc \in TctiCodes /\ clean' \in BOOLEAN
        BY <1>2, EmptySeq DEF Returns, TctiCodes
      <3> QED
        BY <1>2, <3>1, <3>2 DEF IInv, TypeOK, TctiStates
    <2>3. Inv'
      BY <1>2, <2>1 DEF IInv, Inv, BusyInv, PartialInv, EofInv, KeptInv, FreshInv, DoneInv, CalmInv, ResponseMatches,
         NothingKept, Returns
    <2> QED
      BY <2>2, <2>3 DEF IInv
  <1> QED
    BY <1>1, <1>2 DEF transmit

\* tcti_device_receive with a NULL buffer.
LEMMA SizeStep ==
  ASSUME IInv, NEW t \in Timeouts, size(t)
  PROVE  IInv'
  <1> USE DEF Inv
  <1>1. ASSUME NEW rc \in TctiCodes \ {"SUCCESS"}, Answers("size", rc) PROVE IInv'
    BY <1>1, AnswersStep
  <1>2. CASE state = "RECEIVE" /\ size_unknown
    <2>1. TypeOK'
      <3>1. known' \in 0..MaxLen /\ last'.rc \in TctiCodes /\ clean' \in BOOLEAN
        BY <1>2, DeviceAssumption DEF size_unknown, Returns, TctiCodes
      <3> QED
        BY <1>2, <3>1 DEF IInv, TypeOK, size_unknown
    <2>2. reread \/ ~partial
      BY <1>2 DEF IInv, KeptInv, size_unknown, supported
    <2>3. Inv'
      BY <1>2, <2>2 DEF IInv, BusyInv, PartialInv, EofInv, KeptInv, FreshInv, DoneInv, CalmInv, ResponseMatches,
         NothingKept, size_unknown, Returns
    <2> QED
      BY <2>1, <2>3 DEF IInv
  <1>3. CASE state = "RECEIVE" /\ size_header
    <2>1. /\ unread \in Seq(Chunks) /\ unread[1] \in Chunks /\ Left(1) \in Seq(Chunks)
          /\ unread[1].len \in 1..MaxLen
      <3>1. unread \in Seq(Chunks) /\ Len(unread) \in Nat \ {0}
        BY <1>3, EmptySeq DEF IInv, TypeOK, size_header
      <3>2. unread[1] \in Chunks
        BY <3>1
      <3>3. Left(1) \in Seq(Chunks)
        BY <3>1, ReadSeq
      <3>4. unread[1].len \in 1..MaxLen
        BY <3>2 DEF Chunks
      <3> QED
        BY <3>1, <3>2, <3>3, <3>4
    <2>2. TypeOK'
      <3>1. known' \in 0..MaxLen /\ last'.rc \in TctiCodes /\ clean' \in BOOLEAN
        BY <1>3, <2>1, DeviceAssumption DEF size_header, Returns, TctiCodes
      <3> QED
        BY <1>3, <2>1, <3>1 DEF IInv, TypeOK, size_header
    <2>3. BusyInv' /\ PartialInv' /\ EofInv' /\ DoneInv' /\ CalmInv' /\ ResponseMatches' /\ NothingKept' /\ FreshInv'
      BY <1>3 DEF IInv, BusyInv, PartialInv, EofInv, FreshInv, DoneInv, CalmInv, ResponseMatches, NothingKept,
         size_header, Returns
    <2>4. KeptInv'
      <3> SUFFICES ASSUME ~reread
                   PROVE  /\ driver = "parts" /\ known' \in 1..MaxLen
                          /\ answer = Response(sent, known') /\ header' = answer[1]
                          /\ unread' = IF eof THEN <<>> ELSE SubSeq(answer, 2, known')
        BY <1>3 DEF KeptInv, size_header
      <3>1. PICK len \in 1..MaxLen : answer = Response(sent, len) /\ unread = answer
        BY <1>3 DEF IInv, FreshInv, size_header
      <3>2. Len(unread) = len /\ unread[1] = Chunk(sent, 1, len)
        BY <3>1, ResponseSeq, DeviceAssumption DEF IInv, TypeOK
      <3>3. known' = len
        BY <1>3, <3>2 DEF size_header, Chunk
      <3>4. ~eof
        BY <1>3 DEF IInv, EofInv, size_header
      <3>5. unread' = SubSeq(unread, 2, len)
        BY <1>3, <3>2 DEF size_header, supported, Left
      <3> QED
        BY <1>3, <3>1, <3>3, <3>4, <3>5 DEF size_header, supported
    <2> QED
      BY <2>2, <2>3, <2>4 DEF IInv
  <1>4. CASE state = "RECEIVE" /\ size_again /\ (known = 0 \/ AsksAgain)
    <2>1. unread \in Seq(Chunks) /\ unread[1] \in Chunks /\ Left(1) \in Seq(Chunks)
      <3>1. unread \in Seq(Chunks) /\ Len(unread) \in Nat \ {0}
        BY <1>4, EmptySeq DEF IInv, TypeOK, size_again
      <3> QED
        BY <3>1, ReadSeq
    <2>2. TypeOK'
      <3>1. known' \in 0..MaxLen /\ header' \in Chunks
        BY <1>4, <2>1, DeviceAssumption DEF size_again, IInv, TypeOK
      <3>2. PICK rc \in {"SUCCESS", "TCTI_GENERAL_FAILURE", "TCTI_IO_ERROR"} : Returns("size", rc)
        BY <1>4 DEF size_again
      <3>3. last'.rc \in TctiCodes /\ clean' \in BOOLEAN
        BY <3>2 DEF Returns, TctiCodes, FatalCodes
      <3> QED
        BY <1>4, <2>1, <3>1, <3>3 DEF IInv, TypeOK, size_again
    <2>3. ~calm
      BY <1>4, DeviceAssumption DEF size_again, AsksAgain, IInv, CalmInv, KeptInv
    <2>4. ~busy
      BY <1>4 DEF size_again, IInv, BusyInv
    <2>5. Inv'
      BY <1>4, <2>3, <2>4 DEF IInv, BusyInv, PartialInv, EofInv, KeptInv, FreshInv, DoneInv, CalmInv, ResponseMatches,
         NothingKept, size_again
    <2> QED
      BY <2>2, <2>5 DEF IInv
  <1> QED
    BY <1>1, <1>2, <1>3, <1>4
       DEF size, size_eof, NotReadable, receive_checks, TctiCodes, RetryCodes, FatalCodes

\* tcti_device_receive with a buffer of n chunks: the kept header is the response.
LEMMA ReceiveKeptStep ==
  ASSUME IInv, state = "RECEIVE", NEW n \in 1..MaxLen, known # 0 => n = known, receive_kept(n)
  PROVE  IInv'
  <1> USE DEF Inv
  <1>1. TypeOK'
    <2>1. <<header>> \in Seq(Chunks)
      BY DEF IInv, TypeOK
    <2>2. last'.rc \in TctiCodes /\ clean' \in BOOLEAN
      BY DEF receive_kept, Returns, TctiCodes
    <2> QED
      BY <2>1, <2>2 DEF IInv, TypeOK, receive_kept, TctiStates
  <1>2. BusyInv' /\ PartialInv' /\ EofInv' /\ KeptInv' /\ FreshInv' /\ CalmInv' /\ ~busy
    BY DEF IInv, BusyInv, PartialInv, EofInv, KeptInv, FreshInv, CalmInv, receive_kept
  <1>3. ~reread => unread = <<>> /\ <<header>> = answer /\ answer[1].cmd = sent
    <2> SUFFICES ASSUME ~reread PROVE unread = <<>> /\ <<header>> = answer /\ answer[1].cmd = sent
      OBVIOUS
    <2>1. /\ known = 1 /\ answer = Response(sent, 1) /\ header = answer[1]
          /\ unread = IF eof THEN <<>> ELSE SubSeq(answer, 2, 1)
      BY DEF IInv, KeptInv, receive_kept
    <2>2. unread = <<>>
      BY <2>1, SubSeqEmpty
    <2>3. answer \in Seq(Chunks) /\ Len(answer) = 1 /\ answer[1] = Chunk(sent, 1, 1)
      <3>1. sent \in 0..MaxCmds /\ 1 \in 1..MaxLen /\ 1 \in 1..1
        BY DeviceAssumption DEF IInv, TypeOK
      <3>2. /\ Response(sent, 1) \in Seq(Chunks) /\ Len(Response(sent, 1)) = 1
            /\ \A i \in 1..1 : Response(sent, 1)[i] = Chunk(sent, i, 1)
        BY <3>1, ResponseSeq
      <3> QED
        BY <2>1, <3>1, <3>2
    <2>4. <<answer[1]>> = answer
      BY <2>3, SeqEqual
    <2> QED
      BY <2>1, <2>2, <2>3, <2>4 DEF Chunk
  <1>4. DoneInv' /\ ResponseMatches' /\ NothingKept'
    BY <1>2, <1>3 DEF DoneInv, ResponseMatches, NothingKept, receive_kept
  <1> QED
    BY <1>1, <1>2, <1>4 DEF IInv

\* tcti_device_receive with a buffer of n chunks: a read.
LEMMA ReceiveReadStep ==
  ASSUME IInv, state = "RECEIVE", NEW n \in 1..MaxLen, known # 0 => n = known, receive_read(n)
  PROVE  IInv'
  <1> USE DEF Inv
  <1>0. PICK rc \in Verdicts(n) : Returns("receive", rc)
    BY DEF receive_read
  <1>1. rc \in {"SUCCESS", "TCTI_GENERAL_FAILURE"}
    BY <1>0 DEF Verdicts
  <1>2. TypeOK'
    <2>1. data' \in Seq(Chunks) /\ unread' \in Seq(Chunks)
      BY DeliveredSeq DEF receive_read, IInv
    <2>2. last'.rc \in TctiCodes /\ clean' \in BOOLEAN
      BY <1>0, <1>1 DEF Returns, TctiCodes, FatalCodes
    <2> QED
      BY <2>1, <2>2 DEF IInv, TypeOK, receive_read, TctiStates
  <1>3. ~busy /\ ~eof
    BY DEF IInv, BusyInv, EofInv, receive_read
  <1>4. BusyInv' /\ PartialInv' /\ EofInv' /\ KeptInv' /\ FreshInv' /\ CalmInv'
    BY <1>3 DEF IInv, BusyInv, PartialInv, EofInv, KeptInv, FreshInv, CalmInv, receive_read
  <1>5. ~reread /\ rc = "SUCCESS" => unread' = <<>> /\ data' = answer /\ answer[1].cmd = sent
    BY <1>0, DeliveredWhole DEF receive_read
  <1>6. DoneInv' /\ ResponseMatches' /\ NothingKept'
    BY <1>0, <1>1, <1>3, <1>5 DEF DoneInv, ResponseMatches, NothingKept, receive_read, Returns, FatalCodes
  <1> QED
    BY <1>2, <1>4, <1>6 DEF IInv

\* tcti_device_receive with a buffer.
LEMMA ReceiveStep ==
  ASSUME IInv, NEW t \in Timeouts, receive(t)
  PROVE  IInv'
  <1>1. ASSUME NEW rc \in TctiCodes \ {"SUCCESS"}, Answers("receive", rc) PROVE IInv'
    BY <1>1, AnswersStep
  <1>2. ASSUME NEW n \in 1..MaxLen, state = "RECEIVE", receive_eof(n) PROVE IInv'
    <2>1. TypeOK'
      <3>1. last'.rc \in TctiCodes /\ clean' \in BOOLEAN
        BY <1>2 DEF receive_eof, Returns, TctiCodes, FatalCodes
      <3> QED
        BY <1>2, <3>1 DEF IInv, TypeOK, receive_eof, TctiStates
    <2>2. ~busy
      BY <1>2 DEF receive_eof, IInv, Inv, BusyInv
    <2>3. Inv'
      BY <1>2, <2>2 DEF IInv, Inv, BusyInv, PartialInv, EofInv, KeptInv, FreshInv, DoneInv, CalmInv,
         ResponseMatches, NothingKept, receive_eof, Returns, FatalCodes
    <2> QED
      BY <2>1, <2>3 DEF IInv
  <1>3. CASE ~receive_checks(state) /\ Answers("receive", "TCTI_BAD_SEQUENCE")
    BY <1>1, <1>3 DEF TctiCodes, RetryCodes
  <1>4. CASE receive_checks(state)
    <2>1. PICK n \in IF known # 0 THEN {known} ELSE 1..MaxLen :
             \/ receive_kept(n) \/ receive_read(n) \/ receive_eof(n)
             \/ ~(partial /\ n = 1) /\ NotReadable("receive", t)
      BY <1>4 DEF receive, receive_checks
    <2>2. n \in 1..MaxLen /\ (known # 0 => n = known)
      BY <2>1, DeviceAssumption DEF IInv, TypeOK
    <2>3. CASE NotReadable("receive", t)
      BY <1>1, <2>3 DEF NotReadable, TctiCodes, RetryCodes, FatalCodes
    <2> QED
      BY <1>2, <1>4, <2>1, <2>2, <2>3, ReceiveKeptStep, ReceiveReadStep DEF receive_checks
  <1> QED
    BY <1>3, <1>4 DEF receive

\* Every step keeps the invariant.
LEMMA NextIInv == IInv /\ [Next]_vars => IInv'
  <1> SUFFICES ASSUME IInv, [Next]_vars PROVE IInv'
    OBVIOUS
  <1>1. CASE unsupported
    BY <1>1, AnswersStep DEF unsupported, TctiCodes, Unsupported
  <1>2. CASE finalize
    <2>1. TypeOK'
      <3>1. last'.rc \in TctiCodes /\ clean' \in BOOLEAN /\ unread' \in Seq(Chunks)
        BY <1>2, EmptySeq DEF finalize, Returns, TctiCodes
      <3> QED
        BY <1>2, <3>1 DEF IInv, TypeOK, finalize, TctiStates
    <2>2. Inv'
      BY <1>2 DEF IInv, Inv, BusyInv, PartialInv, EofInv, KeptInv, FreshInv, DoneInv, CalmInv,
         ResponseMatches, NothingKept, finalize, Returns
    <2> QED
      BY <2>1, <2>2 DEF IInv
  <1>3. CASE Respond
    <2>1. PICK len \in 1..MaxLen : answer' = Response(sent, len)
      BY <1>3 DEF Respond
    <2>2. answer' \in Seq(Chunks) /\ unread' = answer'
      BY <1>3, <2>1, ResponseSeq DEF IInv, TypeOK, Respond
    <2>3. TypeOK'
      BY <1>3, <2>2 DEF IInv, TypeOK, Respond
    <2>4. Inv'
      BY <1>3, <2>1 DEF IInv, Inv, BusyInv, PartialInv, EofInv, KeptInv, FreshInv, DoneInv, CalmInv,
         ResponseMatches, NothingKept, Respond
    <2> QED
      BY <2>3, <2>4 DEF IInv
  <1>4. CASE Disconnect
    <2>1. TypeOK'
      BY <1>4, EmptySeq DEF IInv, TypeOK, Disconnect
    <2>2. ~calm
      BY <1>4 DEF Disconnect, Failing
    <2>3. Inv'
      BY <1>4, <2>2 DEF IInv, Inv, BusyInv, PartialInv, EofInv, KeptInv, FreshInv, DoneInv, CalmInv,
         ResponseMatches, NothingKept, Disconnect
    <2> QED
      BY <2>1, <2>3 DEF IInv
  <1>5. CASE UNCHANGED vars
    <2>1. TypeOK'
      BY <1>5 DEF IInv, TypeOK, vars
    <2>2. Inv'
      BY <1>5 DEF IInv, Inv, BusyInv, PartialInv, EofInv, KeptInv, FreshInv, DoneInv, CalmInv,
         ResponseMatches, NothingKept, vars
    <2> QED
      BY <2>1, <2>2 DEF IInv
  <1> QED
    BY <1>1, <1>2, <1>3, <1>4, <1>5, TransmitStep, SizeStep, ReceiveStep DEF Next

\* The invariant holds at any time.
LEMMA Invariance == Spec => []IInv
  BY InitIInv, NextIInv, PTL DEF Spec

\* Over every kind of driver, with any length of a response and any failures
\* in between, a successful receive delivers the whole response to the last
\* command, header first and once, and a context that is ready to transmit
\* has nothing left of it (tcti_device_receive).
THEOREM ResponseDelivered == Spec => []StreamInv
  <1>1. IInv => StreamInv
    BY DEF IInv, Inv, StreamInv
  <1> QED
    BY <1>1, Invariance, PTL

-----------------------------------------------------------------------------
(* The contract of tcti-common.h.                                          *)

\* In a calm behaviour every step is a step of the contract.
LEMMA CalmStep ==
  ASSUME IInv, calm, [Next]_vars
  PROVE  Contract!Next \/ UNCHANGED <<state, last>>
  <1> USE DEF Contract!Returns, Contract!Refused, Contract!transmit_checks, Contract!receive_checks,
              transmit_checks, receive_checks, Answers, Returns
  <1>0. calm' = calm
    BY DEF Next, vars, transmit, unsupported, finalize, Respond, Disconnect, size, receive, NotReadable,
       size_unknown, size_header, size_again, size_eof, receive_kept, receive_read, receive_eof
  <1>1. CASE transmit
    <2>1. "TCTI_IO_ERROR" \in Contract!TctiCodes \ {"SUCCESS"}
      BY DEF Contract!TctiCodes, Contract!FatalCodes
    <2> QED
      BY <1>0, <1>1, <2>1 DEF transmit, Contract!Next, Contract!Transmit
  <1>2. CASE unsupported
    <2>1. Unsupported \in Contract!TctiCodes \ {"SUCCESS"}
      BY DEF Unsupported, Contract!TctiCodes, Contract!Unsupported
    <2> QED
      BY <1>0, <1>2, <2>1 DEF unsupported, Contract!Next, Contract!Cancel, Contract!SetLocality,
         cancel_checks, set_locality_checks, Contract!cancel_checks, Contract!set_locality_checks
  <1>3. CASE finalize
    BY <1>0, <1>3 DEF finalize, Contract!Next, Contract!Finalize
  <1>4. CASE Respond \/ Disconnect
    BY <1>4 DEF Respond, Disconnect
  <1>r. "TCTI_TRY_AGAIN" \in Contract!RetryCodes
    BY DEF Contract!RetryCodes
  <1>f. {"TCTI_GENERAL_FAILURE", "TCTI_NO_CONNECTION"} \subseteq Contract!FatalCodes
    BY DEF Contract!FatalCodes
  <1>5. ASSUME NEW t \in Timeouts, size(t) PROVE Contract!Next
    <2>1. CASE ~receive_checks(state)
      BY <1>0, <1>5, <2>1 DEF size, Contract!Next, Contract!Size
    <2>2. CASE receive_checks(state)
      <3>1. ~size_again
        <4>1. known = 0
          BY <1>5, <2>2 DEF size, AsksAgain
        <4>2. ~partial
          BY <4>1, DeviceAssumption DEF IInv, Inv, CalmInv, KeptInv
        <4> QED
          BY <4>2 DEF size_again
      <3>2. ~size_eof
        BY <2>2 DEF size_eof, IInv, Inv, CalmInv
      <3>3. /\ state' = state
            /\ \E rc \in {"SUCCESS", "TCTI_TRY_AGAIN"} : last' = [op |-> "size", rc |-> rc]
        BY <1>5, <2>2, <3>1, <3>2 DEF size, size_unknown, size_header, NotReadable, Failing
      <3> QED
        BY <1>0, <1>r, <2>2, <3>3 DEF Contract!Next, Contract!Size
    <2> QED
      BY <2>1, <2>2
  <1>6. ASSUME NEW t \in Timeouts, receive(t) PROVE Contract!Next
    <2>1. CASE ~receive_checks(state)
      BY <1>0, <1>6, <2>1 DEF receive, Contract!Next, Contract!Receive
    <2>2. CASE receive_checks(state)
      <3>1. \/ state' = state /\ last' = [op |-> "receive", rc |-> "TCTI_TRY_AGAIN"]
            \/ state' = "TRANSMIT" /\ last' = [op |-> "receive", rc |-> "SUCCESS"]
            \/ /\ state' = "TRANSMIT"
               /\ \E rc \in {"TCTI_GENERAL_FAILURE", "TCTI_NO_CONNECTION"} : last' = [op |-> "receive", rc |-> rc]
        BY <1>6, <2>2 DEF receive, receive_kept, receive_read, receive_eof, NotReadable, Failing, Verdicts
      <3> QED
        BY <1>0, <1>r, <1>f, <2>2, <3>1 DEF Contract!Next, Contract!Receive
    <2> QED
      BY <2>1, <2>2
  <1>7. CASE UNCHANGED vars
    BY <1>7 DEF vars
  <1> QED
    BY <1>1, <1>2, <1>3, <1>4, <1>5, <1>6, <1>7 DEF Next

\* A context over a driver whose calls do not fail, and whose client asks for
\* a size once, is the state machine the comment of tcti-common.h documents.
THEOREM Refinement == Spec => ImplementsContract
  <1>1. Init => Contract!Init
    BY DEF Init, Contract!Init
  <1>2. IInv /\ [Next]_vars => [Contract!Next]_(Contract!vars)
    <2> SUFFICES ASSUME IInv, [Next]_vars PROVE [Contract!Next]_(Contract!vars)
      OBVIOUS
    <2>1. calm' = calm
      BY DEF Next, vars, transmit, unsupported, finalize, Respond, Disconnect, size, receive, NotReadable, Answers,
         size_unknown, size_header, size_again, size_eof, receive_kept, receive_read, receive_eof
    <2>2. CASE calm
      BY <2>1, <2>2, CalmStep DEF Contract!vars
    <2>3. CASE ~calm
      BY <2>1, <2>3 DEF Contract!vars
    <2> QED
      BY <2>2, <2>3
  <1> QED
    BY <1>1, <1>2, Invariance, PTL DEF Spec, ImplementsContract, Contract!Spec

=============================================================================
