---------------------------- MODULE HidFilesProofs ----------------------------
(***************************************************************************)
(* Proofs about HidFiles, for any devices and descriptors, any number of   *)
(* reports and any number that the kernel keeps: the devices are listed,   *)
(* reads return the bytes that were sent and a device is the stream of     *)
(* reports that hidapi promises.                                           *)
(***************************************************************************)
EXTENDS HidFiles, FiniteSetTheorems, SequenceTheorems, WellFoundedInduction, TLAPS

Report == 1..MaxReports

DeviceTypes ==
    /\ platform \in Platforms
    /\ handle \in {"none", "listed", "failed", "open", "closed"}
    /\ plugged \in BOOLEAN /\ numbered \in BOOLEAN
    /\ described \in BOOLEAN /\ uses_numbered_reports \in BOOLEAN
    /\ arrived \in 0..MaxReports /\ ring \in Seq(Report)

ReadTypes ==
    /\ pc \in {"idle", "poll", "read", "start", "wait", "result", "done"}
    /\ ask \in Asks /\ answer \in {NoAnswer, Error, Nothing} \cup Report
    /\ read_pending \in BOOLEAN /\ event \in BOOLEAN
    /\ request \in {"none", "pending", "done", "failed"}
    /\ read_buf \in {Nothing} \cup Report

TypeOK == DeviceTypes /\ ReadTypes

\* The handle: what is kept when it is not open, and which steps are Windows'.
HandleOK ==
    /\ handle \in {"none", "listed"} => plugged
    /\ handle # "open" => pc = "idle" /\ ring = << >> /\ request = "none"
    /\ handle = "open" => platform # "osx"
    /\ pc # "done" => answer = NoAnswer
    /\ pc \in {"start", "wait", "result"} => platform = "windows"
    /\ pc \in {"poll", "read"} => Linux
    /\ pc \in {"poll", "wait"} => ask # "wait"

\* The overlapped read: a request waits with the kernel only while there is no
\* report, and its event tells that it does not, until it is taken.
RequestOK ==
    /\ Len(ring) <= Buffers
    /\ read_pending <=> request # "none"
    /\ request # "none" => platform = "windows"
    /\ request = "pending" => ring = << >> /\ plugged
    /\ request = "done" => read_buf # Nothing
    /\ request = "failed" => ~plugged
    /\ request \in {"done", "failed"} /\ pc # "result" => event
    /\ pc \in {"wait", "result"} => read_pending

\* The descriptor was understood, when it was told.
DescriptorOK ==
    handle = "open" /\ Linux => (uses_numbered_reports <=> described /\ numbered)

IInv == TypeOK /\ HandleOK /\ RequestOK /\ DescriptorOK /\ ReportsAreExact

USE DEF listing, device, reader, overlapped, reset_event

\* The initial state satisfies the invariant.
LEMMA InitIInv == Init => IInv
<1> SUFFICES ASSUME Init PROVE IInv
  OBVIOUS
<1>1. ring \in Seq(Report) /\ Len(ring) = 0
  BY EmptySeq DEF Init
<1>2. TypeOK
  <2>0. arrived \in 0..MaxReports
    BY HidFilesAssumption DEF Init
  <2>1. DeviceTypes
    BY <1>1, <2>0 DEF Init, DeviceTypes
  <2>2. ReadTypes
    BY DEF Init, ReadTypes, Asks
  <2> QED
    BY <2>1, <2>2 DEF TypeOK
<1>3. HandleOK /\ DescriptorOK /\ ReportsAreExact
  BY DEF Init, HandleOK, DescriptorOK, ReportsAreExact, NoAnswer
<1>4. RequestOK
  BY <1>1, HidFilesAssumption DEF Init, RequestOK
<1> QED
  BY <1>2, <1>3, <1>4 DEF IInv

\* The steps of a call, and what the ring of the kernel does in them.
LEMMA RingSteps ==
  ASSUME TypeOK
  PROVE  /\ Len(ring) \in Nat /\ (ring = << >> <=> Len(ring) = 0)
         /\ ring # << >> => /\ Head(ring) \in Report /\ Tail(ring) \in Seq(Report)
                            /\ Len(Tail(ring)) = Len(ring) - 1
                            /\ ring = <<Head(ring)>> \o Tail(ring)
         /\ \A a \in Report : /\ Append(ring, a) \in Seq(Report)
                              /\ Len(Append(ring, a)) = Len(ring) + 1
<1>1. ring \in Seq(Report)
  BY DEF TypeOK, DeviceTypes
<1> QED
  BY <1>1, LenProperties, HeadTailProperties, AppendProperties

\* Every step preserves the types.
LEMMA TypeStep == IInv /\ [Next]_vars => TypeOK'
<1> SUFFICES ASSUME IInv, [Next]_vars
             PROVE  DeviceTypes' /\ ReadTypes'
  BY DEF TypeOK
<1> USE DEF IInv, TypeOK
<1>1. CASE UNCHANGED vars
  BY <1>1 DEF vars, DeviceTypes, ReadTypes
<1>2. CASE Enumerate \/ OpenFails
  BY <1>2 DEF Enumerate, OpenFails, DeviceTypes, ReadTypes
<1>3. CASE OpenPath
  BY <1>3 DEF OpenPath, Numbered, has_report_id, DeviceTypes, ReadTypes
<1>4. CASE Arrive
  <2>1. arrived' \in Report /\ arrived' \in 0..MaxReports
    BY <1>4, HidFilesAssumption DEF Arrive, Report, DeviceTypes
  <2>2. ring' \in Seq(Report)
    <3>1. CASE request = "pending"
      BY <1>4, <3>1 DEF Arrive, DeviceTypes
    <3>2. CASE request # "pending" /\ Len(ring) < Buffers
      BY <1>4, <2>1, <3>2, RingSteps DEF Arrive
    <3>3. CASE request # "pending" /\ ~(Len(ring) < Buffers)
      <4>1. ring # << >>
        BY <3>3, RingSteps, HidFilesAssumption
      <4>2. Append(Tail(ring), arrived') \in Seq(Report)
        BY <2>1, <4>1, RingSteps, AppendProperties
      <4> QED
        BY <1>4, <3>3, <4>2 DEF Arrive, DeviceTypes
    <3> QED
      BY <3>1, <3>2, <3>3
  <2> QED
    BY <1>4, <2>1, <2>2 DEF Arrive, DeviceTypes, ReadTypes
<1>5. CASE Unplug \/ PollReadable \/ GoOn \/ EventSet \/ Return \/ Call
  <2>1. DeviceTypes'
    BY <1>5 DEF Unplug, PollReadable, GoOn, EventSet, Return, Call, DeviceTypes
  <2>2. ReadTypes'
    BY <1>5 DEF Unplug, PollReadable, GoOn, EventSet, Return, Call, Next_step, ReadTypes
  <2> QED
    BY <2>1, <2>2
<1>6. CASE PollError \/ PollTimeout \/ StartFails \/ Timeout
  <2>1. DeviceTypes'
    BY <1>6 DEF PollError, PollTimeout, StartFails, Timeout, Answer, DeviceTypes
  <2>2. ReadTypes'
    BY <1>6 DEF PollError, PollTimeout, StartFails, Timeout, Answer, ReadTypes
  <2> QED
    BY <2>1, <2>2
<1>7. CASE Read
  <2>1. DeviceTypes'
    BY <1>7, RingSteps DEF Read, Answer, DeviceTypes
  <2>2. ReadTypes'
    BY <1>7, RingSteps DEF Read, Answer, ReadTypes
  <2> QED
    BY <2>1, <2>2
<1>8. CASE Start
  <2>1. DeviceTypes'
    BY <1>8, RingSteps DEF Start, DeviceTypes
  <2>2. ReadTypes'
    BY <1>8, RingSteps DEF Start, Next_step, ReadTypes
  <2> QED
    BY <2>1, <2>2
<1>9. CASE Result
  BY <1>9 DEF Result, Answer, DeviceTypes, ReadTypes
<1>10. CASE Close
  BY <1>10, EmptySeq DEF Close, DeviceTypes, ReadTypes
<1> QED
  BY <1>1, <1>2, <1>3, <1>4, <1>5, <1>6, <1>7, <1>8, <1>9, <1>10 DEF Next

\* Every step leaves the handle and the request as they are described.
LEMMA HandleStep == IInv /\ [Next]_vars => HandleOK'
<1> SUFFICES ASSUME IInv, [Next]_vars
             PROVE  HandleOK'
  OBVIOUS
<1> USE DEF IInv, TypeOK, DeviceTypes, ReadTypes, HandleOK, Linux
<1>1. CASE UNCHANGED vars
  BY <1>1 DEF vars
<1>2. CASE Enumerate \/ OpenFails \/ OpenPath
  BY <1>2 DEF Enumerate, OpenFails, OpenPath
<1>3. CASE Arrive \/ Unplug
  BY <1>3 DEF Arrive, Unplug
<1>4. CASE Call
  BY <1>4 DEF Call, Platforms
<1>5. CASE PollReadable \/ GoOn \/ EventSet \/ Return \/ Start
  BY <1>5 DEF PollReadable, GoOn, EventSet, Return, Start, Next_step
<1>6. CASE PollError \/ PollTimeout \/ StartFails \/ Timeout \/ Read \/ Result
  BY <1>6 DEF PollError, PollTimeout, StartFails, Timeout, Read, Result, Answer
<1>7. CASE Close
  BY <1>7 DEF Close
<1> QED
  BY <1>1, <1>2, <1>3, <1>4, <1>5, <1>6, <1>7 DEF Next

LEMMA RequestStep == IInv /\ [Next]_vars => RequestOK'
<1> SUFFICES ASSUME IInv, [Next]_vars
             PROVE  RequestOK'
  OBVIOUS
<1> USE HidFilesAssumption DEF IInv, TypeOK, DeviceTypes, ReadTypes, HandleOK, RequestOK
<1>1. CASE UNCHANGED vars
  BY <1>1 DEF vars
<1>2. CASE Enumerate \/ OpenFails \/ OpenPath
  BY <1>2 DEF Enumerate, OpenFails, OpenPath
<1>3. CASE Arrive
  <2>1. arrived' \in Report
    BY <1>3 DEF Arrive, Report
  <2>2. CASE request = "pending"
    BY <1>3, <2>1, <2>2 DEF Arrive, Report, Nothing
  <2>3. CASE request # "pending"
    <3>1. Len(ring') <= Buffers
      <4>1. CASE Len(ring) < Buffers
        BY <1>3, <2>1, <2>3, <4>1, RingSteps DEF Arrive
      <4>2. CASE ~(Len(ring) < Buffers)
        <5>1. ring # << >>
          BY <4>2, RingSteps
        <5>2. Len(Append(Tail(ring), arrived')) = Len(ring)
          BY <2>1, <5>1, RingSteps, AppendProperties
        <5> QED
          BY <1>3, <2>3, <4>2, <5>2 DEF Arrive
      <4> QED
        BY <4>1, <4>2
    <3> QED
      BY <1>3, <2>3, <3>1 DEF Arrive
  <2> QED
    BY <2>2, <2>3
<1>4. CASE Unplug
  BY <1>4 DEF Unplug
<1>5. CASE Call \/ PollReadable \/ GoOn \/ EventSet \/ Return
  BY <1>5 DEF Call, PollReadable, GoOn, EventSet, Return, Next_step
<1>6. CASE PollError \/ PollTimeout \/ StartFails \/ Timeout
  BY <1>6 DEF PollError, PollTimeout, StartFails, Timeout, Answer
<1>7. CASE Read
  <2>1. request = "none" /\ request' = "none" /\ pc' = "done"
    BY <1>7 DEF Read, Answer, Linux
  <2>2. Len(ring') <= Buffers
    BY <1>7, RingSteps DEF Read
  <2> QED
    BY <1>7, <2>1, <2>2 DEF Read, Answer
<1>8. CASE Start
  BY <1>8, RingSteps DEF Start, Next_step, Report, Nothing
<1>9. CASE Result
  BY <1>9 DEF Result, Answer, Report
<1>10. CASE Close
  BY <1>10, EmptySeq DEF Close
<1> QED
  BY <1>1, <1>2, <1>3, <1>4, <1>5, <1>6, <1>7, <1>8, <1>9, <1>10 DEF Next

-------------------------------------------------------------------------------
(***************************************************************************)
(* The bytes of a report.                                                  *)
(***************************************************************************)
\* A byte that is put before a sequence is its head.
LEMMA OneMore ==
  ASSUME NEW x \in Nat, NEW s \in Seq(Nat)
  PROVE  Head(<<x>> \o s) = x /\ Tail(<<x>> \o s) = s
<1> DEFINE t == <<x>> \o s
<1>1. <<x>> \in Seq(Nat) /\ Len(<<x>>) = 1 /\ <<x>>[1] = x
  OBVIOUS
<1>2. t \in Seq(Nat) /\ Len(t) = 1 + Len(s) /\ t[1] = x
      /\ \A j \in 1..Len(s) : t[1 + j] = s[j]
  BY <1>1, ConcatProperties
<1> HIDE DEF t
<1>3. Head(t) = x /\ Tail(t) \in Seq(Nat) /\ Len(Tail(t)) = Len(s)
  BY <1>2, HeadTailProperties, LenProperties
<1>4. \A j \in 1..Len(s) : Tail(t)[j] = s[j]
  BY <1>2, <1>3, HeadTailProperties, LenProperties
<1>5. Tail(t) = s
  BY <1>3, <1>4, SeqEqual
<1> QED
  BY <1>3, <1>5 DEF t

\* What the code takes off a report is what the system put before it, unless it
\* does not know that it did.
LEMMA Chopped ==
  ASSUME TypeOK, HandleOK, DescriptorOK, handle = "open", NEW n \in Report
  PROVE  chopped(Raw(n)) = Due(n)
<1>1. n \in Nat
  BY HidFilesAssumption DEF Report
<1>2. Sent(n) \in Seq(Nat) /\ (numbered => Head(Sent(n)) = Id)
  BY <1>1 DEF Sent, Id
<1>3. Id \in Nat /\ Id # 0
  BY DEF Id
<1> HIDE DEF Sent, Id
<1> USE DEF Due, Misread
<1>4. CASE platform = "old linux"
  BY <1>2, <1>3, <1>4, OneMore DEF DescriptorOK, Linux, chopped, Raw
<1>5. CASE platform = "windows" /\ numbered
  BY <1>2, <1>3, <1>5 DEF chopped, Raw
<1>6. CASE platform = "windows" /\ ~numbered
  BY <1>2, <1>6, OneMore DEF chopped, Raw
<1>7. CASE platform = "linux"
  BY <1>7 DEF chopped, Raw
<1> QED
  BY <1>4, <1>5, <1>6, <1>7 DEF TypeOK, DeviceTypes, HandleOK, Platforms

-------------------------------------------------------------------------------
(***************************************************************************)
(* Induction, with the set of numbers that have the property.              *)
(***************************************************************************)
LEMMA LeastNumber ==
  ASSUME NEW T \in SUBSET Nat, T # {}
  PROVE  \E n \in T : \A m \in T : n <= m
<1> DEFINE R == OpToRel(<, Nat)
<1>1. \A m, n \in Nat : <<m, n>> \in R <=> m < n
  BY DEF OpToRel
<1>2. IsWellFoundedOn(R, Nat)
  BY NatLessThanWellFounded
<1> HIDE DEF R
<1>3. PICK n \in T : \A m \in T : ~(<<m, n>> \in R)
  BY <1>2, WFMin
<1>4. \A m \in T : ~(m < n)
  BY <1>1, <1>3
<1> QED
  BY <1>4

\* Induction, with the set of numbers that have the property.
LEMMA SetInduction ==
  ASSUME NEW S, 0 \in S, \A n \in Nat : n \in S => n + 1 \in S
  PROVE  Nat \subseteq S
<1> SUFFICES ASSUME ~(Nat \subseteq S) PROVE FALSE
  OBVIOUS
<1>1. PICK n \in Nat \ S : \A m \in Nat \ S : n <= m
  BY LeastNumber
<1>2. n - 1 \in Nat /\ n - 1 \in S
  BY <1>1
<1> QED
  BY <1>1, <1>2

-------------------------------------------------------------------------------
(***************************************************************************)
(* The descriptor: the bytes of items one after the other, and a loop that *)
(* goes from key to key.                                                   *)
(***************************************************************************)
\* F has the first m sequences of q in one, for each m.
IsJoining(F, q, n) == F[0] = << >> /\ \A m \in 1..n : F[m] = F[m - 1] \o q[m]

LEMMA JoiningExists ==
  ASSUME NEW q, NEW n \in Nat
  PROVE  \E F : IsJoining(F, q, n)
<1> DEFINE S == {m \in Nat : \E F : IsJoining(F, q, m)}
<1>1. 0 \in S
  <2> DEFINE F == [j \in {0} |-> << >>]
  <2>1. IsJoining(F, q, 0)
    BY DEF IsJoining
  <2> QED
    BY <2>1
<1>2. ASSUME NEW m \in Nat, m \in S
      PROVE  m + 1 \in S
  <2>1. PICK F : IsJoining(F, q, m)
    BY <1>2
  <2> DEFINE v == F[m] \o q[m + 1]
             G == [j \in 0..(m + 1) |-> IF j = m + 1 THEN v ELSE F[j]]
  <2> HIDE DEF v
  <2>2. /\ \A j \in 0..m : G[j] = F[j]
        /\ G[m + 1] = v
    OBVIOUS
  <2> HIDE DEF G
  <2>6. G[m + 1] = F[m] \o q[m + 1] /\ (m + 1) - 1 \in 0..m /\ (m + 1) - 1 = m
    BY <2>2 DEF v
  <2>3. ASSUME NEW j \in 1..(m + 1)
        PROVE  G[j] = G[j - 1] \o q[j]
    <3>1. CASE j = m + 1
      <4>1. j - 1 = m /\ G[m] = F[m]
        BY <2>2, <3>1
      <4> QED
        BY <2>6, <3>1, <4>1
    <3>2. CASE j # m + 1
      <4>1. j \in 1..m /\ j \in 0..m /\ j - 1 \in 0..m
        BY <3>2
      <4> QED
        BY <2>1, <2>2, <4>1 DEF IsJoining
    <3> QED
      BY <3>1, <3>2
  <2>4. G[0] = << >>
    BY <2>1, <2>2 DEF IsJoining
  <2>5. IsJoining(G, q, m + 1)
    BY <2>3, <2>4 DEF IsJoining
  <2> QED
    BY <2>5
<1> HIDE DEF S
<1>3. Nat \subseteq S
  BY <1>1, <1>2, SetInduction
<1> QED
  BY <1>3 DEF S

\* What is joined is of the type of the parts.
LEMMA JoiningType ==
  ASSUME NEW S, NEW q \in Seq(Seq(S)), NEW F, IsJoining(F, q, Len(q)), NEW m \in 0..Len(q)
  PROVE  F[m] \in Seq(S)
<1> DEFINE T == {j \in Nat : j <= Len(q) => F[j] \in Seq(S)}
<1>1. 0 \in T
  BY EmptySeq DEF IsJoining
<1>2. ASSUME NEW j \in Nat, j \in T
      PROVE  j + 1 \in T
  <2>1. CASE j + 1 <= Len(q)
    <3>1. j + 1 \in 1..Len(q) /\ (j + 1) - 1 = j /\ F[j] \in Seq(S)
      BY <1>2, <2>1, LenProperties
    <3>2. F[j + 1] = F[j] \o q[j + 1] /\ q[j + 1] \in Seq(S)
      BY <3>1, ElementOfSeq DEF IsJoining
    <3>3. F[j] \o q[j + 1] \in Seq(S)
      BY <3>1, <3>2, ConcatProperties
    <3>4. F[j + 1] \in Seq(S)
      BY <3>2, <3>3, Zenon
    <3> QED
      BY <3>4
  <2> QED
    BY <2>1
<1> HIDE DEF T
<1>3. Nat \subseteq T
  BY <1>1, <1>2, SetInduction
<1>4. m \in Nat /\ m <= Len(q)
  BY LenProperties
<1> QED
  BY <1>3, <1>4 DEF T

\* FlattenSeq is such a joining.
LEMMA FlattenIsJoining ==
  ASSUME NEW S, NEW q \in Seq(Seq(S))
  PROVE  \E F : IsJoining(F, q, Len(q)) /\ FlattenSeq(q) = F[Len(q)]
<1> DEFINE L == Len(q)
<1>0. L \in Nat
  BY LenProperties
<1>1. CASE L = 0
  <2>1. PICK F : IsJoining(F, q, 0)
    BY JoiningExists
  <2>2. q = << >> /\ FlattenSeq(q) = << >>
    BY <1>1, EmptySeq, LenProperties DEF FlattenSeq
  <2> QED
    BY <1>1, <2>1, <2>2 DEF IsJoining
<1>2. CASE L # 0
  <2> DEFINE IsFlatten(g) == g = [i \in 1..L |-> IF i = 1 THEN q[i] ELSE g[i - 1] \o q[i]]
             flatten == CHOOSE g : IsFlatten(g)
  <2>1. \E g : IsFlatten(g)
    <3>1. PICK F : IsJoining(F, q, L)
      BY <1>0, JoiningExists
    <3> DEFINE g == [i \in 1..L |-> F[i]]
    <3>2. ASSUME NEW i \in 1..L
          PROVE  g[i] = IF i = 1 THEN q[i] ELSE g[i - 1] \o q[i]
      <4>1. F[i] = F[i - 1] \o q[i]
        BY <3>1 DEF IsJoining
      <4>2. CASE i = 1
        <5>1. q[1] \in Seq(S)
          BY <1>0, <1>2, ElementOfSeq
        <5>2. F[0] = << >> /\ << >> \o q[1] = q[1]
          BY <3>1, <5>1, ConcatEmptySeq DEF IsJoining
        <5>5. i - 1 = 0
          BY <4>2
        <5>3. F[1] = F[0] \o q[1]
          BY <4>1, <4>2, <5>5, Zenon
        <5>4. g[1] = q[1]
          BY <4>2, <5>2, <5>3
        <5> QED
          BY <4>2, <5>4
      <4>3. CASE i # 1
        <5>1. i - 1 \in 1..L
          BY <1>0, <4>3
        <5> QED
          BY <4>1, <4>3, <5>1
      <4> QED
        BY <4>2, <4>3
    <3>3. g = [i \in 1..L |-> g[i]]
      OBVIOUS
    <3> HIDE DEF g
    <3>4. IsFlatten(g)
      BY <3>2, <3>3
    <3> QED
      BY <3>4
  <2>2. IsFlatten(flatten)
    BY <2>1
  <2>3. FlattenSeq(q) = flatten[L]
    BY <1>2 DEF FlattenSeq
  <2> HIDE DEF flatten
  <2> DEFINE F == [m \in 0..L |-> IF m = 0 THEN << >> ELSE flatten[m]]
  <2>4. F[0] = << >> /\ \A m \in 1..L : F[m] = flatten[m]
    BY <1>0
  <2> HIDE DEF F
  <2>5. ASSUME NEW m \in 1..L
        PROVE  F[m] = F[m - 1] \o q[m]
    <3>1. flatten[m] = IF m = 1 THEN q[m] ELSE flatten[m - 1] \o q[m]
      BY <2>2
    <3>2. CASE m = 1
      <4>1. q[1] \in Seq(S)
        BY <1>0, <1>2, ElementOfSeq
      <4>2. << >> \o q[1] = q[1]
        BY <4>1, ConcatEmptySeq
      <4>3. F[0] \o q[1] = q[1] /\ F[1] = q[1]
        BY <2>4, <3>1, <3>2, <4>2
      <4>4. m - 1 = 0
        BY <3>2
      <4> QED
        BY <3>2, <4>3, <4>4
    <3>3. CASE m # 1
      <4>1. m - 1 \in 1..L
        BY <1>0, <3>3
      <4> QED
        BY <2>4, <3>1, <3>3, <4>1
    <3> QED
      BY <3>2, <3>3
  <2>6. IsJoining(F, q, L)
    BY <2>4, <2>5 DEF IsJoining
  <2>7. FlattenSeq(q) = F[L]
    BY <1>0, <1>2, <2>3, <2>4
  <2> QED
    BY <2>6, <2>7
<1> QED
  BY <1>1, <1>2

\* The parts are in the whole one after the other: part m is after the first
\* e[m - 1] elements and ends with the e[m]-th.
AreEnds(e, q, r) ==
    /\ e \in [0..Len(q) -> 0..Len(r)]
    /\ e[0] = 0 /\ e[Len(q)] = Len(r)
    /\ \A m \in 1..Len(q) :
        /\ e[m] = e[m - 1] + Len(q[m])
        /\ \A j \in 1..Len(q[m]) : r[e[m - 1] + j] = q[m][j]

LEMMA PartsInPlace ==
  ASSUME NEW S, NEW q \in Seq(Seq(S))
  PROVE  FlattenSeq(q) \in Seq(S) /\ \E e : AreEnds(e, q, FlattenSeq(q))
<1> DEFINE L == Len(q)
           r == FlattenSeq(q)
<1>0. L \in Nat
  BY LenProperties
<1>1. PICK F : IsJoining(F, q, L) /\ r = F[L]
  BY FlattenIsJoining
<1>2. \A m \in 0..L : F[m] \in Seq(S) /\ Len(F[m]) \in Nat
  BY <1>1, JoiningType, LenProperties
<1>3. r \in Seq(S) /\ Len(r) \in Nat
  BY <1>0, <1>1, <1>2
<1>4. ASSUME NEW m \in 1..L
      PROVE  /\ m - 1 \in 0..L /\ m \in 0..L /\ q[m] \in Seq(S) /\ Len(q[m]) \in Nat
             /\ Len(F[m]) = Len(F[m - 1]) + Len(q[m])
             /\ \A j \in 1..Len(F[m - 1]) : F[m][j] = F[m - 1][j]
             /\ \A j \in 1..Len(q[m]) : F[m][Len(F[m - 1]) + j] = q[m][j]
  <2>1. m - 1 \in 0..L /\ m \in 0..L
    BY <1>0
  <2>2. q[m] \in Seq(S) /\ Len(q[m]) \in Nat
    BY <1>0, ElementOfSeq, LenProperties
  <2>3. F[m] = F[m - 1] \o q[m] /\ F[m - 1] \in Seq(S) /\ Len(F[m - 1]) \in Nat
    BY <1>1, <1>2, <2>1 DEF IsJoining
  <2> DEFINE s1 == F[m - 1]
             s2 == q[m]
             s3 == F[m]
  <2>4. s1 \in Seq(S) /\ s2 \in Seq(S) /\ s3 = s1 \o s2 /\ Len(s1) \in Nat /\ Len(s2) \in Nat
    BY <2>2, <2>3
  <2> HIDE DEF s1, s2, s3
  <2>5. /\ Len(s3) = Len(s1) + Len(s2)
        /\ \A i \in 1..(Len(s1) + Len(s2)) : s3[i] = IF i <= Len(s1) THEN s1[i] ELSE s2[i - Len(s1)]
    BY <2>4, ConcatProperties
  <2>6. \A j \in 1..Len(s1) : s3[j] = s1[j]
    BY <2>4, <2>5
  <2>7. ASSUME NEW j \in 1..Len(s2)
        PROVE  s3[Len(s1) + j] = s2[j]
    <3>1. Len(s1) + j \in 1..(Len(s1) + Len(s2)) /\ ~(Len(s1) + j <= Len(s1))
          /\ (Len(s1) + j) - Len(s1) = j
      BY <2>4
    <3> QED
      BY <2>5, <3>1
  <2>8. /\ Len(F[m]) = Len(F[m - 1]) + Len(q[m])
        /\ \A j \in 1..Len(F[m - 1]) : F[m][j] = F[m - 1][j]
        /\ \A j \in 1..Len(q[m]) : F[m][Len(F[m - 1]) + j] = q[m][j]
    BY <2>5, <2>6, <2>7 DEF s1, s2, s3
  <2> QED
    BY <2>1, <2>2, <2>8
\* what is joined stays at the front, whatever follows
<1>5. ASSUME NEW m \in 0..L
      PROVE  Len(F[m]) <= Len(r) /\ \A j \in 1..Len(F[m]) : r[j] = F[m][j]
  <2> DEFINE Kept(k) == Len(F[m]) <= Len(F[k]) /\ \A j \in 1..Len(F[m]) : F[k][j] = F[m][j]
             T == {d \in Nat : m + d <= L => Kept(m + d)}
  <2>1. Kept(m)
    BY <1>2
  <2>2. ASSUME NEW k \in 1..L, Kept(k - 1)
        PROVE  Kept(k)
    <3> DEFINE a == Len(F[m])
               b == Len(F[k - 1])
               c == Len(F[k])
    <3>1. a \in Nat /\ b \in Nat /\ c \in Nat /\ a <= b /\ b <= c
      <4>1. k - 1 \in 0..L /\ k \in 0..L /\ Len(q[k]) \in Nat /\ c = b + Len(q[k])
        BY <1>4
      <4>2. a \in Nat /\ b \in Nat /\ c \in Nat /\ a <= b
        BY <1>2, <2>2, <4>1
      <4> HIDE DEF a, b, c
      <4> QED
        BY <4>1, <4>2
    <3>2. /\ \A j \in 1..b : F[k][j] = F[k - 1][j]
          /\ \A j \in 1..a : F[k - 1][j] = F[m][j]
      BY <1>4, <2>2
    <3> HIDE DEF a, b, c
    <3>3. a <= c /\ \A j \in 1..a : F[k][j] = F[m][j]
      BY <3>1, <3>2
    <3> QED
      BY <3>3 DEF a, c
  <2> HIDE DEF Kept
  <2>3. 0 \in T
    BY <2>1
  <2>4. ASSUME NEW d \in Nat, d \in T
        PROVE  d + 1 \in T
    <3>1. CASE m + (d + 1) <= L
      <4>1. m + (d + 1) \in 1..L /\ (m + (d + 1)) - 1 = m + d /\ m + d <= L
        BY <1>0, <3>1
      <4>2. Kept((m + (d + 1)) - 1)
        BY <2>4, <4>1
      <4>3. Kept(m + (d + 1))
        BY <2>2, <4>1, <4>2
      <4> QED
        BY <4>3
    <3> QED
      BY <3>1
  <2> HIDE DEF T
  <2>5. Nat \subseteq T
    BY <2>3, <2>4, SetInduction
  <2>6. PICK d \in Nat : m + d = L
    <3>1. L - m \in Nat /\ m + (L - m) = L
      BY <1>0
    <3> QED
      BY <3>1
  <2>7. m + d <= L => Kept(m + d)
    BY <2>5 DEF T
  <2>9. m + d <= L
    BY <1>0, <2>6
  <2>8. Kept(L)
    BY <2>6, <2>7, <2>9, Zenon
  <2> QED
    BY <1>1, <2>8 DEF Kept
<1> DEFINE e == [m \in 0..L |-> Len(F[m])]
<1>6. e[0] = 0 /\ e[L] = Len(r)
  <2>1. Len(<< >>) = 0
    BY EmptySeq
  <2> QED
    BY <1>0, <1>1, <2>1 DEF IsJoining
<1>7. e \in [0..L -> 0..Len(r)]
  BY <1>2, <1>3, <1>5
<1>8. ASSUME NEW m \in 1..L
      PROVE  e[m] = e[m - 1] + Len(q[m])
  BY <1>4
<1>9. ASSUME NEW m \in 1..L, NEW j \in 1..Len(q[m])
      PROVE  r[e[m - 1] + j] = q[m][j]
  <2>1. /\ e[m - 1] = Len(F[m - 1]) /\ m \in 0..L /\ Len(q[m]) \in Nat
        /\ Len(F[m - 1]) \in Nat /\ Len(F[m]) = Len(F[m - 1]) + Len(q[m])
        /\ F[m][Len(F[m - 1]) + j] = q[m][j]
    BY <1>2, <1>4
  <2>2. Len(F[m - 1]) + j \in 1..Len(F[m])
    <3> DEFINE a == Len(F[m - 1])
               b == Len(q[m])
               c == Len(F[m])
    <3>1. a \in Nat /\ b \in Nat /\ c = a + b /\ j \in 1..b
      BY <2>1
    <3> HIDE DEF a, b, c
    <3>2. a + j \in 1..c
      BY <3>1
    <3> QED
      BY <3>2 DEF a, c
  <2>3. r[Len(F[m - 1]) + j] = F[m][Len(F[m - 1]) + j]
    BY <1>5, <2>1, <2>2
  <2> QED
    BY <2>1, <2>3
<1> HIDE DEF e
<1>10. AreEnds(e, q, r)
  BY <1>6, <1>7, <1>8, <1>9 DEF AreEnds
<1> QED
  BY <1>3, <1>10

\* A loop that goes on by sz[i] from place i ends, with one outcome.
IsOutcome(g, n, hit, sz) ==
    /\ g \in [Nat \ {0} -> BOOLEAN]
    /\ \A i \in Nat \ {0} : g[i] = (i <= n /\ (hit[i] \/ g[i + sz[i]]))

LEMMA ParseExists ==
  ASSUME NEW L \in Nat, NEW hit, NEW sz \in [1..L -> Nat \ {0}]
  PROVE  \E g : IsOutcome(g, L, hit, sz)
<1> DEFINE Right(g, i) == g[i] = (i <= L /\ (hit[i] \/ g[i + sz[i]]))
           S == {d \in Nat : \E g \in [Nat \ {0} -> BOOLEAN] : \A i \in Nat \ {0} : i > L - d => Right(g, i)}
<1>1. 0 \in S
  <2> DEFINE g == [i \in Nat \ {0} |-> FALSE]
  <2>2. ASSUME NEW i \in Nat \ {0}, i > L - 0
        PROVE  Right(g, i)
    <3>1. ~(i <= L)
      BY <2>2
    <3> QED
      BY <3>1
  <2>1. g \in [Nat \ {0} -> BOOLEAN] /\ \A i \in Nat \ {0} : i > L - 0 => Right(g, i)
    BY <2>2
  <2> QED
    BY <2>1
<1>2. ASSUME NEW d \in Nat, d \in S
      PROVE  d + 1 \in S
  <2>1. PICK g \in [Nat \ {0} -> BOOLEAN] : \A i \in Nat \ {0} : i > L - d => Right(g, i)
    BY <1>2
  <2> DEFINE k == L - d
  <2>2. CASE k < 1
    <3>1. \A i \in Nat \ {0} : i > L - (d + 1) => Right(g, i)
      BY <2>1, <2>2
    <3> QED
      BY <3>1
  <2>3. CASE k >= 1
    <3> DEFINE v == (k <= L /\ (hit[k] \/ g[k + sz[k]]))
               h == [i \in Nat \ {0} |-> IF i = k THEN v ELSE g[i]]
    <3>0. k \in 1..L
      BY <2>3
    <3>1. v \in BOOLEAN
      OBVIOUS
    <3>2. h[k] = v /\ \A i \in Nat \ {0} : i # k => h[i] = g[i]
      BY <3>0
    <3>3. h \in [Nat \ {0} -> BOOLEAN]
      BY <3>1
    <3> HIDE DEF h
    <3>4. ASSUME NEW i \in Nat \ {0}, i > L - (d + 1)
          PROVE  Right(h, i)
      <4>1. CASE i = k
        <5>1. k + sz[k] \in Nat \ {0} /\ k + sz[k] # k
          BY <3>0
        <5> QED
          BY <3>2, <4>1, <5>1
      <4>2. CASE i # k /\ i <= L
        <5>1. i > L - d /\ i + sz[i] \in Nat \ {0} /\ i + sz[i] # k
          BY <3>4, <4>2
        <5> QED
          BY <2>1, <3>2, <4>2, <5>1
      <4>3. CASE i # k /\ ~(i <= L)
        BY <2>1, <3>2, <3>4, <4>3
      <4> QED
        BY <4>1, <4>2, <4>3
    <3>5. \A i \in Nat \ {0} : i > L - (d + 1) => Right(h, i)
      BY <3>4
    <3> HIDE DEF Right
    <3>6. \E f \in [Nat \ {0} -> BOOLEAN] : \A i \in Nat \ {0} : i > L - (d + 1) => Right(f, i)
      BY <3>3, <3>5
    <3> QED
      BY <3>6
  <2> QED
    BY <2>2, <2>3
<1> HIDE DEF S
<1>3. L \in S
  BY <1>1, <1>2, SetInduction
<1>4. PICK g \in [Nat \ {0} -> BOOLEAN] : \A i \in Nat \ {0} : i > L - L => Right(g, i)
  BY <1>3 DEF S
<1>5. \A i \in Nat \ {0} : Right(g, i)
  BY <1>4
<1>6. IsOutcome(g, L, hit, sz)
  BY <1>5 DEF IsOutcome
<1> QED
  BY <1>6

Byte == 0..255

\* What an item is made of.
LEMMA ItemBytes ==
  ASSUME NEW item, IsItem(item)
  PROVE  LET b == <<item.key>> \o item.data
         IN  /\ b \in Seq(Byte) /\ Len(b) \in Nat \ {0}
             /\ b[1] = item.key /\ item_size(b, 1) = Len(b)
<1> DEFINE k == <<item.key>>
           d == item.data
           b == k \o d
<1>1. item.key \in Byte /\ d \in Seq(Byte)
  BY DEF IsItem, Byte
<1>2. k \in Seq(Byte) /\ Len(k) = 1 /\ k[1] = item.key /\ Len(d) \in Nat
  BY <1>1, LenProperties
<1> HIDE DEF k, d
<1>3. /\ b \in Seq(Byte) /\ Len(b) = Len(k) + Len(d)
      /\ \A i \in 1..(Len(k) + Len(d)) : b[i] = IF i <= Len(k) THEN k[i] ELSE d[i - Len(k)]
  BY <1>1, <1>2, ConcatProperties
<1> HIDE DEF b
<1>4. Len(b) \in Nat \ {0} /\ Len(b) = 1 + Len(d) /\ b[1] = item.key
  BY <1>1, <1>2, <1>3
<1>5. item_size(b, 1) = Len(b)
  <2>1. CASE IsLong(item)
    <3>1. d # << >> /\ Len(d) = 2 + d[1]
      BY <2>1 DEF IsItem, d
    <3>2. 1 \in 1..Len(d) /\ d[1] \in Nat
      <4>1. Len(d) # 0
        BY <1>1, <3>1, EmptySeq
      <4>2. d[1] \in Byte
        BY <1>1, <1>2, <4>1, ElementOfSeq
      <4>3. \A x \in Byte : x \in Nat
        BY DEF Byte
      <4> QED
        BY <1>2, <4>1, <4>2, <4>3
    <3>3. 1 < Len(b) /\ b[2] = d[1]
      BY <1>2, <1>3, <1>4, <3>2
    <3> QED
      BY <1>1, <1>4, <2>1, <3>1, <3>2, <3>3 DEF item_size, IsLong
  <2>2. CASE ~IsLong(item)
    <3>1. Len(d) = <<0, 1, 2, 4>>[(item.key % 4) + 1]
      BY <2>2 DEF IsItem, d
    <3>2. \A x \in Byte : x % 4 \in 0..3
      BY DEF Byte
    <3>3. \A c \in 0..3 : <<0, 1, 2, 4>>[c + 1] = short_size(c)
      BY DEF short_size
    <3>4. Len(d) = short_size(item.key % 4)
      BY <1>1, <3>1, <3>2, <3>3
    <3>5. item_size(b, 1) = 1 + short_size(b[1] % 4)
      BY <1>4, <2>2 DEF item_size, IsLong
    <3> QED
      BY <1>4, <3>4, <3>5
  <2> QED
    BY <2>1, <2>2
<1> QED
  BY <1>3, <1>4, <1>5 DEF b, k, d

\* An item has the size that the loop finds, wherever it is.
LEMMA SizeInPlace ==
  ASSUME NEW r \in Seq(Byte), NEW b \in Seq(Byte), Len(b) \in Nat \ {0}, item_size(b, 1) = Len(b),
         NEW a \in Nat, a + Len(b) <= Len(r), \A j \in 1..Len(b) : r[a + j] = b[j]
  PROVE  item_size(r, a + 1) = Len(b)
<1>1. r[a + 1] = b[1] /\ Len(r) \in Nat
  BY LenProperties
<1>2. CASE b[1] \div 16 = 15
  <2>1. Len(b) = 3 + (IF 1 < Len(b) THEN b[2] ELSE 0)
    BY <1>2 DEF item_size
  <2>2. Len(b) # 1 /\ 2 \in 1..Len(b) /\ Len(b) = 3 + b[2]
    BY <2>1
  <2>3. r[a + 2] = b[2] /\ a + 1 < Len(r) /\ (a + 1) + 1 = a + 2
    BY <1>1, <2>2
  <2> QED
    BY <1>1, <1>2, <2>2, <2>3 DEF item_size
<1>3. CASE b[1] \div 16 # 15
  BY <1>1, <1>3 DEF item_size
<1> QED
  BY <1>2, <1>3

\* and the loop goes on, whatever it reads.
LEMMA SizeIsPositive ==
  ASSUME NEW r \in Seq(Byte), NEW i \in 1..Len(r)
  PROVE  item_size(r, i) \in Nat \ {0}
<1>1. r[i] \in Byte /\ Len(r) \in Nat
  BY ElementOfSeq, LenProperties
<1>4. \A x \in Byte : x \in Nat /\ x % 4 \in 0..3
  BY DEF Byte
<1>2. CASE r[i] \div 16 = 15
  <2>1. i < Len(r) => r[i + 1] \in Byte
    BY <1>1, ElementOfSeq
  <2>2. item_size(r, i) = 3 + (IF i < Len(r) THEN r[i + 1] ELSE 0)
    BY <1>2 DEF item_size
  <2>3. CASE i < Len(r)
    <3>1. r[i + 1] \in Nat
      BY <1>4, <2>1, <2>3
    <3> QED
      BY <2>2, <2>3, <3>1
  <2>4. CASE ~(i < Len(r))
    BY <2>2, <2>4
  <2> QED
    BY <2>3, <2>4
<1>3. CASE r[i] \div 16 # 15
  <2>1. item_size(r, i) = 1 + short_size(r[i] % 4)
    BY <1>3 DEF item_size
  <2>2. r[i] % 4 \in 0..3
    BY <1>1, <1>4
  <2>3. \A code \in 0..3 : short_size(code) \in 0..4
    BY DEF short_size
  <2>4. short_size(r[i] % 4) \in 0..4
    BY <2>2, <2>3
  <2> QED
    BY <2>1, <2>4
<1> QED
  BY <1>2, <1>3

\* uses_numbered_reports() finds a Report ID where there is one among the items,
\* and none among the data (hid_linux.c:142-200).
LEMMA DescriptorIsUnderstood ==
  ASSUME NEW items, items \in Seq(ToSet(items)), \A item \in ToSet(items) : IsItem(item)
  PROVE  has_report_id(Bytes(items)) <=> Numbered(items)
<1> DEFINE N == Len(items)
           q == [i \in DOMAIN items |-> <<items[i].key>> \o items[i].data]
           rd == FlattenSeq(q)
           L == Len(rd)
<1>1. N \in Nat /\ DOMAIN items = 1..N
  BY LenProperties
<1>2. ASSUME NEW m \in 1..N
      PROVE  /\ q[m] \in Seq(Byte) /\ Len(q[m]) \in Nat \ {0}
             /\ q[m][1] = items[m].key /\ item_size(q[m], 1) = Len(q[m])
  <2>1. IsItem(items[m])
    BY <1>1 DEF ToSet
  <2>2. q[m] = <<items[m].key>> \o items[m].data
    BY <1>1
  <2> QED
    BY <2>1, <2>2, ItemBytes
<1>3. q \in Seq(Seq(Byte)) /\ Len(q) = N
  <2>1. q = [m \in 1..N |-> q[m]]
    BY <1>1
  <2> HIDE DEF q
  <2>2. q \in [1..N -> Seq(Byte)]
    BY <1>2, <2>1
  <2> QED
    BY <1>1, <2>2, SeqDef, LenProperties
<1> HIDE DEF q, rd
<1>4. rd \in Seq(Byte) /\ L \in Nat
  BY <1>3, PartsInPlace, LenProperties DEF rd
<1>5. PICK e : AreEnds(e, q, rd)
  BY <1>3, PartsInPlace DEF rd
<1>6. e \in [0..N -> 0..L] /\ e[0] = 0 /\ e[N] = L
  BY <1>3, <1>5 DEF AreEnds
<1>7. ASSUME NEW m \in 1..N
      PROVE  /\ e[m - 1] + 1 \in 1..L /\ rd[e[m - 1] + 1] = items[m].key
             /\ (e[m - 1] + 1) + item_size(rd, e[m - 1] + 1) = e[m] + 1
  <2>1. m - 1 \in 0..N /\ m \in 0..N
    BY <1>1
  <2>2. e[m - 1] \in 0..L /\ e[m] \in 0..L
    BY <1>6, <2>1
  <2>3. e[m] = e[m - 1] + Len(q[m]) /\ \A j \in 1..Len(q[m]) : rd[e[m - 1] + j] = q[m][j]
    BY <1>3, <1>5 DEF AreEnds
  <2> DEFINE a == e[m - 1]
             b == q[m]
             c == e[m]
  <2>4. /\ a \in Nat /\ c <= L /\ c = a + Len(b) /\ \A j \in 1..Len(b) : rd[a + j] = b[j]
        /\ b \in Seq(Byte) /\ Len(b) \in Nat \ {0} /\ item_size(b, 1) = Len(b)
    BY <1>2, <1>4, <2>2, <2>3
  <2>5. b[1] = items[m].key
    BY <1>2
  <2> HIDE DEF a, b, c
  <2>6. item_size(rd, a + 1) = Len(b)
    BY <1>4, <2>4, SizeInPlace
  <2>7. a + 1 \in 1..L /\ rd[a + 1] = b[1] /\ (a + 1) + Len(b) = c + 1
    BY <1>4, <2>4
  <2> QED
    BY <2>5, <2>6, <2>7 DEF a, c
<1> DEFINE IsParse(f) == f = [i \in Nat \ {0} |->
                i <= L /\ (rd[i] = ReportIdKey \/ f[i + item_size(rd, i)])]
<1>8. \E f : IsParse(f)
  <2> DEFINE hit == [i \in 1..L |-> rd[i] = ReportIdKey]
             sz == [i \in 1..L |-> item_size(rd, i)]
  <2>1. sz \in [1..L -> Nat \ {0}]
    BY <1>4, SizeIsPositive
  <2>2. \A i \in 1..L : hit[i] = (rd[i] = ReportIdKey) /\ sz[i] = item_size(rd, i)
    OBVIOUS
  <2> HIDE DEF hit, sz, L
  <2>3. PICK g : IsOutcome(g, L, hit, sz)
    BY <1>4, <2>1, ParseExists
  <2>4. ASSUME NEW i \in Nat \ {0}
        PROVE  g[i] = (i <= L /\ (rd[i] = ReportIdKey \/ g[i + item_size(rd, i)]))
    <3>1. g[i] = (i <= L /\ (hit[i] \/ g[i + sz[i]]))
      BY <2>3 DEF IsOutcome
    <3>2. CASE i <= L
      <4>1. i \in 1..L
        BY <1>4, <3>2
      <4> QED
        BY <2>2, <3>1, <4>1
    <3> QED
      BY <3>1, <3>2
  <2>5. g = [i \in Nat \ {0} |-> g[i]]
    BY <2>3 DEF IsOutcome
  <2>6. IsParse(g)
    BY <2>4, <2>5
  <2> QED
    BY <2>6
<1>9. ASSUME NEW f, IsParse(f)
      PROVE  f[1] <=> Numbered(items)
  <2>1. \A i \in Nat \ {0} : f[i] = (i <= L /\ (rd[i] = ReportIdKey \/ f[i + item_size(rd, i)]))
    BY <1>9
  <2> DEFINE Rest(k) == \E m \in (k + 1)..N : items[m].key = ReportIdKey
             T == {d \in Nat : \A k \in 0..N : k = N - d => (f[e[k] + 1] <=> Rest(k))}
  <2>2. 0 \in T
    <3>1. L + 1 \in Nat \ {0} /\ ~(L + 1 <= L)
      BY <1>4
    <3>2. ~f[L + 1]
      BY <2>1, <3>1
    <3>3. ~Rest(N)
      BY <1>1
    <3>4. \A k \in 0..N : k = N - 0 => k = N
      BY <1>1
    <3>5. f[e[N] + 1] <=> Rest(N)
      BY <1>6, <3>2, <3>3
    <3> HIDE DEF Rest
    <3> QED
      BY <3>4, <3>5
  <2>3. ASSUME NEW d \in Nat, d \in T
        PROVE  d + 1 \in T
    <3> SUFFICES ASSUME NEW k \in 0..N, k = N - (d + 1)
                 PROVE  f[e[k] + 1] <=> Rest(k)
      OBVIOUS
    <3>1. k + 1 \in 1..N /\ k + 1 \in 0..N /\ k + 1 = N - d /\ (k + 1) - 1 = k
      BY <1>1
    <3>2. f[e[k + 1] + 1] <=> Rest(k + 1)
      BY <2>3, <3>1
    <3>3. /\ e[k] + 1 \in 1..L /\ rd[e[k] + 1] = items[k + 1].key
          /\ (e[k] + 1) + item_size(rd, e[k] + 1) = e[k + 1] + 1
      BY <1>7, <3>1
    <3>4. f[e[k] + 1] <=> (items[k + 1].key = ReportIdKey \/ f[e[k + 1] + 1])
      <4>1. e[k] + 1 \in Nat \ {0} /\ e[k] + 1 <= L
        BY <1>4, <3>3
      <4> QED
        BY <2>1, <3>3, <4>1
    <3>5. Rest(k) <=> (items[k + 1].key = ReportIdKey \/ Rest(k + 1))
      <4>1. \A m : m \in (k + 1)..N <=> m = k + 1 \/ m \in ((k + 1) + 1)..N
        BY <1>1, <3>1
      <4> QED
        BY <4>1, Zenon
    <3> HIDE DEF Rest
    <3> QED
      BY <3>2, <3>4, <3>5, Zenon
  <2> HIDE DEF T
  <2>4. N \in T
    BY <1>1, <2>2, <2>3, SetInduction
  <2>5. f[e[0] + 1] <=> Rest(0)
    <3>1. 0 \in 0..N /\ 0 = N - N
      BY <1>1
    <3> QED
      BY <2>4, <3>1 DEF T
  <2>6. f[1] <=> Rest(0)
    BY <1>6, <2>5
  <2>7. Rest(0) <=> Numbered(items)
    BY <1>1 DEF Numbered
  <2> HIDE DEF Rest
  <2> QED
    BY <2>6, <2>7
<1> DEFINE from == CHOOSE f : IsParse(f)
<1>10. IsParse(from)
  BY <1>8
<1>11. has_report_id(rd) = from[1]
  BY DEF has_report_id
<1>12. Bytes(items) = rd
  BY DEF Bytes, rd, q
<1> HIDE DEF from, IsParse
<1> QED
  BY <1>9, <1>10, <1>11, <1>12

-------------------------------------------------------------------------------
(***************************************************************************)
(* The invariant, and that reads return the bytes that were sent.          *)
(***************************************************************************)
\* The descriptor is understood when the device is opened, and read no more.
LEMMA DescriptorStep == IInv /\ [Next]_vars => DescriptorOK'
<1> SUFFICES ASSUME IInv, [Next]_vars
             PROVE  DescriptorOK'
  OBVIOUS
<1> USE DEF IInv, DescriptorOK, Linux
<1>1. CASE UNCHANGED vars
  BY <1>1 DEF vars
<1>2. CASE OpenPath
  <2>1. PICK items \in Descriptors :
          /\ numbered' = Numbered(items)
          /\ uses_numbered_reports' = (Linux /\ described' /\ has_report_id(Bytes(items)))
          /\ platform' = platform
    BY <1>2 DEF OpenPath
  <2>2. has_report_id(Bytes(items)) <=> Numbered(items)
    BY DescriptorsAssumption, DescriptorIsUnderstood
  <2> QED
    BY <2>1, <2>2
<1>3. CASE Enumerate \/ OpenFails \/ Close
  BY <1>3 DEF Enumerate, OpenFails, Close
<1>4. CASE Arrive \/ Unplug \/ Call \/ PollReadable \/ GoOn \/ Start \/ EventSet \/ Return
  BY <1>4 DEF Arrive, Unplug, Call, PollReadable, GoOn, Start, EventSet, Return
<1>5. CASE PollError \/ PollTimeout \/ Read \/ StartFails \/ Timeout \/ Result
  BY <1>5 DEF PollError, PollTimeout, Read, StartFails, Timeout, Result, Answer
<1> QED
  BY <1>1, <1>2, <1>3, <1>4, <1>5 DEF Next

\* What is due for a report depends on the device and its descriptor only.
LEMMA SameDue ==
  ASSUME NEW n, UNCHANGED <<platform, numbered, described>>
  PROVE  Due(n)' = Due(n)
<1>1. Sent(n)' = Sent(n)
  BY DEF Sent
<1>2. Raw(n)' = Raw(n)
  BY <1>1 DEF Raw
<1>3. Misread' = Misread
  BY DEF Misread
<1> QED
  BY <1>1, <1>2, <1>3 DEF Due

\* A read answers with a report of the ring or of the request.
LEMMA AnswerIsExact ==
  ASSUME IInv, handle = "open", NEW a \in {Error, Nothing} \cup Report, Answer(a)
  PROVE  ReportsAreExact'
<1>1. CASE a \in Report
  <2>1. a > 0 /\ answer' = a /\ data' = chopped(Raw(a))
    BY <1>1, HidFilesAssumption DEF Answer, Report
  <2>2. data' = Due(a)
    BY <1>1, <2>1, Chopped DEF IInv
  <2>3. Due(a)' = Due(a)
    BY SameDue DEF Answer
  <2> QED
    BY <2>1, <2>2, <2>3 DEF ReportsAreExact, Due, Misread, Raw, Sent
<1>2. CASE a \in {Error, Nothing}
  BY <1>2 DEF Answer, ReportsAreExact, Error, Nothing
<1> QED
  BY <1>1, <1>2

LEMMA ReportsStep == IInv /\ [Next]_vars => ReportsAreExact'
<1> SUFFICES ASSUME IInv, [Next]_vars
             PROVE  ReportsAreExact'
  OBVIOUS
<1>0. handle # "open" => pc = "idle" /\ answer = NoAnswer
  BY DEF IInv, HandleOK
<1> DEFINE Kept == UNCHANGED <<platform, numbered, described, answer, data>>
<1>k. ASSUME Kept PROVE ReportsAreExact'
  <2>1. Due(answer)' = Due(answer)
    BY <1>k DEF Due, Misread, Raw, Sent
  <2> QED
    BY <1>k, <2>1 DEF IInv, ReportsAreExact
<1>1. CASE UNCHANGED vars
  BY <1>k, <1>1 DEF vars
<1>2. CASE Enumerate \/ OpenFails \/ OpenPath
  <2>1. answer' = answer
    BY <1>2 DEF Enumerate, OpenFails, OpenPath
  <2>2. handle # "open"
    BY <1>2 DEF Enumerate, OpenFails, OpenPath
  <2> QED
    BY <1>0, <2>1, <2>2 DEF ReportsAreExact, NoAnswer
<1>3. CASE Arrive \/ Unplug \/ Call \/ PollReadable \/ GoOn \/ Start \/ EventSet \/ Close
  <2>1. Kept
    BY <1>3 DEF Arrive, Unplug, Call, PollReadable, GoOn, Start, EventSet, Close
  <2> QED
    BY <1>k, <2>1
<1>4. CASE Return
  BY <1>4 DEF Return, ReportsAreExact, NoAnswer
<1>5. CASE PollError \/ PollTimeout \/ StartFails \/ Timeout
  BY <1>0, <1>5, AnswerIsExact DEF PollError, PollTimeout, StartFails, Timeout
<1>6. CASE Read
  <2>1. ring # << >> => Head(ring) \in Report
    BY RingSteps DEF IInv
  <2> QED
    BY <1>0, <1>6, <2>1, AnswerIsExact DEF Read
<1>7. CASE Result
  <2>1. request = "done" => read_buf \in Report
    BY DEF IInv, TypeOK, ReadTypes, RequestOK
  <2>2. (IF request = "done" THEN read_buf ELSE Error) \in {Error, Nothing} \cup Report
    BY <2>1
  <2> QED
    BY <1>0, <1>7, <2>2, AnswerIsExact DEF Result
<1> QED
  BY <1>1, <1>2, <1>3, <1>4, <1>5, <1>6, <1>7 DEF Next

\* The inductive invariant.
THEOREM Invariance == Spec => []IInv
<1>1. IInv /\ [Next]_vars => IInv'
  BY TypeStep, HandleStep, RequestStep, DescriptorStep, ReportsStep DEF IInv
<1>2. QED
  BY InitIInv, <1>1, PTL DEF Spec

\* The variables keep their types.
THEOREM TypeCorrect == Spec => []TypeOK
<1>1. IInv => TypeOK
  BY DEF IInv
<1>2. QED
  BY <1>1, Invariance, PTL

\* A read returns the bytes that the device sent, whatever the system put before
\* them, for every descriptor of whole items, unless an old Linux did not tell it:
\* then the number of a report is there twice (hid_linux.c:142-200, 641-656, 711-719,
\* hid_windows.c:704-736).
THEOREM ReportsStayExact == Spec => []ReportsAreExact
<1>1. IInv => ReportsAreExact
  BY DEF IInv
<1>2. QED
  BY <1>1, Invariance, PTL

-------------------------------------------------------------------------------
(***************************************************************************)
(* The listing: a fold over the devices, and the chain of records that it  *)
(* makes.                                                                  *)
(***************************************************************************)
\* The greatest of some numbers.
LEMMA MaxIsIn ==
  ASSUME NEW n \in Nat, NEW s \in SUBSET (1..n), s # {}
  PROVE  Max(s) \in s /\ \A y \in s : y <= Max(s)
<1> DEFINE T == {n - x : x \in s}
<1>0. \A x \in s : n - x \in Nat /\ x \in Nat
  OBVIOUS
<1>1. T \in SUBSET Nat /\ T # {}
  BY <1>0
<1>2. PICK m \in T : \A k \in T : m <= k
  BY <1>1, LeastNumber
<1>3. PICK x \in s : m = n - x
  BY <1>2
<1>4. \A y \in s : x >= y
  <2> TAKE y \in s
  <2>1. m <= n - y /\ x \in Nat /\ y \in Nat
    BY <1>0, <1>2
  <2> QED
    BY <1>3, <2>1
<1>5. Max(s) \in s /\ \A y \in s : Max(s) >= y
  BY <1>4 DEF Max
<1> QED
  BY <1>5

LEMMA MaxOfRange ==
  ASSUME NEW n \in Nat \ {0}
  PROVE  Max(1..n) = n
<1> DEFINE s == 1..n
<1>1. s \in SUBSET (1..n) /\ s # {} /\ n \in Nat /\ n \in s
  OBVIOUS
<1> HIDE DEF s
<1>2. Max(s) \in s /\ \A y \in s : y <= Max(s)
  BY <1>1, MaxIsIn
<1> QED
  BY <1>1, <1>2 DEF s

\* A fold that takes the greatest element of a set last.
IsFold(g, n, p, b, vid, pid) ==
    g = [s \in SUBSET (1..n) |->
           IF s = {} THEN NoRecords
           ELSE Visit(p, b, vid, pid, g[s \ {Max(s)}], Max(s))]

LEMMA FoldExists ==
  ASSUME NEW p, NEW b, NEW vid, NEW pid, NEW n \in Nat
  PROVE  \E g : IsFold(g, n, p, b, vid, pid)
<1> DEFINE V(l, m) == Visit(p, b, vid, pid, l, m)
           T == {m \in Nat : \E g : IsFold(g, m, p, b, vid, pid)}
<1>1. 0 \in T
  <2> DEFINE g == [s \in {{}} |-> NoRecords]
  <2>1. SUBSET (1..0) = {{}}
    OBVIOUS
  <2>2. g = [s \in SUBSET (1..0) |-> IF s = {} THEN NoRecords ELSE V(g[s \ {Max(s)}], Max(s))]
    BY <2>1, Zenon
  <2> QED
    BY <2>2, Zenon DEF IsFold
<1>2. ASSUME NEW m \in Nat, m \in T
      PROVE  m + 1 \in T
  <2>1. PICK g : IsFold(g, m, p, b, vid, pid)
    BY <1>2
  <2> DEFINE R(h, s) == IF s = {} THEN NoRecords ELSE V(h[s \ {Max(s)}], Max(s))
             h == [s \in SUBSET (1..m + 1) |-> R(g, s)]
  <2>2. \A s \in SUBSET (1..m) : g[s] = R(g, s)
    BY <2>1, Zenon DEF IsFold
  <2>3. ASSUME NEW s \in SUBSET (1..m + 1), s # {}
        PROVE  s \ {Max(s)} \in SUBSET (1..m)
    <3> HIDE DEF T, h
    <3>1. Max(s) \in s /\ \A y \in s : y <= Max(s)
      <4> DEFINE k == m + 1
      <4>1. k \in Nat /\ s \in SUBSET (1..k)
        OBVIOUS
      <4> HIDE DEF k
      <4> QED
        BY <2>3, <4>1, MaxIsIn
    <3>2. ASSUME NEW y \in s, y # Max(s)
          PROVE  y \in 1..m
      <4>1. y \in 1..m + 1 /\ Max(s) \in 1..m + 1 /\ y <= Max(s)
        BY <3>1
      <4> QED
        BY <3>2, <4>1
    <3> QED
      BY <3>2
  <2>4. \A s \in SUBSET (1..m) : s \in SUBSET (1..m + 1)
    OBVIOUS
  <2>5. \A s \in SUBSET (1..m) : h[s] = g[s]
    BY <2>2, <2>4, Zenon
  <2>6. ASSUME NEW s \in SUBSET (1..m + 1)
        PROVE  R(g, s) = R(h, s)
    <3>1. CASE s = {}
      BY <3>1, Zenon
    <3>2. CASE s # {}
      <4>1. h[s \ {Max(s)}] = g[s \ {Max(s)}]
        BY <2>3, <2>5, <3>2, Zenon
      <4> QED
        BY <4>1, Zenon
    <3> QED
      BY <3>1, <3>2
  <2>7. h = [s \in SUBSET (1..m + 1) |-> R(h, s)]
    BY <2>6, Zenon
  <2>8. IsFold(h, m + 1, p, b, vid, pid)
    BY <2>7, Zenon DEF IsFold
  <2> QED
    BY <2>8
<1> HIDE DEF T
<1>3. Nat \subseteq T
  BY <1>1, <1>2, SetInduction
<1> QED
  BY <1>3 DEF T

\* The loop over the devices.
IsLoop(F, n, p, b, vid, pid) ==
    F[0] = NoRecords /\ \A m \in 1..n : F[m] = Visit(p, b, vid, pid, F[m - 1], m)

LEMMA EnumerateIsLoop ==
  ASSUME NEW p, NEW b, NEW vid, NEW pid, NEW n \in Nat, DOMAIN b = 1..n
  PROVE  \E F : IsLoop(F, n, p, b, vid, pid) /\ hid_enumerate(p, b, vid, pid) = F[n]
<1> DEFINE fold == CHOOSE g : IsFold(g, n, p, b, vid, pid)
<1>1. IsFold(fold, n, p, b, vid, pid)
  BY FoldExists, Zenon
<1>2. hid_enumerate(p, b, vid, pid) = fold[1..n]
  <2> DEFINE q == [i \in DOMAIN b |-> i]
             it == CHOOSE g : g = [s \in SUBSET DOMAIN q |->
                     IF s = {} THEN NoRecords
                     ELSE Visit(p, b, vid, pid, g[s \ {Max(s)}], q[Max(s)])]
  <2>1. hid_enumerate(p, b, vid, pid) = it[DOMAIN q]
    BY Zenon DEF hid_enumerate, FoldLeftDomain, FoldLeft, MapThenFoldSet
  <2>2. DOMAIN q = 1..n /\ \A i \in 1..n : q[i] = i
    OBVIOUS
  <2> HIDE DEF q
  <2> DEFINE A(g, s) == IF s = {} THEN NoRecords ELSE Visit(p, b, vid, pid, g[s \ {Max(s)}], q[Max(s)])
             B(g, s) == IF s = {} THEN NoRecords ELSE Visit(p, b, vid, pid, g[s \ {Max(s)}], Max(s))
  <2>3. ASSUME NEW g, NEW s \in SUBSET (1..n)
        PROVE  A(g, s) = B(g, s)
    <3>1. CASE s = {}
      BY <3>1, Zenon
    <3>2. CASE s # {}
      <4>1. Max(s) \in 1..n
        BY <3>2, MaxIsIn
      <4>2. q[Max(s)] = Max(s)
        BY <2>2, <4>1
      <4> QED
        BY <4>2, Zenon
    <3> QED
      BY <3>1, <3>2
  <2>4. \A g : [s \in SUBSET DOMAIN q |-> A(g, s)] = [s \in SUBSET (1..n) |-> B(g, s)]
    BY <2>2, <2>3, Zenon
  <2>5. it = fold
    BY <2>4, Zenon DEF IsFold
  <2> QED
    BY <2>1, <2>2, <2>5, Zenon
<1> HIDE DEF fold
<1>3. ASSUME NEW s \in SUBSET (1..n)
      PROVE  fold[s] = IF s = {} THEN NoRecords ELSE Visit(p, b, vid, pid, fold[s \ {Max(s)}], Max(s))
  BY <1>1, Zenon DEF IsFold
<1> DEFINE F == [m \in 0..n |-> fold[1..m]]
<1>4. F[0] = NoRecords
  <2>1. 1..0 = {} /\ F[0] = fold[1..0]
    OBVIOUS
  <2>2. fold[{}] = NoRecords
    BY <1>3, Zenon
  <2> QED
    BY <2>1, <2>2, Zenon
<1>5. ASSUME NEW m \in 1..n
      PROVE  F[m] = Visit(p, b, vid, pid, F[m - 1], m)
  <2>1. Max(1..m) = m
    BY MaxOfRange
  <2>2. (1..m) \ {m} = 1..(m - 1) /\ 1..m # {} /\ 1..m \in SUBSET (1..n)
    OBVIOUS
  <2>3. F[m] = fold[1..m] /\ F[m - 1] = fold[1..(m - 1)]
    OBVIOUS
  <2> HIDE DEF F
  <2>4. fold[1..m] = Visit(p, b, vid, pid, fold[(1..m) \ {Max(1..m)}], Max(1..m))
    BY <1>3, <2>2, Zenon
  <2> QED
    BY <2>1, <2>2, <2>3, <2>4, Zenon
<1>6. hid_enumerate(p, b, vid, pid) = F[n]
  <2>1. F[n] = fold[1..n]
    OBVIOUS
  <2> QED
    BY <1>2, <2>1, Zenon
<1> HIDE DEF F
<1>7. IsLoop(F, n, p, b, vid, pid)
  BY <1>4, <1>5, Zenon DEF IsLoop
<1> QED
  BY <1>6, <1>7

\* The list has the records of s, in order, and of the devices up to k; a record
\* that was taken back has no next.
Holds(list, s, k) ==
    /\ s \in Seq(1..k)
    /\ \A i, j \in 1..Len(s) : i < j => s[i] < s[j]
    /\ list.alive = {s[i] : i \in 1..Len(s)}
    /\ list.alive \subseteq DOMAIN list.next /\ DOMAIN list.next \subseteq 1..k
    /\ \A i \in 1..Len(s) : list.next[s[i]] = IF i = Len(s) THEN Null ELSE s[i + 1]
    /\ \A n \in DOMAIN list.next : n \notin list.alive => list.next[n] = Null
    /\ list.root = IF s = << >> THEN Null ELSE s[1]
    /\ list.cur = IF s = << >> THEN Null ELSE s[Len(s)]

\* What unlink does to each part of the list.
LEMMA UnlinkIs ==
  ASSUME NEW a, NEW r, NEW c, NEW p, NEW x, NEW list,
         list = [alive |-> a, next |-> x, prev |-> p, cur |-> c, root |-> r]
  PROVE  /\ Unlink(list).alive = a \ {c}
         /\ Unlink(list).next = IF p # Null THEN [x EXCEPT ![p] = Null] ELSE x
         /\ Unlink(list).cur = IF p # Null THEN p ELSE Null
         /\ Unlink(list).root = IF p # Null THEN r ELSE Null
<1>1. CASE p # Null
  BY <1>1 DEF Unlink
<1>2. CASE p = Null
  BY <1>2 DEF Unlink
<1> QED
  BY <1>1, <1>2

LEMMA NothingHeld == Holds(NoRecords, << >>, 0)
  BY EmptySeq DEF Holds, NoRecords

LEMMA HeldLonger ==
  ASSUME NEW list, NEW s, NEW k \in Nat, Holds(list, s, k)
  PROVE  Holds(list, s, k + 1)
<1>1. s \in Seq(1..k + 1)
  BY SeqDef, ElementOfSeq, LenProperties DEF Holds
<1>2. DOMAIN list.next \subseteq 1..k + 1
  BY DEF Holds
<1> QED
  BY <1>1, <1>2 DEF Holds

\* What is held, in the terms that the next lemmas need.
LEMMA HeldFacts ==
  ASSUME NEW list, NEW s, NEW k \in Nat, Holds(list, s, k)
  PROVE  /\ Len(s) \in Nat /\ (s = << >> <=> Len(s) = 0)
         /\ \A i \in 1..Len(s) : s[i] \in 1..k /\ s[i] \in DOMAIN list.next
         /\ \A i, j \in 1..Len(s) : s[i] = s[j] => i = j
         /\ list.cur = Null <=> s = << >>
         /\ \A m \in DOMAIN list.next : m \in 1..k /\ m # Null /\ m # k + 1
         /\ list.cur # Null => list.cur \in list.alive
<1>1. s \in Seq(1..k) /\ Len(s) \in Nat /\ (s = << >> <=> Len(s) = 0)
  BY LenProperties, EmptySeq DEF Holds
<1>2. \A i \in 1..Len(s) : s[i] \in 1..k /\ s[i] \in DOMAIN list.next
  BY <1>1, ElementOfSeq DEF Holds
<1>3. \A i, j \in 1..Len(s) : s[i] = s[j] => i = j
  <2> TAKE i, j \in 1..Len(s)
  <2>1. (i < j => s[i] < s[j]) /\ (j < i => s[j] < s[i])
    BY DEF Holds
  <2>2. s[i] \in Nat /\ s[j] \in Nat
    BY <1>2
  <2> QED
    BY <1>1, <2>1, <2>2
<1>4. s # << >> => list.cur = s[Len(s)] /\ Len(s) \in 1..Len(s)
  BY <1>1 DEF Holds
<1>5. s = << >> => list.cur = Null
  BY DEF Holds
<1>6. \A m \in DOMAIN list.next : m \in 1..k
  BY DEF Holds
<1>7. \A m \in 1..k : m # Null /\ m # k + 1
  BY NullAssumption
<1>8. s # << >> => list.cur \in list.alive /\ list.cur # Null
  BY <1>2, <1>4, <1>7 DEF Holds
<1> QED
  BY <1>1, <1>2, <1>3, <1>5, <1>6, <1>7, <1>8

LEMMA HeldLink ==
  ASSUME NEW list, NEW s, NEW k \in Nat, Holds(list, s, k)
  PROVE  Holds(Link(list, k + 1), Append(s, k + 1), k + 1)
<1> DEFINE n == k + 1
           N == Len(s)
           t == Append(s, n)
           to == Link(list, n)
<1>1. Holds(list, s, k + 1) /\ s \in Seq(1..n)
  BY HeldLonger DEF Holds
<1>2. /\ t \in Seq(1..n) /\ Len(t) = N + 1 /\ N \in Nat /\ t # << >>
      /\ t[N + 1] = n /\ \A i \in 1..N : t[i] = s[i]
  BY <1>1, AppendProperties, LenProperties
<1>3. /\ \A i \in 1..N : s[i] \in 1..k /\ s[i] \in DOMAIN list.next
      /\ \A i, j \in 1..N : s[i] = s[j] => i = j
      /\ list.cur = Null <=> N = 0
      /\ s = << >> <=> N = 0
      /\ \A m \in DOMAIN list.next : m \in 1..k /\ m # Null /\ m # n
      /\ list.cur # Null => list.cur \in list.alive
  BY HeldFacts
<1>4. /\ to.alive = list.alive \cup {n}
      /\ to.next = [i \in DOMAIN list.next \cup {n} |->
             IF i = n THEN Null ELSE IF i = list.cur THEN n ELSE list.next[i]]
      /\ to.cur = n /\ to.root = IF list.cur = Null THEN n ELSE list.root
  <2> HIDE DEF n
  <2> QED
    BY DEF Link
<1> HIDE DEF t, to
<1>0. \A i, j \in 1..N : i < j => s[i] < s[j]
  BY DEF Holds
<1>5. \A i, j \in 1..N + 1 : i < j => t[i] < t[j]
  <2> TAKE i, j \in 1..N + 1
  <2>1. CASE j \in 1..N /\ i \in 1..N
    BY <1>0, <1>2, <2>1
  <2>2. CASE j = N + 1 /\ i \in 1..N
    <3>1. t[i] = s[i] /\ t[j] = k + 1 /\ s[i] \in 1..k
      BY <1>2, <1>3, <2>2
    <3> QED
      BY <3>1
  <2>3. i < j => (j \in 1..N /\ i \in 1..N) \/ (j = N + 1 /\ i \in 1..N)
    BY <1>2
  <2> QED
    BY <2>1, <2>2, <2>3
<1>6. to.alive = {t[i] : i \in 1..N + 1}
  <2>1. list.alive = {s[i] : i \in 1..N}
    BY DEF Holds
  <2>2. 1..N + 1 = (1..N) \cup {N + 1}
    BY <1>2
  <2> HIDE DEF n
  <2> QED
    BY <1>2, <1>4, <2>1, <2>2
<1>7. to.alive \subseteq DOMAIN to.next /\ DOMAIN to.next \subseteq 1..n /\ n \in 1..n
  <2>1. list.alive \subseteq DOMAIN list.next
    BY DEF Holds
  <2>2. DOMAIN to.next = DOMAIN list.next \cup {n}
    BY <1>4
  <2>3. n \in 1..n /\ \A m \in 1..k : m \in 1..n
    OBVIOUS
  <2> HIDE DEF n
  <2> QED
    BY <1>3, <1>4, <2>1, <2>2, <2>3
<1>8. ASSUME NEW i \in 1..N + 1
      PROVE  to.next[t[i]] = IF i = N + 1 THEN Null ELSE t[i + 1]
  <2>1. CASE i = N + 1
    BY <1>2, <1>4, <2>1
  <2>2. CASE i \in 1..N
    <3>1. t[i] = s[i] /\ s[i] \in DOMAIN list.next /\ s[i] # n
      BY <1>2, <1>3, <2>2
    <3>2. to.next[t[i]] = IF s[i] = list.cur THEN n ELSE list.next[s[i]]
      BY <1>4, <3>1
    <3>3. list.cur = s[N] /\ N \in 1..N /\ list.next[s[i]] = IF i = N THEN Null ELSE s[i + 1]
      BY <1>2, <1>3, <2>2 DEF Holds
    <3>4. CASE i = N
      BY <1>2, <3>2, <3>3, <3>4
    <3>5. CASE i # N
      <4>1. s[i] # s[N] /\ i + 1 \in 1..N
        BY <1>2, <1>3, <2>2, <3>3, <3>5
      <4> QED
        BY <1>2, <2>2, <3>2, <3>3, <3>5, <4>1
    <3> QED
      BY <3>4, <3>5
  <2> QED
    BY <1>2, <2>1, <2>2
<1>9. ASSUME NEW m \in DOMAIN to.next, m \notin to.alive
      PROVE  to.next[m] = Null
  <2>1. m # n /\ m \in DOMAIN list.next /\ m \notin list.alive
    BY <1>4, <1>9
  <2>2. m # list.cur
    BY <1>3, <2>1
  <2> QED
    BY <1>4, <2>1, <2>2 DEF Holds
<1>10. to.root = t[1]
  <2>1. CASE N = 0
    BY <1>2, <1>3, <1>4, <2>1
  <2>2. CASE N # 0
    BY <1>2, <1>3, <1>4, <2>2 DEF Holds
  <2> QED
    BY <2>1, <2>2
<1> HIDE DEF n, N
<1>11. Holds(to, t, n)
  BY <1>2, <1>4, <1>5, <1>6, <1>7, <1>8, <1>9, <1>10 DEF Holds
<1> QED
  BY <1>11 DEF to, t, n

LEMMA HeldUnlink ==
  ASSUME NEW list, NEW s, NEW k \in Nat, Holds(list, s, k)
  PROVE  Holds(Unlink(Link(list, k + 1)), s, k + 1)
<1> DEFINE n == k + 1
           N == Len(s)
           x == [i \in DOMAIN list.next \cup {n} |->
                   IF i = n THEN Null ELSE IF i = list.cur THEN n ELSE list.next[i]]
           by == Link(list, n)
           to == Unlink(by)
<1>1. Holds(list, s, n) /\ s \in Seq(1..n) /\ N \in Nat
  BY HeldLonger, HeldFacts DEF Holds
<1>2. /\ \A i \in 1..N : s[i] \in 1..k /\ s[i] \in DOMAIN list.next
      /\ \A i, j \in 1..N : s[i] = s[j] => i = j
      /\ list.cur = Null <=> N = 0
      /\ s = << >> <=> N = 0
      /\ \A m \in DOMAIN list.next : m \in 1..k /\ m # Null /\ m # n
      /\ list.cur # Null => list.cur \in list.alive
  BY HeldFacts
<1>3. by = [alive |-> list.alive \cup {n}, next |-> x, prev |-> list.cur, cur |-> n,
            root |-> IF list.cur = Null THEN n ELSE list.root]
  BY Zenon DEF Link
<1>4. /\ to.alive = (list.alive \cup {n}) \ {n}
      /\ to.next = IF list.cur # Null THEN [x EXCEPT ![list.cur] = Null] ELSE x
      /\ to.cur = IF list.cur # Null THEN list.cur ELSE Null
      /\ to.root = IF list.cur # Null THEN IF list.cur = Null THEN n ELSE list.root ELSE Null
  <2> HIDE DEF x, by
  <2> QED
    BY <1>3, UnlinkIs
<1> HIDE DEF by, to
<1>5. list.alive \subseteq DOMAIN list.next /\ DOMAIN list.next \subseteq 1..n
  BY <1>1 DEF Holds
<1>6. to.alive = list.alive
  BY <1>2, <1>4, <1>5
<1>7. DOMAIN to.next = DOMAIN list.next \cup {n}
  BY <1>4
<1>8. ASSUME NEW m \in DOMAIN list.next
      PROVE  to.next[m] = IF m = list.cur THEN Null ELSE list.next[m]
  BY <1>2, <1>4, <1>8
<1>9. to.next[n] = Null
  BY <1>2, <1>4, <1>5
<1>10. ASSUME NEW i \in 1..N
       PROVE  to.next[s[i]] = IF i = N THEN Null ELSE s[i + 1]
  <2>1. list.cur = s[N] /\ N \in 1..N /\ list.next[s[i]] = IF i = N THEN Null ELSE s[i + 1]
    BY <1>1, <1>2 DEF Holds
  <2> QED
    BY <1>2, <1>8, <2>1
<1>11. ASSUME NEW m \in DOMAIN to.next, m \notin to.alive
       PROVE  to.next[m] = Null
  BY <1>1, <1>6, <1>7, <1>8, <1>9, <1>11 DEF Holds
<1>12. n \in 1..n
  OBVIOUS
<1>13. /\ to.root = IF s = << >> THEN Null ELSE s[1]
       /\ to.cur = IF s = << >> THEN Null ELSE s[N]
  BY <1>1, <1>2, <1>4 DEF Holds
<1> HIDE DEF n, x
<1>14. to.alive \subseteq DOMAIN to.next /\ DOMAIN to.next \subseteq 1..n
  BY <1>5, <1>6, <1>7, <1>12
<1>15. Holds(to, s, n)
  BY <1>1, <1>6, <1>10, <1>11, <1>13, <1>14 DEF Holds
<1> QED
  BY <1>15 DEF to, by, n

\* From place j on, and from the next place on.
LEMMA Peel ==
  ASSUME NEW S, NEW s \in Seq(S), NEW j \in 1..Len(s)
  PROVE  SubSeq(s, j, Len(s)) = <<s[j]>> \o (IF j = Len(s) THEN << >> ELSE SubSeq(s, j + 1, Len(s)))
<1> DEFINE N == Len(s)
           a == <<s[j]>>
           b == SubSeq(s, j + 1, N)
           c == SubSeq(s, j, N)
<1>1. N \in Nat /\ s[j] \in S
  BY ElementOfSeq, LenProperties
<1>2. a \in Seq(S) /\ Len(a) = 1 /\ a[1] = s[j]
  BY <1>1
<1>3. c \in Seq(S) /\ Len(c) = N - j + 1 /\ \A i \in 1..N - j + 1 : c[i] = s[j + i - 1]
  BY <1>1, ElementOfSeq, SubSeqProperties
<1>4. CASE j = N
  <2>1. c = a
    <3> HIDE DEF a, c
    <3> QED
      BY <1>1, <1>2, <1>3, <1>4, SeqEqual
  <2>2. a \o << >> = a
    BY <1>2, ConcatEmptySeq
  <2> QED
    BY <1>4, <2>1, <2>2, Zenon
<1>5. CASE j # N
  <2>1. b \in Seq(S) /\ Len(b) = N - j /\ \A i \in 1..N - j : b[i] = s[j + i]
    BY <1>1, <1>5, ElementOfSeq, SubSeqProperties
  <2> DEFINE d == a \o b
  <2> HIDE DEF a, b
  <2>2. d \in Seq(S) /\ Len(d) = N - j + 1
        /\ \A i \in 1..N - j + 1 : d[i] = IF i = 1 THEN a[1] ELSE b[i - 1]
    <3> HIDE DEF N
    <3>1. d \in Seq(S) /\ Len(d) = Len(a) + Len(b)
          /\ \A i \in 1..Len(a) + Len(b) : d[i] = IF i <= Len(a) THEN a[i] ELSE b[i - Len(a)]
      BY <1>2, <2>1, ConcatProperties DEF d
    <3>2. Len(a) + Len(b) = N - j + 1 /\ N - j \in Nat /\ j \in Nat
      BY <1>1, <1>2, <2>1 DEF N
    <3>3. \A i \in 1..N - j + 1 : i <= 1 <=> i = 1
      BY <3>2
    <3> QED
      BY <1>2, <3>1, <3>2, <3>3
  <2> HIDE DEF c, d
  <2>3. ASSUME NEW i \in 1..N - j + 1
        PROVE  c[i] = d[i]
    <3>1. CASE i = 1
      BY <1>1, <1>2, <1>3, <2>2, <3>1
    <3>2. CASE i # 1
      <4>1. i - 1 \in 1..N - j /\ j + (i - 1) = j + i - 1
        BY <1>1, <3>2
      <4>2. d[i] = b[i - 1] /\ b[i - 1] = s[j + (i - 1)]
        <5> HIDE DEF N
        <5> QED
          BY <2>1, <2>2, <3>2, <4>1
      <4> QED
        BY <1>3, <4>1, <4>2
    <3> QED
      BY <3>1, <3>2
  <2>4. c = d
    BY <1>3, <2>2, <2>3, SeqEqual
  <2> QED
    BY <1>5, <2>4, Zenon DEF a, b, c, d
<1> QED
  BY <1>4, <1>5

\* What one gets at from the first record is what is held.
LEMMA ChainIs ==
  ASSUME NEW list, NEW s, NEW k \in Nat, Holds(list, s, k)
  PROVE  Chain(list) = s
<1> DEFINE N == Len(s)
           next == list.next
           D == DOMAIN next \cup {Null}
           R(g, i) == IF i = Null THEN << >> ELSE <<i>> \o g[next[i]]
           IsFrom(g) == g = [i \in D |-> R(g, i)]
           from == CHOOSE g : IsFrom(g)
           Suffix(j) == SubSeq(s, j, N)
<1>1. /\ N \in Nat /\ s \in Seq(1..k) /\ (s = << >> <=> N = 0)
      /\ \A i \in 1..N : s[i] \in 1..k /\ s[i] \in DOMAIN next
      /\ \A i, j \in 1..N : s[i] = s[j] => i = j
      /\ \A m \in DOMAIN next : m # Null
  <2>1. s \in Seq(1..k)
    BY DEF Holds
  <2> QED
    BY <2>1, HeldFacts
<1>2. /\ list.alive = {s[i] : i \in 1..N}
      /\ \A i \in 1..N : next[s[i]] = IF i = N THEN Null ELSE s[i + 1]
      /\ \A m \in DOMAIN next : m \notin list.alive => next[m] = Null
      /\ list.root = IF s = << >> THEN Null ELSE s[1]
  BY DEF Holds
<1>3. \A j \in 1..N : Suffix(j) = <<s[j]>> \o (IF j = N THEN << >> ELSE Suffix(j + 1))
  BY <1>1, Peel
<1> HIDE DEF N, next, Suffix
<1>4. \E g : IsFrom(g)
  <2> DEFINE place(i) == CHOOSE j \in 1..N : s[j] = i
             G(i) == IF i = Null THEN << >>
                     ELSE IF i \in list.alive THEN Suffix(place(i)) ELSE <<i>> \o << >>
             g == [i \in D |-> G(i)]
  <2>1. \A j \in 1..N : place(s[j]) = j
    BY <1>1
  <2>2. \A j \in 1..N : s[j] \in list.alive /\ s[j] # Null /\ s[j] \in D
    BY <1>1, <1>2
  <2> HIDE DEF place
  <2>3. \A j \in 1..N : G(s[j]) = Suffix(j)
    BY <2>1, <2>2, Zenon
  <2>4. g[Null] = << >>
    BY Zenon
  <2>5. \A j \in 1..N : g[s[j]] = Suffix(j)
    BY <2>2, <2>3, Zenon
  <2>6. ASSUME NEW i \in D
        PROVE  G(i) = R(g, i)
    <3>1. CASE i = Null
      BY <3>1, Zenon
    <3>2. CASE i # Null /\ i \notin list.alive
      <4>1. next[i] = Null
        BY <1>2, <3>2
      <4> QED
        BY <2>4, <3>2, <4>1, Zenon
    <3>3. CASE i # Null /\ i \in list.alive
      <4>1. PICK j \in 1..N : i = s[j]
        BY <1>2, <3>3
      <4>2. g[next[i]] = IF j = N THEN << >> ELSE Suffix(j + 1)
        <5>1. CASE j = N
          <6>1. next[i] = Null
            BY <1>2, <4>1, <5>1
          <6> QED
            BY <2>4, <5>1, <6>1, Zenon
        <5>2. CASE j # N
          <6>1. next[i] = s[j + 1] /\ j + 1 \in 1..N
            BY <1>1, <1>2, <4>1, <5>2
          <6> QED
            BY <2>5, <5>2, <6>1, Zenon
        <5> QED
          BY <5>1, <5>2, Zenon
      <4>3. G(i) = Suffix(j)
        BY <2>3, <4>1, Zenon
      <4>4. Suffix(j) = <<i>> \o g[next[i]]
        BY <1>3, <4>1, <4>2, Zenon
      <4> QED
        BY <3>3, <4>3, <4>4, Zenon
    <3> QED
      BY <3>1, <3>2, <3>3, Zenon
  <2>7. IsFrom(g)
    BY <2>6, Zenon
  <2> QED
    BY <2>7, Zenon
<1>5. IsFrom(from)
  BY <1>4, Zenon
<1>6. Chain(list) = from[list.root]
  BY Zenon DEF Chain, next
<1> HIDE DEF from
<1>7. from[Null] = << >>
  BY <1>5, Zenon
<1>8. ASSUME NEW j \in 1..N
      PROVE  from[s[j]] = <<s[j]>> \o from[next[s[j]]]
  <2>1. s[j] \in D /\ s[j] # Null
    BY <1>1
  <2> QED
    BY <1>5, <2>1, Zenon
<1> DEFINE Right(j) == from[s[j]] = Suffix(j)
           T == {d \in Nat : d < N => Right(N - d)}
<1>9. ASSUME NEW j \in 1..N, j # N => Right(j + 1)
      PROVE  Right(j)
  <2>1. CASE j = N
    <3>1. next[s[j]] = Null
      BY <1>2, <2>1
    <3> QED
      BY <1>3, <1>7, <1>8, <2>1, <3>1, Zenon
  <2>2. CASE j # N
    <3>1. next[s[j]] = s[j + 1]
      BY <1>2, <2>2
    <3> QED
      BY <1>3, <1>8, <1>9, <2>2, <3>1, Zenon
  <2> QED
    BY <2>1, <2>2
<1> HIDE DEF Right
<1>10. 0 \in T
  <2>1. 0 < N => N \in 1..N /\ N - 0 = N
    BY <1>1
  <2> QED
    BY <1>9, <2>1
<1>11. ASSUME NEW d \in Nat, d \in T
       PROVE  d + 1 \in T
  <2>1. CASE d + 1 < N
    <3>1. N - (d + 1) \in 1..N /\ (N - (d + 1)) + 1 = N - d /\ d < N
      BY <1>1, <2>1
    <3>2. Right((N - (d + 1)) + 1)
      BY <1>11, <3>1
    <3>3. Right(N - (d + 1))
      BY <1>9, <3>1, <3>2
    <3> QED
      BY <3>3
  <2> QED
    BY <2>1
<1> HIDE DEF T
<1>12. Nat \subseteq T
  BY <1>10, <1>11, SetInduction
<1>13. CASE N = 0
  BY <1>1, <1>2, <1>6, <1>7, <1>13
<1>14. CASE N # 0
  <2>1. N - 1 \in Nat /\ N - 1 < N /\ N - (N - 1) = 1
    BY <1>1, <1>14
  <2>2. Right(N - (N - 1))
    BY <1>12, <2>1 DEF T
  <2>3. from[s[1]] = Suffix(1)
    BY <2>1, <2>2 DEF Right
  <2>4. Suffix(1) = s
    BY <1>1 DEF Suffix, N
  <2> QED
    BY <1>1, <1>2, <1>6, <1>14, <2>3, <2>4
<1> QED
  BY <1>13, <1>14

\* The devices that are listed: on Windows the class is that of any of them.
Listed(n) ==
    IF platform = "windows"
    THEN /\ bus[n].detail /\ ClassSeen(bus) /\ bus[n].opens
         /\ Matches(query.vid, query.pid, bus[n])
    ELSE Wanted(n)

\* Where drivers are all bound or none is, any class is as good as the device's own.
LEMMA ListedAreWanted ==
  ASSUME AllOrNoneBound, NEW k \in Nat, DOMAIN bus = 1..k, NEW n \in 1..k
  PROVE  Listed(n) <=> Wanted(n)
<1>1. CASE platform # "windows"
  BY <1>1 DEF Listed
<1>2. CASE platform = "windows"
  <2>1. ClassSeen(bus) => bus[n].class = "bound"
    BY <1>2 DEF ClassSeen, AllOrNoneBound
  <2>2. ASSUME bus[n].class = "bound" PROVE ClassSeen(bus)
    <3>1. 1 \in DOMAIN bus /\ bus[1].class = "bound" /\ \A j \in 1..1 : j = 1
      BY <1>2, <2>2 DEF AllOrNoneBound
    <3>2. QED
      BY <3>1 DEF ClassSeen
  <2>3. QED
    BY <1>2, <2>1, <2>2 DEF Listed, Wanted, Tellable
<1>3. QED
  BY <1>1, <1>2

\* A visit links the device if it is listed, and otherwise leaves the list as it
\* was or takes back what it linked.
LEMMA VisitIs ==
  ASSUME NEW list, NEW n, bus[n].bus \in {"usb", "bluetooth", "other"}
  PROVE  LET to == Visit(platform, bus, query.vid, query.pid, list, n)
         IN IF Listed(n) THEN to = Link(list, n) ELSE to \in {list, Unlink(Link(list, n))}
<1>1. CASE platform = "windows"
  BY <1>1 DEF Visit, VisitWindows, Listed
<1>2. CASE platform = "osx"
  BY <1>2 DEF Visit, VisitOsx, Listed, Wanted, Tellable
<1>3. CASE platform \notin {"windows", "osx"}
  BY <1>3 DEF Visit, VisitLinux, Listed, Wanted, Tellable, parse_uevent_info
<1> QED
  BY <1>1, <1>2, <1>3

\* The listing is that of the bus, until it is freed.
ListingOK == handle = "listed" =>
    bus \in Buses /\ records = hid_enumerate(platform, bus, query.vid, query.pid)

LEMMA ListedExactly == ListingOK => ListIsExact
<1> SUFFICES ASSUME ListingOK, handle = "listed" PROVE ListIsExact
  BY DEF ListIsExact
<1> DEFINE n == Len(bus)
           ListedTo(m) == {j \in 1..m : Listed(j)}
<1>1. n \in Nat /\ DOMAIN bus = 1..n /\ \A m \in 1..n : bus[m].bus \in {"usb", "bluetooth", "other"}
  <2>1. bus \in Seq(ToSet(bus)) /\ \A d \in ToSet(bus) : d.bus \in {"usb", "bluetooth", "other"}
    BY BusesAssumption DEF ListingOK
  <2>2. n \in Nat /\ DOMAIN bus = 1..n
    BY <2>1, LenProperties
  <2>3. \A m \in 1..n : bus[m] \in ToSet(bus)
    BY <2>2 DEF ToSet
  <2> QED
    BY <2>1, <2>2, <2>3
<1> HIDE DEF n
<1>2. PICK F : IsLoop(F, n, platform, bus, query.vid, query.pid) /\ records = F[n]
  BY <1>1, EnumerateIsLoop DEF ListingOK
<1> DEFINE Exact(list, m) == \E s : Holds(list, s, m) /\ list.alive = ListedTo(m)
           T == {m \in Nat : m <= n => Exact(F[m], m)}
<1>3. 0 \in T
  <2>1. Holds(F[0], << >>, 0) /\ F[0].alive = {}
    BY <1>2, NothingHeld DEF IsLoop, NoRecords
  <2>2. ListedTo(0) = {}
    OBVIOUS
  <2> QED
    BY <2>1, <2>2
<1>4. ASSUME NEW m \in Nat, m \in T
      PROVE  m + 1 \in T
  <2> SUFFICES ASSUME m + 1 <= n PROVE Exact(F[m + 1], m + 1)
    OBVIOUS
  <2>1. m <= n /\ m + 1 \in 1..n /\ (m + 1) - 1 = m
    BY <1>1
  <2>2. PICK s : Holds(F[m], s, m) /\ F[m].alive = ListedTo(m)
    BY <1>4, <2>1
  <2> DEFINE list == F[m]
             to == F[m + 1]
  <2>3. to = Visit(platform, bus, query.vid, query.pid, list, m + 1)
    BY <1>2, <2>1 DEF IsLoop
  <2>4. IF Listed(m + 1) THEN to = Link(list, m + 1) ELSE to \in {list, Unlink(Link(list, m + 1))}
    <3> DEFINE k == m + 1
    <3>1. bus[k].bus \in {"usb", "bluetooth", "other"}
      BY <1>1, <2>1
    <3> HIDE DEF k, list
    <3>2. LET v == Visit(platform, bus, query.vid, query.pid, list, k)
          IN IF Listed(k) THEN v = Link(list, k) ELSE v \in {list, Unlink(Link(list, k))}
      BY <3>1, VisitIs
    <3> QED
      BY <2>3, <3>2 DEF k
  <2> HIDE DEF list, to, ListedTo
  <2>5. Holds(list, s, m) /\ list.alive = ListedTo(m)
    BY <2>2 DEF list
  <2>6. ListedTo(m + 1) = IF Listed(m + 1) THEN ListedTo(m) \cup {m + 1} ELSE ListedTo(m)
    <3>1. 1..m + 1 = (1..m) \cup {m + 1}
      OBVIOUS
    <3> QED
      BY <3>1 DEF ListedTo
  <2>7. CASE Listed(m + 1)
    <3>1. to = Link(list, m + 1)
      BY <2>4, <2>7
    <3>2. Holds(to, Append(s, m + 1), m + 1)
      BY <2>5, <3>1, HeldLink
    <3>3. to.alive = list.alive \cup {m + 1}
      BY <3>1 DEF Link
    <3> QED
      BY <2>5, <2>6, <2>7, <3>2, <3>3 DEF to
  <2>8. CASE ~Listed(m + 1)
    <3>1. to = list \/ to = Unlink(Link(list, m + 1))
      BY <2>4, <2>8
    <3>2. Holds(to, s, m + 1)
      BY <2>5, <3>1, HeldLonger, HeldUnlink
    <3>3. to.alive = {s[i] : i \in 1..Len(s)} /\ list.alive = {s[i] : i \in 1..Len(s)}
      BY <2>5, <3>2 DEF Holds
    <3> QED
      BY <2>5, <2>6, <2>8, <3>2, <3>3 DEF to
  <2> QED
    BY <2>7, <2>8
<1> HIDE DEF T
<1>5. Nat \subseteq T
  BY <1>3, <1>4, SetInduction
<1>6. Exact(records, n)
  <2>1. n <= n
    BY <1>1
  <2> QED
    BY <1>1, <1>2, <1>5, <2>1 DEF T
<1>7. PICK s : Holds(records, s, n) /\ records.alive = ListedTo(n)
  BY <1>6
<1>8. Chain(records) = s
  BY <1>1, <1>7, ChainIs
<1>9. /\ DOMAIN s = 1..Len(s) /\ records.alive = {s[i] : i \in 1..Len(s)}
      /\ \A i, j \in 1..Len(s) : i < j => s[i] < s[j]
  BY <1>7, LenProperties DEF Holds
<1>10. ToSet(s) = records.alive
  BY <1>9 DEF ToSet
<1>11. ASSUME AllOrNoneBound PROVE ListedTo(n) = {m \in DOMAIN bus : Wanted(m)}
  BY <1>1, <1>11, ListedAreWanted
<1> QED
  BY <1>1, <1>7, <1>8, <1>9, <1>10, <1>11 DEF ListIsExact

\* hid_enumerate() lists what the caller asked for and nothing else, in order and
\* without losing a record, for any number of devices of any kind; on Windows that
\* nothing else is listed takes drivers that are all bound or all missing
\* (hid_linux.c:407-556, hid_windows.c:298-447, hid_osx.c:417-484).
THEOREM ListsAreExact == Spec => []ListIsExact
<1>1. Init => ListingOK
  BY DEF Init, ListingOK
<1>2. ListingOK /\ [Next]_vars => ListingOK'
  <2> SUFFICES ASSUME ListingOK, [Next]_vars PROVE ListingOK'
    OBVIOUS
  <2>1. CASE Enumerate
    BY <2>1 DEF Enumerate, ListingOK
  <2>2. CASE OpenFails \/ OpenPath \/ Close
    BY <2>2 DEF OpenFails, OpenPath, Close, ListingOK
  <2>3. CASE UNCHANGED <<platform, listing, handle>>
    <3>1. platform' = platform /\ bus' = bus /\ query' = query /\ records' = records /\ handle' = handle
      BY <2>3 DEF listing
    <3> QED
      BY <3>1, Zenon DEF ListingOK
  <2>4. CASE ~(Enumerate \/ OpenFails \/ OpenPath \/ Close)
    <3>1. UNCHANGED <<platform, listing, handle>>
      BY <2>4 DEF Next, vars, Arrive, Unplug, Call, PollReadable, PollError, PollTimeout, Read,
        GoOn, Start, StartFails, EventSet, Timeout, Result, Return, Answer
    <3> QED
      BY <2>3, <3>1
  <2> QED
    BY <2>1, <2>2, <2>4
<1>3. ListingOK => ListIsExact
  BY ListedExactly
<1> QED
  BY <1>1, <1>2, <1>3, PTL DEF Spec

-------------------------------------------------------------------------------
(***************************************************************************)
(* The device implements HidStream.                                        *)
(***************************************************************************)
USE DEF Stream!Nothing, Stream!Error, Stream!NoAnswer, Nothing, Error, NoAnswer, Stream!Asks, Asks

\* The report in the buffer comes first.
BufferFirst ==
    /\ request # "done" => Pending = ring
    /\ request = "done" => read_buf \in Nat /\ Pending = <<read_buf>> \o ring
    /\ ring \in Seq(Nat)

LEMMA PendingIs == IInv => BufferFirst
<1> SUFFICES ASSUME IInv PROVE BufferFirst
  OBVIOUS
<1>1. ring \in Seq(Nat)
  <2>1. ring \in Seq(Report) /\ \A k \in Report : k \in Nat
    BY HidFilesAssumption DEF IInv, TypeOK, DeviceTypes, Report
  <2> QED
    BY <2>1, SeqDef, ElementOfSeq, LenProperties
<1>2. << >> \o ring = ring
  BY <1>1, ConcatEmptySeq
<1>3. request = "done" => read_buf \in Nat
  BY HidFilesAssumption DEF IInv, TypeOK, ReadTypes, RequestOK, Report
<1>4. request # "done" => Pending = ring
  BY <1>2, Zenon DEF Pending
<1>5. request = "done" => Pending = <<read_buf>> \o ring
  BY Zenon DEF Pending
<1> QED
  BY <1>1, <1>3, <1>4, <1>5, Zenon DEF BufferFirst

LEMMA PendingIsPrimed == IInv' => BufferFirst'
  BY PendingIs, PTL

\* What the reader gets first, and what it gets after it.
LEMMA FirstPending ==
  ASSUME IInv
  PROVE  /\ request = "done" => Pending # << >> /\ Head(Pending) = read_buf /\ Tail(Pending) = ring
         /\ Pending \in Seq(Nat)
         /\ Len(Pending) = Len(ring) + (IF request = "done" THEN 1 ELSE 0)
<1>1. BufferFirst
  BY PendingIs
<1>2. CASE request = "done"
  <2> DEFINE one == <<read_buf>>
  <2>1. one \in Seq(Nat) /\ one # << >> /\ Len(one) = 1
    BY <1>1, <1>2 DEF BufferFirst
  <2>2. Pending = one \o ring /\ read_buf \in Nat /\ ring \in Seq(Nat)
    BY <1>1, <1>2, Zenon DEF BufferFirst
  <2>3. Head(one \o ring) = read_buf /\ Tail(one \o ring) = ring
    BY <2>2, OneMore
  <2> HIDE DEF one
  <2>4. one \o ring # << >>
    BY <2>1, <2>2, ConcatEqualIffEmpty
  <2>5. one \o ring \in Seq(Nat) /\ Len(one \o ring) = Len(one) + Len(ring)
    BY <2>1, <2>2, ConcatProperties
  <2>6. Len(ring) \in Nat
    BY <2>2, LenProperties
  <2> HIDE DEF Pending
  <2> QED
    BY <1>2, <2>1, <2>2, <2>3, <2>4, <2>5, <2>6
<1>3. CASE request # "done"
  BY <1>1, <1>3, LenProperties DEF BufferFirst
<1> QED
  BY <1>2, <1>3

\* A full kernel drops a report: the one that arrives, the oldest of its own, and
\* the oldest of its own after the one in the buffer of the reader.
LEMMA DropLast ==
  ASSUME NEW s \in Seq(Nat), NEW a \in Nat
  PROVE  Stream!RemoveAt(Append(s, a), Len(s) + 1) = s
<1> DEFINE t == Append(s, a)
           n == Len(s)
<1>1. t \in Seq(Nat) /\ Len(t) = n + 1 /\ n \in Nat /\ \A j \in 1..n : t[j] = s[j]
  BY AppendProperties, LenProperties
<1> HIDE DEF t
<1>2. SubSeq(t, n + 2, n + 1) = << >> /\ SubSeq(t, 1, n) = s
  BY <1>1
<1>3. s \o << >> = s
  BY ConcatEmptySeq
<1>4. Stream!RemoveAt(t, n + 1) = SubSeq(t, 1, n) \o SubSeq(t, n + 2, Len(t))
  BY <1>1 DEF Stream!RemoveAt
<1> QED
  BY <1>1, <1>2, <1>3, <1>4 DEF t

LEMMA DropFirst ==
  ASSUME NEW s \in Seq(Nat), NEW a \in Nat, s # << >>
  PROVE  Stream!RemoveAt(Append(s, a), 1) = Append(Tail(s), a)
  BY LenProperties, AppendProperties DEF Stream!RemoveAt

LEMMA DropSecond ==
  ASSUME NEW x \in Nat, NEW s \in Seq(Nat), NEW a \in Nat, s # << >>
  PROVE  Stream!RemoveAt(Append(<<x>> \o s, a), 2) = <<x>> \o Append(Tail(s), a)
  BY LenProperties, AppendProperties, ConcatProperties DEF Stream!RemoveAt
LEMMA AppendAfter ==
  ASSUME NEW x \in Nat, NEW s \in Seq(Nat), NEW a \in Nat
  PROVE  Append(<<x>> \o s, a) = <<x>> \o Append(s, a)
  BY LenProperties, AppendProperties, ConcatProperties

\* A step that ends a call ends it in the stream, with the same answer.
LEMMA Answered ==
  ASSUME TypeOK, NEW a, pc \notin {"idle", "done"}, Answer(a)
  PROVE  Stream!Finish(Reader, a)
  BY DEF Answer, Stream!Finish, OfReader, Phase, Live

\* Steps of which the stream sees nothing.
Unseen == UNCHANGED <<arrived, Pending, Live, Phase, ask, answer>>
LEMMA UnseenIsStutter == Unseen => UNCHANGED Stream!vars
  BY DEF Unseen, Stream!vars, OfReader

\* The reader is one of the readers of the stream.
LEMMA ReaderSteps ==
  /\ (Stream!Call(Reader) \/ Stream!Get(Reader) \/ Stream!GetNothing(Reader)
      \/ Stream!Fail(Reader) \/ Stream!Return(Reader)) => Stream!Next
  /\ Stream!OthersCalling(Reader) = {}
  BY DEF Stream!Next, Stream!OthersCalling

LEMMA InitRefines == Init => Stream!Init
<1> SUFFICES ASSUME Init PROVE Stream!Init
  OBVIOUS
<1>1. Pending = << >>
  BY InitIInv, PendingIs DEF Init, BufferFirst
<1> QED
  BY <1>1 DEF Init, Stream!Init, OfReader, Phase, Live

\* A report arrives, whatever the kernel drops for it.
LEMMA ArriveRefines ==
  ASSUME IInv, IInv', Arrive
  PROVE  Stream!Next
<1> HIDE DEF Pending
<1>1. /\ arrived < MaxReports /\ arrived' = arrived + 1 /\ arrived' \in Nat
      /\ UNCHANGED <<Live, Phase, ask, answer>>
  BY HidFilesAssumption DEF Arrive, Live, Phase, IInv, TypeOK, DeviceTypes
<1>2. BufferFirst /\ BufferFirst' /\ Len(ring) \in Nat
  BY PendingIs, PendingIsPrimed, LenProperties DEF BufferFirst
<1>3. Pending \in Seq(Nat) /\ Len(Pending) = Len(ring) + (IF request = "done" THEN 1 ELSE 0)
  BY FirstPending
<1>4. Len(ring) <= Buffers /\ Buffers \in Nat \ {0}
  BY HidFilesAssumption DEF IInv, RequestOK
<1>5. ASSUME Len(Pending) < Buffers + 1, Pending' = Append(Pending, arrived')
      PROVE  Stream!Next
  BY <1>1, <1>5 DEF Stream!Next, Stream!Arrive, OfReader
<1>6. ASSUME Len(Pending) >= Buffers, NEW i \in 1..Len(Pending) + 1,
             Pending' = Stream!RemoveAt(Append(Pending, arrived'), i)
      PROVE  Stream!Next
  BY <1>1, <1>6 DEF Stream!Next, Stream!Arrive, OfReader
<1>7. CASE request = "pending"
  <2>1. ring = << >> /\ ring' = << >> /\ request' = "done" /\ read_buf' = arrived'
    BY <1>7 DEF Arrive, IInv, RequestOK
  <2>2. Pending = << >>
    BY <1>2, <1>7, <2>1, Zenon DEF BufferFirst
  <2>3. Pending' = <<arrived'>> \o << >>
    BY <1>2, <2>1, Zenon DEF BufferFirst
  <2>4. <<arrived'>> \o << >> = Append(<< >>, arrived')
    BY <1>1
  <2>5. Pending' = Append(Pending, arrived')
    BY <2>2, <2>3, <2>4, Zenon
  <2> QED
    BY <1>3, <1>4, <1>5, <1>7, <2>1, <2>5, EmptySeq
<1>8. CASE request # "pending" /\ Len(ring) < Buffers
  <2>1. ring' = Append(ring, arrived') /\ UNCHANGED <<request, read_buf>>
    BY <1>8 DEF Arrive
  <2>2. Pending' = Append(Pending, arrived')
    <3>1. CASE request = "done"
      <4>1. Pending' = <<read_buf>> \o Append(ring, arrived') /\ read_buf \in Nat /\ ring \in Seq(Nat)
        BY <1>2, <2>1, <3>1, Zenon DEF BufferFirst
      <4>2. Append(<<read_buf>> \o ring, arrived') = <<read_buf>> \o Append(ring, arrived')
        BY <1>1, <4>1, AppendAfter
      <4> QED
        BY <1>2, <3>1, <4>1, <4>2, Zenon DEF BufferFirst
    <3>2. CASE request # "done"
      BY <1>2, <2>1, <3>2, Zenon DEF BufferFirst
    <3> QED
      BY <3>1, <3>2
  <2> QED
    BY <1>2, <1>3, <1>4, <1>5, <1>8, <2>2
<1>9. CASE request # "pending" /\ ~(Len(ring) < Buffers)
  <2>1. ring # << >> /\ Len(Pending) >= Buffers
    BY <1>2, <1>3, <1>4, <1>9, EmptySeq
  <2>2. UNCHANGED <<request, read_buf>>
        /\ ring' = IF Linux THEN ring ELSE Append(Tail(ring), arrived')
    BY <1>9 DEF Arrive
  <2>3. CASE Linux
    <3>1. request # "done"
      BY <2>3 DEF IInv, RequestOK, Linux
    <3>2. Pending' = Pending
      BY <1>2, <2>2, <2>3, <3>1, Zenon DEF BufferFirst
    <3>3. Pending' = Stream!RemoveAt(Append(Pending, arrived'), Len(Pending) + 1)
      BY <1>1, <1>3, <3>2, DropLast
    <3> QED
      BY <1>3, <1>6, <2>1, <3>3, LenProperties
  <2>4. CASE ~Linux /\ request # "done"
    <3>1. Pending = ring /\ Pending' = Append(Tail(ring), arrived') /\ ring \in Seq(Nat)
      BY <1>2, <2>2, <2>4, Zenon DEF BufferFirst
    <3>2. Pending' = Stream!RemoveAt(Append(Pending, arrived'), 1)
      BY <1>1, <2>1, <3>1, DropFirst
    <3> QED
      BY <1>3, <1>6, <2>1, <3>2, LenProperties
  <2>5. CASE ~Linux /\ request = "done"
    <3>1. /\ Pending = <<read_buf>> \o ring /\ Pending' = <<read_buf>> \o Append(Tail(ring), arrived')
          /\ read_buf \in Nat /\ ring \in Seq(Nat)
      BY <1>2, <2>2, <2>5, Zenon DEF BufferFirst
    <3>2. Stream!RemoveAt(Append(<<read_buf>> \o ring, arrived'), 2)
            = <<read_buf>> \o Append(Tail(ring), arrived')
      BY <1>1, <2>1, <3>1, DropSecond
    <3>3. Pending' = Stream!RemoveAt(Append(Pending, arrived'), 2)
      BY <3>1, <3>2, Zenon
    <3>4. 2 \in 1..Len(Pending) + 1
      BY <1>2, <1>3, <1>4, <1>9, <2>5
    <3> QED
      BY <1>6, <2>1, <3>3, <3>4
  <2> QED
    BY <2>3, <2>4, <2>5
<1> QED
  BY <1>7, <1>8, <1>9

\* HidStream has an instance of FiniteSets of its own.
LEMMA NobodyElse == Stream!Cardinality({}) = 0
<1>1. Stream!Cardinality({}) = Cardinality({})
  BY Zenon DEF Stream!Cardinality, Cardinality
<1> QED
  BY <1>1, FS_EmptySet

\* Every step is a step of the stream, or one of which it sees nothing.
LEMMA StepRefines == IInv /\ IInv' /\ [Next]_vars => [Stream!Next]_(Stream!vars)
<1> SUFFICES ASSUME IInv, IInv', [Next]_vars
             PROVE  [Stream!Next]_(Stream!vars)
  OBVIOUS
<1> HIDE DEF Pending
<1>1. BufferFirst /\ BufferFirst'
  BY PendingIs, PendingIsPrimed
<1>2. ASSUME UNCHANGED <<request, read_buf, ring>> PROVE UNCHANGED Pending
  BY <1>2, Zenon DEF Pending
<1>3. ASSUME UNCHANGED ring, request # "done", request' # "done" PROVE UNCHANGED Pending
  BY <1>1, <1>3, Zenon DEF BufferFirst
<1>4. CASE UNCHANGED vars
  <2>1. UNCHANGED <<arrived, Live, Phase, ask, answer>>
    BY <1>4 DEF vars, Live, Phase
  <2>2. UNCHANGED <<request, read_buf, ring>>
    BY <1>4 DEF vars
  <2> QED
    BY <1>2, <2>1, <2>2, UnseenIsStutter DEF Unseen
<1>5. CASE Enumerate \/ OpenFails \/ PollReadable \/ GoOn \/ EventSet
  <2>1. UNCHANGED <<request, read_buf, ring, arrived, ask, answer>>
    BY <1>5 DEF Enumerate, OpenFails, PollReadable, GoOn, EventSet
  <2>2. UNCHANGED <<Live, Phase>>
    BY <1>5 DEF Enumerate, OpenFails, PollReadable, GoOn, EventSet, Live, Phase, Next_step
  <2> QED
    BY <1>2, <2>1, <2>2, UnseenIsStutter DEF Unseen
<1>6. CASE OpenPath
  <2>1. ~Live /\ Live' /\ UNCHANGED <<arrived, Phase, ask, answer, request, read_buf, ring>>
    BY <1>6 DEF OpenPath, Live, Phase, IInv, HandleOK
  <2>2. Pending = << >>
    BY <1>1, <1>6 DEF OpenPath, BufferFirst, IInv, HandleOK
  <2> QED
    BY <1>2, <2>1, <2>2 DEF Stream!Next, Stream!Open, OfReader
<1>7. CASE Arrive
  BY <1>7, ArriveRefines
<1>8. CASE Unplug
  <2>1. Live /\ ~Live' /\ UNCHANGED <<arrived, Phase, ask, answer>>
    BY <1>8 DEF Unplug, Live, Phase
  <2>2. UNCHANGED Pending
    BY <1>2, <1>3, <1>8 DEF Unplug
  <2> QED
    BY <2>1, <2>2 DEF Stream!Next, Stream!Lose, OfReader
<1>9. CASE Close
  <2>1. ~Live' /\ UNCHANGED <<arrived, Phase, ask, answer>>
    BY <1>9 DEF Close, Live, Phase
  <2>2. Pending' = << >>
    BY <1>1, <1>9 DEF Close, BufferFirst
  <2>3. CASE Live
    BY <2>1, <2>2, <2>3 DEF Stream!Next, Stream!Lose, OfReader
  <2>4. CASE ~Live
    <3>1. Live' = Live
      BY <2>1, <2>4 DEF Live
    <3> QED
      BY <2>1, <2>2, <2>4, <3>1 DEF Stream!Next, Stream!Discard, OfReader
  <2> QED
    BY <2>3, <2>4
<1>10. CASE Call
  <2>1. UNCHANGED <<arrived, Live, answer, Pending>> /\ ask' \in Asks
    BY <1>2, <1>10 DEF Call, Live
  <2>2. Phase = "idle" /\ Phase' = "called"
    BY <1>10 DEF Call, Phase
  <2>3. Stream!Call(Reader)
    BY <2>1, <2>2 DEF Stream!Call, OfReader
  <2> QED
    BY <2>3, ReaderSteps
<1>11. CASE Read
  <2>0. request # "done" /\ request' # "done" /\ pc \notin {"idle", "done"}
    BY <1>11 DEF Read, IInv, HandleOK, RequestOK, Linux
  <2>1. CASE ring # << >> /\ Answer(Head(ring)) /\ ring' = Tail(ring)
    <3>1. Pending # << >> /\ Answer(Head(Pending)) /\ Pending' = Tail(Pending)
      BY <1>1, <2>0, <2>1 DEF BufferFirst
    <3>2. Stream!Get(Reader)
      BY <2>0, <3>1, Answered DEF Stream!Get, IInv
    <3> QED
      BY <3>2, ReaderSteps
  <2>2. CASE ~plugged /\ Answer(Error) /\ UNCHANGED ring
    <3>1. Stream!Fail(Reader)
      BY <1>3, <2>0, <2>2, Answered DEF Stream!Fail, IInv, Live
    <3> QED
      BY <3>1, ReaderSteps
  <2> QED
    BY <1>11, <2>1, <2>2 DEF Read
<1>12. CASE PollError \/ StartFails
  <2>1. ~plugged /\ Answer(Error) /\ pc \notin {"idle", "done"} /\ UNCHANGED <<ring, request, read_buf>>
    BY <1>12 DEF PollError, StartFails
  <2>2. Stream!Fail(Reader)
    BY <1>2, <2>1, Answered DEF Stream!Fail, IInv, Live
  <2> QED
    BY <2>2, ReaderSteps
<1>13. CASE PollTimeout \/ Timeout
  <2>1. /\ Answer(Nothing) /\ pc \in {"poll", "wait"} /\ UNCHANGED <<ring, request, read_buf>>
        /\ ring = << >> /\ request # "done"
    BY <1>13 DEF PollTimeout, Timeout, IInv, HandleOK, RequestOK, Linux, TypeOK, ReadTypes
  <2>2. Pending = << >> /\ Len(Pending) = 0
    BY <1>1, <2>1 DEF BufferFirst
  <2>3. ask # "wait"
    BY <2>1 DEF IInv, HandleOK
  <2>4. Stream!GetNothing(Reader)
    BY <1>2, <2>1, <2>2, <2>3, Answered, NobodyElse, ReaderSteps DEF Stream!GetNothing, IInv, OfReader
  <2> QED
    BY <2>4, ReaderSteps
<1>14. CASE Start
  <2>1. UNCHANGED <<arrived, Live, Phase, ask, answer>> /\ request = "none"
    BY <1>14 DEF Start, Live, Phase, Next_step, IInv, RequestOK, TypeOK, ReadTypes
  <2>2. CASE ring = << >>
    BY <1>3, <1>14, <2>1, <2>2, UnseenIsStutter DEF Start, Unseen
  <2>3. CASE ring # << >>
    <3>1. request' = "done" /\ read_buf' = Head(ring) /\ ring' = Tail(ring)
      BY <1>14, <2>3 DEF Start
    <3>2. ring = <<Head(ring)>> \o Tail(ring)
      BY <2>3, RingSteps DEF IInv
    <3>3. UNCHANGED Pending
      BY <1>1, <2>1, <3>1, <3>2, Zenon DEF BufferFirst
    <3> QED
      BY <2>1, <3>3, UnseenIsStutter DEF Unseen
  <2> QED
    BY <2>2, <2>3
<1>15. CASE Result
  <2>0. pc \notin {"idle", "done"} /\ request' = "none" /\ UNCHANGED ring
    BY <1>15 DEF Result
  <2>1. CASE request = "done"
    <3>1. Pending # << >> /\ Answer(Head(Pending)) /\ Pending' = Tail(Pending)
      <4>1. Pending # << >> /\ Head(Pending) = read_buf /\ Tail(Pending) = ring
        BY <2>1, FirstPending
      <4>2. Pending' = ring /\ Answer(read_buf)
        BY <1>1, <1>15, <2>0, <2>1 DEF Result, BufferFirst
      <4> QED
        BY <4>1, <4>2
    <3>2. Stream!Get(Reader)
      BY <2>0, <3>1, Answered DEF Stream!Get, IInv
    <3> QED
      BY <3>2, ReaderSteps
  <2>2. CASE request = "failed"
    <3>1. ~Live /\ Answer(Error) /\ UNCHANGED Pending
      BY <1>3, <1>15, <2>0, <2>2 DEF Result, Live, IInv, RequestOK
    <3>2. Stream!Fail(Reader)
      BY <2>0, <3>1, Answered DEF Stream!Fail, IInv
    <3> QED
      BY <3>2, ReaderSteps
  <2> QED
    BY <1>15, <2>1, <2>2 DEF Result
<1>16. CASE Return
  <2>1. UNCHANGED <<arrived, Live, ask, Pending>> /\ answer' = NoAnswer
    BY <1>2, <1>16 DEF Return, Live
  <2>2. Phase = "done" /\ Phase' = "idle"
    BY <1>16 DEF Return, Phase
  <2>3. Stream!Return(Reader)
    BY <2>1, <2>2 DEF Stream!Return, OfReader
  <2> QED
    BY <2>3, ReaderSteps
<1> QED
  BY <1>4, <1>5, <1>6, <1>7, <1>8, <1>9, <1>10, <1>11, <1>12, <1>13, <1>14, <1>15, <1>16 DEF Next

\* A device is the stream of reports that hidapi promises, on Linux and on
\* Windows: reports are read once and in order, none but the ones that the kernel
\* drops is lost, to a read that gave up neither, and a read returns nothing or an
\* error only when it may (hid_linux.c:687-726, hid_windows.c:627-736).
THEOREM Refinement == Spec => ImplementsStream
<1>1. IInv /\ IInv' /\ [Next]_vars => [Stream!Next]_(Stream!vars)
  BY StepRefines
<1>2. Init => Stream!Init
  BY InitRefines
<1>3. Spec => []IInv
  BY Invariance
<1> QED
  BY <1>1, <1>2, <1>3, PTL DEF Spec, ImplementsStream, Stream!Spec
===============================================================================
