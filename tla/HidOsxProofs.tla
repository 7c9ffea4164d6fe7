------------------------------ MODULE HidOsxProofs ------------------------------
(***************************************************************************)
(* Proofs about HidOsx, for any finite set of reading threads, any number   *)
(* of reports and any limit of the list.                                    *)
(***************************************************************************)
EXTENDS HidOsx, FiniteSetTheorems, SequenceTheorems, TLAPS

USE DEF may_wake, broadcast, signal

\* A reader is past pthread_mutex_lock(), and not in pthread_cond_wait(), only
\* as the owner of the mutex (hid_osx.c: hid_read_timeout).
HolderOwns == \A r \in Readers :
    pc[r] \in {"look", "sleepy", "recheck", "done"} <=> owner = r

\* read_thread() leaves its loop with one of the flags set, and they stay set.
EndsAfterFlags == thread \in {"wake", "last", "ended"} => Gone

\* Where each side of the two barriers is, while the other waits at it.
BarrierOrder ==
    /\ barrier["start"] = Closer => main = "barrier"
    /\ barrier["start"] = ReadThread => thread = "barrier"
    /\ barrier["end"] = Closer => main = "last"
    /\ barrier["end"] = ReadThread => thread = "last"
    /\ main \in {"start", "failed"} <=> thread = "none"
    /\ main = "barrier" <=> thread \in {"start", "barrier"}
    /\ main \in {"join", "release", "closed"} <=> thread = "ended"

\* The callback has one report that is not on the list yet.
HasReport == reported = IF thread = "attach" THEN attached + 1 ELSE attached

IInv == TypeOK /\ HolderOwns /\ EndsAfterFlags /\ BarrierOrder /\ HasReport /\ NobodyLeftAsleep

USE DEF device, flags, list, readers

\* Every step preserves the types.
LEMMA TypeStep == IInv /\ [Next]_vars => TypeOK'
<1> SUFFICES ASSUME IInv, [Next]_vars
             PROVE  TypeOK'
  OBVIOUS
<1> USE HidAssumption DEF IInv, TypeOK, MainSteps, ThreadSteps
<1>1. CASE UNCHANGED vars
  BY <1>1 DEF vars
<1>2. CASE Unplug
  BY <1>2 DEF Unplug
<1>3. CASE OpenFails \/ OpenPath
  BY <1>3 DEF OpenFails, OpenPath
<1>4. CASE Unregister
  BY <1>4 DEF Unregister
<1>5. CASE Shutdown \/ SignalSource \/ Join
  BY <1>5 DEF Shutdown, SignalSource, Join
<1>6. CASE MainMeets \/ ThreadMeets \/ MainMeetsLast \/ ThreadMeetsLast
  BY <1>6 DEF MainMeets, ThreadMeets, MainMeetsLast, ThreadMeetsLast, Meet, Met
<1>7. CASE Release
  BY <1>7 DEF Release
<1>8. CASE StartThread \/ Check \/ TimedOut
  BY <1>8 DEF StartThread, Check, TimedOut
<1>9. CASE Report
  BY <1>9 DEF Report
<1>10. CASE Removal \/ Perform \/ Stopped \/ Finished
  BY <1>10 DEF Removal, Perform, Stopped, Finished
<1>11. CASE Attach
  <2>1. input_reports' \in Seq(1..MaxReports)
    <3>1. reported \in 1..MaxReports
      BY <1>11 DEF Attach, HasReport
    <3>2. Append(input_reports, reported) \in Seq(1..MaxReports) \ {<< >>}
      BY <3>1, AppendProperties
    <3>3. Tail(Append(input_reports, reported)) \in Seq(1..MaxReports)
      BY <3>2, HeadTailProperties
    <3> QED
      BY <1>11, <3>2, <3>3 DEF Attach, attach
  <2>2. pc' \in [Readers -> ReaderSteps]
    BY <1>11 DEF Attach, Wake, ReaderSteps, Sleepers
  <2> QED
    BY <1>11, <2>1, <2>2 DEF Attach
<1>12. CASE WakeReaders
  <2>1. pc' \in [Readers -> ReaderSteps]
    BY <1>12 DEF WakeReaders, Wake, ReaderSteps
  <2> QED
    BY <1>12, <2>1 DEF WakeReaders
<1>13. ASSUME NEW r \in Readers, Call(r)
       PROVE  TypeOK'
  BY <1>13 DEF Call, ReaderSteps
<1>14. ASSUME NEW r \in Readers, Lock(r)
       PROVE  TypeOK'
  <2>1. AfterLock[pc[r]] \in ReaderSteps
    BY <1>14 DEF Lock, AfterLock, ReaderSteps
  <2> QED
    BY <1>14, <2>1 DEF Lock
<1>18. ASSUME NEW r \in Readers, Sleep(r)
       PROVE  TypeOK'
  BY <1>18 DEF Sleep, ReaderSteps
<1>15. ASSUME NEW r \in Readers, SpuriousWakeup(r)
       PROVE  TypeOK'
  BY <1>15 DEF SpuriousWakeup, Wake, ReaderSteps
<1>16. ASSUME NEW r \in Readers, Expire(r)
       PROVE  TypeOK'
  BY <1>16 DEF Expire, ReaderSteps
<1>19. ASSUME NEW r \in Readers, Unlock(r)
       PROVE  TypeOK'
  BY <1>19 DEF Unlock, ReaderSteps
<1>17. ASSUME NEW r \in Readers, Look(r) \/ Recheck(r)
       PROVE  TypeOK'
  <2>1. CASE input_reports # << >> /\ Get(r)
    <3>2. Head(input_reports) \in 1..MaxReports /\ Tail(input_reports) \in Seq(1..MaxReports)
      BY <2>1, HeadTailProperties
    <3> QED
      BY <2>1, <3>2 DEF Get, Answer, ReaderSteps
  <2>2. CASE Quit(r, Error) \/ Quit(r, Nothing)
    BY <2>2 DEF Quit, Answer, ReaderSteps
  <2>3. CASE GoToSleep(r)
    BY <2>3 DEF GoToSleep, ReaderSteps
  <2> QED
    BY <1>17, <2>1, <2>2, <2>3 DEF Look, Recheck
<1> QED
  BY <1>1, <1>2, <1>3, <1>4, <1>5, <1>6, <1>7, <1>8, <1>9, <1>10, <1>11, <1>12, <1>13, <1>14,
     <1>15, <1>16, <1>17, <1>18, <1>19 DEF Next

\* The mutex, the flags and the callback keep to their order.
LEMMA OrderStep == IInv /\ [Next]_vars => HolderOwns' /\ EndsAfterFlags' /\ HasReport'
<1> SUFFICES ASSUME IInv, [Next]_vars
             PROVE  HolderOwns' /\ EndsAfterFlags' /\ HasReport'
  OBVIOUS
<1> USE HidAssumption DEF IInv, TypeOK, HolderOwns, EndsAfterFlags, HasReport, Gone
<1>1. CASE UNCHANGED vars
  BY <1>1 DEF vars
<1>2. CASE Unplug \/ OpenFails \/ OpenPath \/ Unregister \/ Join
  BY <1>2 DEF Unplug, OpenFails, OpenPath, Unregister, Join, BarrierOrder
<1>3. CASE Shutdown \/ SignalSource
  BY <1>3 DEF Shutdown, SignalSource
<1>4. CASE MainMeets \/ ThreadMeets
  BY <1>4 DEF MainMeets, ThreadMeets, BarrierOrder
<1>5. CASE MainMeetsLast \/ ThreadMeetsLast
  BY <1>5 DEF MainMeetsLast, ThreadMeetsLast, Met, BarrierOrder, Nobody
<1>6. CASE Release
  BY <1>6 DEF Release
<1>7. CASE StartThread \/ Check \/ TimedOut
  BY <1>7 DEF StartThread, Check, TimedOut
<1>8. CASE Report
  BY <1>8 DEF Report
<1>9. CASE Removal \/ Perform \/ Stopped \/ Finished
  BY <1>9 DEF Removal, Perform, Stopped, Finished
<1>10. CASE Attach
  BY <1>10 DEF Attach, Wake, Sleepers
<1>11. CASE WakeReaders
  BY <1>11 DEF WakeReaders, Wake, Sleepers
<1>12. ASSUME NEW r \in Readers, Call(r) \/ SpuriousWakeup(r) \/ Expire(r)
       PROVE  HolderOwns' /\ EndsAfterFlags' /\ HasReport'
  BY <1>12 DEF Call, SpuriousWakeup, Wake, Expire
<1>13. ASSUME NEW r \in Readers, Lock(r)
       PROVE  HolderOwns' /\ EndsAfterFlags' /\ HasReport'
  BY <1>13 DEF Lock, AfterLock
<1>14. ASSUME NEW r \in Readers, Sleep(r) \/ Unlock(r)
       PROVE  HolderOwns' /\ EndsAfterFlags' /\ HasReport'
  BY <1>14 DEF Sleep, Unlock
<1>15. ASSUME NEW r \in Readers, Look(r) \/ Recheck(r)
       PROVE  HolderOwns' /\ EndsAfterFlags' /\ HasReport'
  BY <1>15 DEF Look, Recheck, Get, Quit, Answer, GoToSleep
<1> QED
  BY <1>1, <1>2, <1>3, <1>4, <1>5, <1>6, <1>7, <1>8, <1>9, <1>10, <1>11, <1>12, <1>13, <1>14,
     <1>15 DEF Next

\* The threads meet at the barriers and nowhere else.
LEMMA BarrierStep == IInv /\ [Next]_vars => BarrierOrder'
<1> SUFFICES ASSUME IInv, [Next]_vars
             PROVE  BarrierOrder'
  OBVIOUS
<1> USE HidAssumption DEF IInv, TypeOK, BarrierOrder, Nobody
<1>1. CASE UNCHANGED vars
  BY <1>1 DEF vars
<1>2. CASE Unplug \/ OpenFails \/ OpenPath \/ Unregister \/ Join \/ Release
  BY <1>2 DEF Unplug, OpenFails, OpenPath, Unregister, Join, Release
<1>3. CASE Shutdown \/ SignalSource
  BY <1>3 DEF Shutdown, SignalSource
<1>4. CASE MainMeets \/ ThreadMeets
  BY <1>4 DEF MainMeets, ThreadMeets, Meet, Met
<1>5. CASE MainMeetsLast \/ ThreadMeetsLast
  BY <1>5 DEF MainMeetsLast, ThreadMeetsLast, Meet, Met
<1>6. CASE StartThread \/ Check \/ TimedOut \/ Report \/ Attach
  BY <1>6 DEF StartThread, Check, TimedOut, Report, Attach
<1>7. CASE Removal \/ Perform \/ Stopped \/ Finished \/ WakeReaders
  BY <1>7 DEF Removal, Perform, Stopped, Finished, WakeReaders
<1>8. ASSUME NEW r \in Readers, Call(r) \/ Lock(r) \/ Sleep(r) \/ SpuriousWakeup(r)
                                \/ Expire(r) \/ Unlock(r)
      PROVE  BarrierOrder'
  BY <1>8 DEF Call, Lock, Sleep, SpuriousWakeup, Expire, Unlock
<1>9. ASSUME NEW r \in Readers, Look(r) \/ Recheck(r)
      PROVE  BarrierOrder'
  BY <1>9 DEF Look, Recheck, Get, Quit, Answer, GoToSleep
<1> QED
  BY <1>1, <1>2, <1>3, <1>4, <1>5, <1>6, <1>7, <1>8, <1>9 DEF Next

\* All who sleep are woken up when the loop has ended, and nobody goes to sleep
\* after that.
LEMMA AsleepStep == IInv /\ [Next]_vars => NobodyLeftAsleep'
<1> SUFFICES ASSUME IInv, [Next]_vars
             PROVE  NobodyLeftAsleep'
  OBVIOUS
<1> USE HidAssumption DEF IInv, TypeOK, NobodyLeftAsleep
<1>1. CASE UNCHANGED vars
  BY <1>1 DEF vars
<1>2. CASE Unplug \/ OpenFails \/ OpenPath \/ Unregister \/ Join \/ Release
  BY <1>2 DEF Unplug, OpenFails, OpenPath, Unregister, Join, Release
<1>3. CASE Shutdown \/ SignalSource
  BY <1>3 DEF Shutdown, SignalSource
<1>4. CASE MainMeets \/ ThreadMeets
  BY <1>4 DEF MainMeets, ThreadMeets
<1>5. CASE MainMeetsLast \/ ThreadMeetsLast
  BY <1>5 DEF MainMeetsLast, ThreadMeetsLast, Met, BarrierOrder, Nobody
<1>6. CASE StartThread \/ Check \/ TimedOut \/ Report \/ Attach
  BY <1>6 DEF StartThread, Check, TimedOut, Report, Attach
<1>7. CASE Removal \/ Perform \/ Stopped \/ Finished
  BY <1>7 DEF Removal, Perform, Stopped, Finished
<1>8. CASE WakeReaders
  BY <1>8 DEF WakeReaders, Wake, Sleepers, HolderOwns
<1>9. ASSUME NEW r \in Readers, Call(r) \/ SpuriousWakeup(r) \/ Expire(r) \/ Unlock(r)
      PROVE  NobodyLeftAsleep'
  BY <1>9 DEF Call, SpuriousWakeup, Wake, Expire, Unlock
<1>10. ASSUME NEW r \in Readers, Lock(r) \/ Sleep(r)
       PROVE  NobodyLeftAsleep'
  BY <1>10 DEF Lock, AfterLock, Sleep
<1>11. ASSUME NEW r \in Readers, Look(r) \/ Recheck(r)
       PROVE  NobodyLeftAsleep'
  BY <1>11 DEF Look, Recheck, Get, Quit, Answer, GoToSleep, EndsAfterFlags
<1> QED
  BY <1>1, <1>2, <1>3, <1>4, <1>5, <1>6, <1>7, <1>8, <1>9, <1>10, <1>11 DEF Next

LEMMA InitIInv == Init => IInv
<1> SUFFICES ASSUME Init
             PROVE  IInv
  OBVIOUS
<1>1. TypeOK
  <2>1. input_reports \in Seq(1..MaxReports) /\ reported \in 0..MaxReports /\ attached \in 0..MaxReports
    BY EmptySeq, HidAssumption DEF Init
  <2>2. barrier \in [{"start", "end"} -> {Nobody, Closer, ReadThread}]
    BY DEF Init
  <2>3. main \in MainSteps /\ thread \in ThreadSteps
    BY DEF Init, MainSteps, ThreadSteps
  <2>4. /\ pc \in [Readers -> ReaderSteps] /\ ask \in [Readers -> Asks]
        /\ answer \in [Readers -> {Nothing, Error, NoAnswer} \cup 1..MaxReports]
    BY DEF Init, ReaderSteps, Asks
  <2> QED
    BY <2>1, <2>2, <2>3, <2>4 DEF Init, TypeOK
<1> QED
  BY <1>1, HidAssumption DEF Init, IInv, HolderOwns, EndsAfterFlags, BarrierOrder, HasReport,
     NobodyLeftAsleep, Nobody

\* The invariant that the theorems rest on.
THEOREM Invariance == Spec => []IInv
<1>1. IInv /\ [Next]_vars => IInv'
  BY TypeStep, OrderStep, BarrierStep, AsleepStep DEF IInv
<1> QED
  BY <1>1, InitIInv, PTL DEF Spec

\* Every variable keeps to its type.
THEOREM TypeCorrect == Spec => []TypeOK
<1>1. IInv => TypeOK
  BY DEF IInv
<1> QED
  BY <1>1, Invariance, PTL

\* hid_close() signals a run loop that is there (hid_osx.c: hid_close).
THEOREM RunLoopLives == Spec => []RunLoopAlive
<1>1. IInv => RunLoopAlive
  BY DEF IInv, BarrierOrder, RunLoopAlive
<1> QED
  BY <1>1, Invariance, PTL

\* read_thread() leaves nobody asleep, for any number of readers.
THEOREM NobodyStaysAsleep == Spec => []NobodyLeftAsleep
<1>1. IInv => NobodyLeftAsleep
  BY DEF IInv
<1> QED
  BY <1>1, Invariance, PTL
-------------------------------------------------------------------------------
\* A reader goes to sleep only when the list is empty, which it is until the
\* read thread has started.
SleepsOnEmpty ==
    /\ \A r \in Readers : pc[r] = "sleepy" => input_reports = << >>
    /\ thread = "none" => input_reports = << >>
ServedInv == IInv /\ SleepsOnEmpty /\ WaitingIsServed

LEMMA SleepsOnEmptyStep == ServedInv /\ [Next]_vars => SleepsOnEmpty'
<1> SUFFICES ASSUME ServedInv, [Next]_vars
             PROVE  SleepsOnEmpty'
  OBVIOUS
<1> USE HidAssumption DEF ServedInv, IInv, TypeOK, SleepsOnEmpty
<1>1. CASE UNCHANGED vars
  BY <1>1 DEF vars
<1>2. CASE Unplug \/ OpenFails \/ OpenPath \/ Unregister \/ Join
  BY <1>2 DEF Unplug, OpenFails, OpenPath, Unregister, Join
<1>3. CASE Shutdown \/ SignalSource \/ Release
  BY <1>3 DEF Shutdown, SignalSource, Release
<1>4. CASE MainMeets \/ ThreadMeets \/ MainMeetsLast \/ ThreadMeetsLast
  BY <1>4 DEF MainMeets, ThreadMeets, MainMeetsLast, ThreadMeetsLast
<1>5. CASE StartThread \/ Check \/ TimedOut \/ Report
  BY <1>5 DEF StartThread, Check, TimedOut, Report
<1>6. CASE Removal \/ Perform \/ Stopped \/ Finished
  BY <1>6 DEF Removal, Perform, Stopped, Finished
<1>7. CASE Attach
  BY <1>7 DEF Attach, Wake, Sleepers, HolderOwns
<1>8. CASE WakeReaders
  BY <1>8 DEF WakeReaders, Wake, Sleepers
<1>9. ASSUME NEW r \in Readers, Call(r) \/ SpuriousWakeup(r) \/ Expire(r) \/ Unlock(r)
      PROVE  SleepsOnEmpty'
  BY <1>9 DEF Call, SpuriousWakeup, Wake, Expire, Unlock
<1>10. ASSUME NEW r \in Readers, Lock(r) \/ Sleep(r)
       PROVE  SleepsOnEmpty'
  BY <1>10 DEF Lock, AfterLock, Sleep
<1>11. ASSUME NEW r \in Readers, Look(r) \/ Recheck(r)
       PROVE  SleepsOnEmpty'
  <2>1. CASE input_reports = << >>
    BY <1>11, <2>1 DEF Look, Recheck, Get, Quit, Answer, GoToSleep
  <2>2. CASE input_reports # << >>
    <3>1. \A q \in Readers : pc[q] # "sleepy"
      BY <2>2
    <3> QED
      BY <1>11, <2>2, <3>1 DEF Look, Recheck, Get, Quit, Answer, GoToSleep, EndsAfterFlags,
         BarrierOrder, Gone
  <2> QED
    BY <2>1, <2>2
<1> QED
  BY <1>1, <1>2, <1>3, <1>4, <1>5, <1>6, <1>7, <1>8, <1>9, <1>10, <1>11 DEF Next

\* How many readers are on their way: one more or one less, in one step.
LEMMA OnTheWayCounts ==
    /\ IsFiniteSet(OnTheWay) /\ Cardinality(OnTheWay) \in Nat
    /\ \A r \in Readers :
         /\ Cardinality(OnTheWay \cup {r}) \in Nat
         /\ Cardinality(OnTheWay \cup {r}) >= Cardinality(OnTheWay)
         /\ Cardinality(OnTheWay \cup {r}) =
              IF r \in OnTheWay THEN Cardinality(OnTheWay) ELSE Cardinality(OnTheWay) + 1
         /\ r \in OnTheWay => Cardinality(OnTheWay \ {r}) = Cardinality(OnTheWay) - 1
<1>1. IsFiniteSet(OnTheWay)
  BY FS_Subset, HidAssumption DEF OnTheWay, HidAssumption
<1>2. Cardinality(OnTheWay) \in Nat
  BY <1>1, FS_CardinalityType
<1>3. ASSUME NEW r \in Readers
      PROVE  /\ Cardinality(OnTheWay \cup {r}) =
                  IF r \in OnTheWay THEN Cardinality(OnTheWay) ELSE Cardinality(OnTheWay) + 1
             /\ r \in OnTheWay => Cardinality(OnTheWay \ {r}) = Cardinality(OnTheWay) - 1
  <2>1. Cardinality(OnTheWay \cup {r}) =
          IF r \in OnTheWay THEN Cardinality(OnTheWay) ELSE Cardinality(OnTheWay) + 1
    BY <1>1, FS_AddElement
  <2>2. r \in OnTheWay => Cardinality(OnTheWay \ {r}) = Cardinality(OnTheWay) - 1
    BY <1>1, FS_RemoveElement
  <2> QED
    BY <2>1, <2>2
<1> QED
  BY <1>1, <1>2, <1>3

LEMMA ServedStep == ServedInv /\ [Next]_vars => WaitingIsServed'
<1> SUFFICES ASSUME ServedInv, [Next]_vars
             PROVE  WaitingIsServed'
  OBVIOUS
<1> USE DEF ServedInv, IInv, TypeOK
<1>0. Len(input_reports) \in Nat /\ Cardinality(OnTheWay) \in Nat
  BY LenProperties, OnTheWayCounts
<1>1. CASE UNCHANGED <<input_reports, pc>> /\ (Gone => Gone')
  <2>1. OnTheWay' = OnTheWay /\ Sleepers' = Sleepers
    BY <1>1 DEF OnTheWay, Sleepers
  <2> QED
    BY <1>1, <2>1 DEF WaitingIsServed
<1>2. CASE input_reports' = << >> /\ IsFiniteSet(OnTheWay')
  <2>1. Len(input_reports') = 0 /\ Cardinality(OnTheWay') \in Nat
    BY <1>2, FS_CardinalityType
  <2> QED
    BY <2>1 DEF WaitingIsServed
<1>3. IsFiniteSet(OnTheWay')
  BY FS_Subset, HidAssumption DEF OnTheWay, HidAssumption
<1>4. CASE UNCHANGED vars \/ Unplug \/ OpenFails \/ OpenPath \/ Unregister \/ Join
  BY <1>1, <1>4 DEF vars, Unplug, OpenFails, OpenPath, Unregister, Join, Gone
<1>5. CASE Shutdown \/ SignalSource \/ MainMeets \/ ThreadMeets \/ MainMeetsLast \/ ThreadMeetsLast
  BY <1>1, <1>5 DEF Shutdown, SignalSource, MainMeets, ThreadMeets, MainMeetsLast,
     ThreadMeetsLast, Gone
<1>6. CASE StartThread \/ Check \/ TimedOut \/ Report
  BY <1>1, <1>6 DEF StartThread, Check, TimedOut, Report, Gone
<1>7. CASE Removal \/ Perform \/ Stopped \/ Finished
  BY <1>1, <1>7 DEF Removal, Perform, Stopped, Finished, Gone
<1>8. CASE Release
  BY <1>2, <1>3, <1>8 DEF Release
<1>9. CASE Attach
  <2>1. Len(input_reports') <= Len(input_reports) + 1
    <3>1. reported \in 1..MaxReports
      BY <1>9, HidAssumption DEF Attach, HasReport, HidAssumption
    <3>2. /\ Append(input_reports, reported) \in Seq(1..MaxReports) \ {<< >>}
          /\ Len(Append(input_reports, reported)) = Len(input_reports) + 1
      BY <3>1, AppendProperties
    <3>3. Len(Tail(Append(input_reports, reported))) = Len(input_reports)
      BY <1>0, <3>2, HeadTailProperties
    <3> QED
      BY <1>0, <1>9, <3>2, <3>3 DEF Attach, attach
  <2>2. CASE Sleepers = {}
    BY <1>9, <2>2 DEF Attach, WaitingIsServed, Sleepers
  <2>3. ASSUME NEW r \in Sleepers, Wake({r}), Gone' = Gone, input_reports' = attach(input_reports, reported)
        PROVE  WaitingIsServed'
    <3>1. OnTheWay' = OnTheWay \cup {r} /\ r \notin OnTheWay /\ r \in Readers
      BY <2>3 DEF Wake, OnTheWay, Sleepers
    <3>2. Cardinality(OnTheWay') = Cardinality(OnTheWay) + 1
      BY <3>1, OnTheWayCounts
    <3>3. Len(input_reports') \in Nat
      BY TypeStep, LenProperties
    <3> QED
      BY <1>0, <2>1, <2>3, <3>2, <3>3 DEF WaitingIsServed
  <2> QED
    BY <1>9, <2>2, <2>3 DEF Attach, Gone
<1>10. CASE WakeReaders
  <2>1. Sleepers' = {}
    BY <1>10 DEF WakeReaders, Wake, Sleepers
  <2> QED
    BY <2>1 DEF WaitingIsServed
<1>11. ASSUME NEW r \in Readers, Call(r)
       PROVE  WaitingIsServed'
  <2>1. OnTheWay' = OnTheWay \cup {r} /\ Sleepers' = Sleepers
    BY <1>11 DEF Call, OnTheWay, Sleepers
  <2>2. Cardinality(OnTheWay') >= Cardinality(OnTheWay) /\ Cardinality(OnTheWay') \in Nat
    BY <2>1, OnTheWayCounts
  <2> QED
    BY <1>0, <1>11, <2>1, <2>2 DEF Call, WaitingIsServed, Gone
<1>12. ASSUME NEW r \in Readers, Lock(r)
       PROVE  WaitingIsServed'
  <2>1. OnTheWay' = OnTheWay /\ Sleepers' = Sleepers
    BY <1>12 DEF Lock, AfterLock, OnTheWay, Sleepers
  <2> QED
    BY <1>12, <2>1 DEF Lock, WaitingIsServed, Gone
<1>13. ASSUME NEW r \in Readers, Sleep(r)
       PROVE  WaitingIsServed'
  <2>1. input_reports' = << >>
    BY <1>13 DEF Sleep, SleepsOnEmpty
  <2> QED
    BY <1>2, <1>3, <2>1
<1>14. ASSUME NEW r \in Readers, SpuriousWakeup(r)
       PROVE  WaitingIsServed'
  <2>1. OnTheWay' = OnTheWay \cup {r} /\ Sleepers # {}
    BY <1>14 DEF SpuriousWakeup, Wake, OnTheWay, Sleepers
  <2>2. Cardinality(OnTheWay') >= Cardinality(OnTheWay) /\ Cardinality(OnTheWay') \in Nat
    BY <2>1, OnTheWayCounts
  <2> QED
    BY <1>0, <1>14, <2>1, <2>2 DEF SpuriousWakeup, WaitingIsServed, Gone
<1>15. ASSUME NEW r \in Readers, Expire(r)
       PROVE  WaitingIsServed'
  <2>1. OnTheWay' = OnTheWay /\ Sleepers # {}
    BY <1>15 DEF Expire, OnTheWay, Sleepers
  <2> QED
    BY <1>15, <2>1 DEF Expire, WaitingIsServed, Gone
<1>16. ASSUME NEW r \in Readers, Unlock(r)
       PROVE  WaitingIsServed'
  <2>1. OnTheWay' = OnTheWay /\ Sleepers' = Sleepers
    BY <1>16 DEF Unlock, OnTheWay, Sleepers
  <2> QED
    BY <1>16, <2>1 DEF Unlock, WaitingIsServed, Gone
<1>17. ASSUME NEW r \in Readers, Look(r) \/ Recheck(r)
       PROVE  WaitingIsServed'
  <2>1. CASE input_reports # << >> /\ Get(r)
    <3>1. OnTheWay' = OnTheWay \ {r} /\ r \in OnTheWay /\ Sleepers' = Sleepers
      BY <1>17, <2>1 DEF Look, Recheck, Get, Answer, OnTheWay, Sleepers
    <3>2. Cardinality(OnTheWay') = Cardinality(OnTheWay) - 1
      BY <3>1, OnTheWayCounts
    <3>3. Len(input_reports') = Len(input_reports) - 1
      BY <2>1, HeadTailProperties DEF Get
    <3>4. Gone' = Gone
      BY <2>1 DEF Get, Answer, Gone
    <3> QED
      BY <1>0, <3>1, <3>2, <3>3, <3>4 DEF WaitingIsServed
  <2>2. CASE Gone /\ Quit(r, Error)
    BY <2>2 DEF Quit, Answer, WaitingIsServed, Gone
  <2>3. CASE input_reports = << >> /\ (Quit(r, Nothing) \/ GoToSleep(r))
    BY <1>2, <1>3, <2>3 DEF Quit, Answer, GoToSleep
  <2> QED
    BY <1>17, <2>1, <2>2, <2>3 DEF Look, Recheck
<1> QED
  BY <1>4, <1>5, <1>6, <1>7, <1>8, <1>9, <1>10, <1>11, <1>12, <1>13, <1>14, <1>15, <1>16,
     <1>17 DEF Next

LEMMA ServedInvariance == Spec => []ServedInv
<1>1. Init => ServedInv
  <2> SUFFICES ASSUME Init
               PROVE  ServedInv
    OBVIOUS
  <2>1. Sleepers = {}
    BY DEF Init, Sleepers
  <2> QED
    BY <2>1, InitIInv DEF Init, ServedInv, SleepsOnEmpty, WaitingIsServed
<1>2. ServedInv /\ [Next]_vars => ServedInv'
  BY TypeStep, OrderStep, BarrierStep, AsleepStep, SleepsOnEmptyStep, ServedStep
  DEF ServedInv, IInv
<1> QED
  BY <1>1, <1>2, PTL DEF Spec

\* No report lies in the list with a reader asleep that could have it, for any
\* number of readers.
THEOREM ReportsAreServed == Spec => []WaitingIsServed
<1>1. ServedInv => WaitingIsServed
  BY DEF ServedInv
<1> QED
  BY <1>1, ServedInvariance, PTL
-------------------------------------------------------------------------------
\* The stream of HidStream, as the variables of the device map to it.
Live == thread # "none" /\ main # "closed" /\ ~Gone
Phase == [r \in Readers |-> IF pc[r] \in {"expired", "done"} THEN "done"
                            ELSE IF pc[r] = "idle" THEN "idle" ELSE "called"]

USE DEF Phase, Live, Stream!Nothing, Stream!Error, Stream!NoAnswer, Nothing, Error, NoAnswer,
        Stream!Asks, Asks

LEMMA InitRefines == Init => Stream!Init
  BY DEF Init, Stream!Init, Gone

\* A full list drops its oldest report, which is to remove the first.
LEMMA DropsFirst ==
    ASSUME NEW S, NEW s \in Seq(S), s # << >>
    PROVE  Stream!RemoveAt(s, 1) = Tail(s)
  BY LenProperties DEF Stream!RemoveAt
\* HidStream has an instance of FiniteSets of its own.
LEMMA SameCardinality == ASSUME NEW S PROVE Stream!Cardinality(S) = Cardinality(S)
  BY Zenon DEF Stream!Cardinality, Cardinality

LEMMA StepRefines ==
    ServedInv /\ ServedInv' /\ [Next]_vars => [Stream!Next]_(Stream!vars)
<1> SUFFICES ASSUME ServedInv, ServedInv', [Next]_vars
             PROVE  [Stream!Next]_(Stream!vars)
  OBVIOUS
<1> USE DEF ServedInv, IInv, TypeOK
<1>a. CASE UNCHANGED <<attached, input_reports, pc, ask, answer, disconnected, shutdown_thread>>
           /\ (thread = "none" <=> thread' = "none") /\ (main = "closed" <=> main' = "closed")
  BY <1>a DEF Stream!vars, Gone
<1>b. CASE UNCHANGED <<attached, input_reports, pc, ask, answer>> /\ Gone'
  <2>1. CASE Live
    BY <1>b, <2>1 DEF Stream!Next, Stream!Lose
  <2>2. CASE ~Live
    BY <1>b, <2>2 DEF Stream!vars
  <2> QED
    BY <2>1, <2>2
<1>1. CASE UNCHANGED vars
  BY <1>1, <1>a DEF vars
<1>2. CASE Unplug \/ OpenFails \/ Unregister \/ SignalSource \/ Join
  BY <1>2, <1>a DEF Unplug, OpenFails, Unregister, SignalSource, Join
<1>3. CASE OpenPath
  <2>1. /\ UNCHANGED <<attached, input_reports, pc, ask, answer, disconnected, shutdown_thread>>
        /\ input_reports = << >> /\ thread = "none" /\ thread' # "none" /\ main' # "closed"
    BY <1>3 DEF OpenPath, SleepsOnEmpty, BarrierOrder
  <2>2. CASE Gone
    BY <2>1, <2>2 DEF Stream!vars, Gone
  <2>3. CASE ~Gone
    BY <2>1, <2>3 DEF Stream!Next, Stream!Open, Gone
  <2> QED
    BY <2>2, <2>3
<1>4. CASE Shutdown \/ Removal \/ Stopped \/ Finished
  BY <1>4, <1>b DEF Shutdown, Removal, Stopped, Finished, Gone
<1>5. CASE MainMeets \/ ThreadMeets \/ MainMeetsLast \/ ThreadMeetsLast
  BY <1>5, <1>a DEF MainMeets, ThreadMeets, MainMeetsLast, ThreadMeetsLast, Met, BarrierOrder, Nobody
<1>6. CASE StartThread \/ Check \/ TimedOut \/ Report \/ Perform
  BY <1>6, <1>a DEF StartThread, Check, TimedOut, Report, Perform
<1>7. CASE Release
  <2>1. ~Live /\ ~Live'
    BY <1>7 DEF Release, BarrierOrder, EndsAfterFlags
  <2> QED
    BY <1>7, <2>1 DEF Release, Stream!Next, Stream!Discard
<1>8. CASE Attach
  <2>1. attached < MaxReports /\ attached' = attached + 1 /\ attached' = reported /\ reported \in 1..MaxReports
    BY <1>8, HidAssumption DEF Attach, HasReport, HidAssumption
  <2>2. Live' = Live /\ Phase' = Phase /\ UNCHANGED <<ask, answer>>
    BY <1>8 DEF Attach, Wake, Sleepers, Gone
  <2>0. input_reports \in Seq(1..MaxReports)
    OBVIOUS
  <2>3. Append(input_reports, reported) \in Seq(1..MaxReports) \ {<< >>}
    BY ONLY <2>0, <2>1, AppendProperties
  <2>4. CASE Len(input_reports) < Limit + 2 /\ input_reports' = Append(input_reports, reported)
    BY <2>1, <2>2, <2>4 DEF Stream!Next, Stream!Arrive
  <2>5. CASE Len(input_reports) >= Limit + 2 /\ input_reports' = Tail(Append(input_reports, reported))
    <3>1. input_reports' = Stream!RemoveAt(Append(input_reports, reported), 1)
      BY <2>3, <2>5, DropsFirst
    <3>2. 1 \in 1..Len(input_reports) + 1
      BY <2>5, LenProperties
    <3> QED
      BY <2>1, <2>2, <2>5, <3>1, <3>2 DEF Stream!Next, Stream!Arrive
  <2>6. Len(input_reports) \in Nat /\ (input_reports = << >> => Len(input_reports) = 0)
    BY LenProperties
  <2> QED
    BY <1>8, <2>4, <2>5, <2>6, HidAssumption DEF Attach, attach, HidAssumption
<1>9. CASE WakeReaders
  <2>1. Phase' = Phase
    BY <1>9 DEF WakeReaders, Wake, Sleepers
  <2> QED
    BY <1>9, <2>1 DEF WakeReaders, Stream!vars, Gone
<1>10. ASSUME NEW r \in Readers, Call(r)
       PROVE  Stream!Next
  <2>1. Phase' = [Phase EXCEPT ![r] = "called"] /\ Phase[r] = "idle"
    BY <1>10 DEF Call
  <2> QED
    BY <1>10, <2>1 DEF Call, Stream!Next, Stream!Call, Gone
<1>11. ASSUME NEW r \in Readers,
              \/ Lock(r) \/ Sleep(r) \/ SpuriousWakeup(r)
              \/ GoToSleep(r) /\ pc[r] \in {"look", "recheck"}
       PROVE  UNCHANGED Stream!vars
  <2>1. CASE Lock(r)
    <3>1. Phase' = Phase
      BY <2>1 DEF Lock, AfterLock
    <3> QED
      BY <2>1, <3>1 DEF Lock, Stream!vars, Gone
  <2>2. CASE Sleep(r)
    <3>1. Phase' = Phase
      BY <2>2 DEF Sleep
    <3> QED
      BY <2>2, <3>1 DEF Sleep, Stream!vars, Gone
  <2>3. CASE SpuriousWakeup(r)
    <3>1. Phase' = Phase
      BY <2>3 DEF SpuriousWakeup, Wake
    <3> QED
      BY <2>3, <3>1 DEF SpuriousWakeup, Stream!vars, Gone
  <2>4. CASE GoToSleep(r) /\ pc[r] \in {"look", "recheck"}
    <3>1. Phase' = Phase
      BY <2>4 DEF GoToSleep
    <3> QED
      BY <2>4, <3>1 DEF GoToSleep, Stream!vars, Gone
  <2> QED
    BY <1>11, <2>1, <2>2, <2>3, <2>4
<1>12. ASSUME NEW r \in Readers, Expire(r)
       PROVE  Stream!Next
  <2>1. /\ Phase' = [Phase EXCEPT ![r] = "done"] /\ Phase[r] = "called"
        /\ Live' = Live /\ r \in Sleepers
    BY <1>12 DEF Expire, Sleepers, Gone
  <2>2. OnTheWay \subseteq Stream!OthersCalling(r) /\ Stream!OthersCalling(r) \subseteq Readers
    BY <1>12 DEF Expire, OnTheWay, Stream!OthersCalling
  <2>3. Cardinality(OnTheWay) <= Cardinality(Stream!OthersCalling(r))
    BY <2>2, FS_Subset, HidAssumption DEF HidAssumption
  <2>4. Cardinality(OnTheWay) \in Nat /\ Cardinality(Stream!OthersCalling(r)) \in Nat
        /\ Len(input_reports) \in Nat
    BY <2>2, OnTheWayCounts, FS_Subset, FS_CardinalityType, LenProperties, HidAssumption DEF HidAssumption
  <2>5. ~Live \/ Len(input_reports) <= Cardinality(Stream!OthersCalling(r))
    BY <2>1, <2>3, <2>4 DEF WaitingIsServed
  <2>6. Stream!Finish(r, Nothing) /\ UNCHANGED input_reports /\ ask[r] # "wait"
    BY <1>12, <2>1 DEF Expire, Stream!Finish
  <2>7. Stream!GetNothing(r)
    BY <2>5, <2>6, SameCardinality DEF Stream!GetNothing
  <2> QED
    BY <2>7 DEF Stream!Next
<1>13. ASSUME NEW r \in Readers, Unlock(r)
       PROVE  Stream!Next
  <2>1. Phase' = [Phase EXCEPT ![r] = "idle"] /\ Phase[r] = "done"
    BY <1>13 DEF Unlock
  <2> QED
    BY <1>13, <2>1 DEF Unlock, Stream!Next, Stream!Return, Gone
<1>14. ASSUME NEW r \in Readers, pc[r] \in {"look", "recheck"}, pc' = [pc EXCEPT ![r] = "done"]
       PROVE  Phase' = [Phase EXCEPT ![r] = "done"] /\ Phase[r] = "called"
  BY <1>14
<1>15. ASSUME NEW r \in Readers, Look(r) \/ Recheck(r)
       PROVE  [Stream!Next]_(Stream!vars)
  <2>0. pc[r] \in {"look", "recheck"}
    BY <1>15 DEF Look, Recheck
  <2>1. CASE input_reports # << >> /\ Get(r)
    <3>1. Stream!Get(r)
      BY <1>14, <2>0, <2>1 DEF Get, Answer, Stream!Get, Stream!Finish, Gone
    <3> QED
      BY <3>1 DEF Stream!Next
  <2>2. CASE Gone /\ Quit(r, Error)
    <3>1. Stream!Fail(r)
      BY <1>14, <2>0, <2>2 DEF Quit, Answer, Stream!Fail, Stream!Finish, Gone
    <3> QED
      BY <3>1 DEF Stream!Next
  <2>3. CASE input_reports = << >> /\ ask[r] = "poll" /\ Quit(r, Nothing)
    <3>1. Cardinality(Stream!OthersCalling(r)) \in Nat
      BY FS_Subset, FS_CardinalityType, HidAssumption DEF HidAssumption, Stream!OthersCalling
    <3>2. Len(input_reports) <= Cardinality(Stream!OthersCalling(r))
      BY <2>3, <3>1
    <3>3. Stream!GetNothing(r)
      BY <1>14, <2>0, <2>3, <3>2, SameCardinality DEF Quit, Answer, Stream!GetNothing, Stream!Finish, Gone
    <3> QED
      BY <3>3 DEF Stream!Next
  <2>4. CASE GoToSleep(r)
    BY <1>11, <2>0, <2>4
  <2> QED
    BY <1>15, <2>1, <2>2, <2>3, <2>4 DEF Look, Recheck
<1> QED
  BY <1>1, <1>2, <1>3, <1>4, <1>5, <1>6, <1>7, <1>8, <1>9, <1>10, <1>12, <1>11, <1>13, <1>15
  DEF Next

\* However many threads read, with whatever limit of the list, a device on macOS
\* is the stream of reports that hidapi promises.
THEOREM Refinement == Spec => ImplementsStream
<1>1. ServedInv /\ ServedInv' /\ [Next]_vars => [Stream!Next]_(Stream!vars)
  BY StepRefines
<1> QED
  BY <1>1, InitRefines, ServedInvariance, PTL DEF Spec, ImplementsStream, Stream!Spec
================================================================================
