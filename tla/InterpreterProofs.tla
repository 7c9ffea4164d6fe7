--------------------------- MODULE InterpreterProofs ---------------------------
(***************************************************************************)
(* Proofs about the interpreter, for any command lines, environments,      *)
(* lines typed and signals: Ctrl-C and failures; the arguments of a        *)
(* command, as they are written, collected and read; that the interpreter  *)
(* runs what it is asked; and the Lua stack, with what is called on it.    *)
(***************************************************************************)
EXTENDS Interpreter, FiniteSetTheorems, SequenceTheorems, TLAPS

\* What has run is a sequence, of whatever records.
Recorded == \E S : ran \in Seq(S)

\* Ctrl-C: code that began with the hook set runs until the hook is called, so
\* only one call begins while it is; and every call that was interrupted had a
\* signal, as has the hook that is set.
InterruptedIn(s) == {k \in DOMAIN s : s[k].outcome = "interrupted"}
Pending == (IF hook THEN 1 ELSE 0) + (IF call # Idle /\ call.outcome = "interrupted" THEN 1 ELSE 0)
HookOK ==
    /\ hook \in BOOLEAN /\ late \in Nat /\ signals \in Nat
    /\ hook /\ late > 0 => late = 1 /\ call # Idle /\ call.outcome = "running" /\ call.interrupted
    /\ Cardinality(InterruptedIn(ran)) + Pending <= signals
CallFields == {"what", "operand", "guard", "base", "outcome", "fn", "args", "results", "interrupted"}
Shape == call = Idle \/ DOMAIN call = CallFields
SignalInv == Recorded /\ Shape /\ HookOK

\* Failures: nothing failed as long as main() goes on, but for the console.
Console_call(r) == r.what \in {"line", "print"}
ExitInv ==
    /\ Recorded
    /\ exit = "none" => \A k \in DOMAIN ran : Console_call(ran[k]) \/ ran[k].outcome = "ok"
    /\ ExitTellsFailure
-------------------------------------------------------------------------------
\* Adding a record to what has run.
Added(r) == ran' = Append(ran, r)
LEMMA AddedIs ==
  ASSUME Recorded, NEW r, Added(r)
  PROVE  /\ Recorded'
         /\ Len(ran) \in Nat /\ DOMAIN ran = 1..Len(ran)
         /\ Len(ran') = Len(ran) + 1 /\ DOMAIN ran' = 1..(Len(ran) + 1)
         /\ ran'[Len(ran) + 1] = r
         /\ \A k \in 1..Len(ran) : ran'[k] = ran[k]
<1>1. PICK S : ran \in Seq(S)
  BY DEF Recorded
<1> DEFINE T == S \cup {r}
<1>2. ran \in Seq(T) /\ r \in T
  <2>1. S \subseteq T
    OBVIOUS
  <2> HIDE DEF T
  <2>2. Len(ran) \in Nat /\ ran \in [1..Len(ran) -> T]
    BY <1>1, <2>1
  <2>3. ran \in Seq(T)
    BY <2>2, <1>1, SeqDef
  <2> QED
    BY <2>3 DEF T
<1> HIDE DEF T
<1>3. Append(ran, r) \in Seq(T)
  BY <1>2, AppendProperties
<1>4. Recorded'
  BY <1>3 DEF Recorded, Added
<1> QED
  BY <1>2, <1>3, <1>4, AppendProperties DEF Added

\* It is counted if it was interrupted.
LEMMA InterruptedAdded ==
  ASSUME Recorded, NEW r, Added(r)
  PROVE  /\ Cardinality(InterruptedIn(ran)) \in Nat
         /\ Cardinality(InterruptedIn(ran')) =
               Cardinality(InterruptedIn(ran)) + (IF r.outcome = "interrupted" THEN 1 ELSE 0)
<1> DEFINE n == Len(ran)
           A == InterruptedIn(ran)
           B == InterruptedIn(ran')
<1>1. /\ n \in Nat /\ DOMAIN ran = 1..n
      /\ DOMAIN ran' = 1..(n + 1)
      /\ ran'[n + 1] = r
      /\ \A k \in 1..n : ran'[k] = ran[k]
  BY AddedIs
<1> HIDE DEF n
<1>2. A \subseteq 1..n /\ n + 1 \notin 1..n
  BY <1>1 DEF InterruptedIn
<1>3. B = IF r.outcome = "interrupted" THEN A \cup {n + 1} ELSE A
  BY <1>1 DEF InterruptedIn
<1> HIDE DEF A, B
<1>4. IsFiniteSet(A)
  <2>1. IsFiniteSet(1..n)
    BY <1>1, FS_Interval
  <2> QED
    BY <1>2, <2>1, FS_Subset
<1>5. Cardinality(A) \in Nat
  BY <1>4, FS_CardinalityType
<1>6. Cardinality(A \cup {n + 1}) = Cardinality(A) + 1
  BY <1>2, <1>4, FS_AddElement
<1> QED
  BY <1>3, <1>5, <1>6 DEF A, B

\* The calls that were interrupted are finitely many.
LEMMA InterruptedCount == Recorded => Cardinality(InterruptedIn(ran)) \in Nat
<1> SUFFICES ASSUME Recorded PROVE Cardinality(InterruptedIn(ran)) \in Nat
  OBVIOUS
<1>1. PICK S : ran \in Seq(S)
  BY DEF Recorded
<1>2. Len(ran) \in Nat /\ DOMAIN ran = 1..Len(ran)
  BY <1>1
<1>3. IsFiniteSet(1..Len(ran)) /\ InterruptedIn(ran) \subseteq 1..Len(ran)
  BY <1>2, FS_Interval DEF InterruptedIn
<1> QED
  BY <1>3, FS_Subset, FS_CardinalityType
-------------------------------------------------------------------------------
\* A call that begins, and one that ends.
LEMMA Begins ==
  ASSUME NEW what, NEW op, NEW s, NEW narg, NEW guard, Begin(what, op, s, narg, guard)
  PROVE  /\ Shape' /\ call' # Idle /\ call'.outcome = "running" /\ call'.interrupted = hook
         /\ late' = (IF hook THEN late + 1 ELSE late) /\ UNCHANGED <<hook, signals>>
<1>1. DOMAIN call' = CallFields /\ call'.outcome = "running" /\ call'.interrupted = hook
  BY DEF Begin, CallFields
<1>2. DOMAIN Idle # CallFields
  BY DEF Idle, CallFields
<1> QED
  BY <1>1, <1>2 DEF Begin, Shape

LEMMA Ends ==
  ASSUME Shape, call # Idle, NEW outcome, NEW results, Leaves(outcome, results)
  PROVE  Shape' /\ call' # Idle /\ call'.outcome = outcome /\ call'.interrupted = call.interrupted
<1>1. DOMAIN call = CallFields
  BY DEF Shape
<1>2. DOMAIN call' = CallFields /\ call'.outcome = outcome /\ call'.interrupted = call.interrupted
  BY <1>1 DEF Leaves, CallFields
<1>3. DOMAIN Idle # CallFields
  BY DEF Idle, CallFields
<1> QED
  BY <1>2, <1>3 DEF Shape

\* main() does something else than a call.
LEMMA QuietSignals ==
  ASSUME SignalInv, Quiet, UNCHANGED ran
  PROVE  SignalInv'
  BY DEF SignalInv, Recorded, Shape, HookOK, Pending, InterruptedIn, Quiet, sigint

\* main() makes a call, none being under way.
LEMMA BeginSignals ==
  ASSUME SignalInv, UNCHANGED ran, call = Idle \/ call.outcome # "running",
         NEW what, NEW op, NEW s, NEW narg, NEW guard, Begin(what, op, s, narg, guard)
  PROVE  SignalInv'
<1>1. /\ Shape' /\ call' # Idle /\ call'.outcome = "running" /\ call'.interrupted = hook
      /\ late' = (IF hook THEN late + 1 ELSE late) /\ UNCHANGED <<hook, signals>>
  BY Begins
<1>2. Recorded' /\ InterruptedIn(ran)' = InterruptedIn(ran)
  BY DEF SignalInv, Recorded, InterruptedIn
<1>3. Cardinality(InterruptedIn(ran)) \in Nat
  BY InterruptedCount DEF SignalInv
<1>4. HookOK'
  <2>1. hook => late = 0
    BY DEF SignalInv, HookOK
  <2>2. Pending' <= Pending /\ Pending' \in Nat /\ Pending \in Nat
    BY <1>1 DEF SignalInv, HookOK, Pending
  <2>3. Cardinality(InterruptedIn(ran))' + Pending' <= signals'
    BY <1>1, <1>2, <1>3, <2>2 DEF SignalInv, HookOK
  <2> QED
    BY <1>1, <2>1, <2>3 DEF SignalInv, HookOK
<1> QED
  BY <1>1, <1>2, <1>4 DEF SignalInv

\* A call that has returned is recorded, and forgotten or followed by another.
CallRecord == [what |-> call.what, operand |-> call.operand, fn |-> call.fn,
               args |-> call.args, results |-> call.results, outcome |-> call.outcome]
LEMMA GoesOn == GoOn => Added(CallRecord) /\ exit = "none" /\ CallRecord.outcome = call.outcome
                        /\ CallRecord.what = call.what
  BY DEF GoOn, Added, CallRecord

\* main() records a call, and may make another at once.
LEMMA DoneSignals ==
  ASSUME SignalInv, call # Idle, call.outcome # "running", GoOn,
         \/ Over
         \/ \E what, op, s, narg, guard : Begin(what, op, s, narg, guard)
  PROVE  SignalInv'
<1>1. Added(CallRecord) /\ CallRecord.outcome = call.outcome
  BY GoesOn
<1>2. /\ Recorded' /\ Cardinality(InterruptedIn(ran)) \in Nat
      /\ Cardinality(InterruptedIn(ran')) =
            Cardinality(InterruptedIn(ran)) + (IF call.outcome = "interrupted" THEN 1 ELSE 0)
  BY <1>1, AddedIs, InterruptedAdded DEF SignalInv
<1>3. InterruptedIn(ran)' = InterruptedIn(ran')
  BY DEF InterruptedIn
<1>4. hook => late = 0
  BY DEF SignalInv, HookOK
<1>5. /\ Shape' /\ UNCHANGED <<hook, signals>> /\ Pending' = (IF hook THEN 1 ELSE 0)
      /\ \/ late' = late
         \/ /\ late' = (IF hook THEN late + 1 ELSE late)
            /\ call' # Idle /\ call'.outcome = "running" /\ call'.interrupted = hook
  <2>1. CASE Over
    BY <2>1 DEF Over, Shape, Pending
  <2>2. ASSUME NEW what, NEW op, NEW s, NEW narg, NEW guard, Begin(what, op, s, narg, guard)
        PROVE  /\ Shape' /\ UNCHANGED <<hook, signals>> /\ Pending' = (IF hook THEN 1 ELSE 0)
               /\ late' = (IF hook THEN late + 1 ELSE late)
               /\ call' # Idle /\ call'.outcome = "running" /\ call'.interrupted = hook
    BY <2>2, Begins DEF Pending
  <2> QED
    BY <2>1, <2>2
<1>6. Pending = (IF hook THEN 1 ELSE 0) + (IF call.outcome = "interrupted" THEN 1 ELSE 0)
  BY DEF Pending
<1>7. HookOK'
  <2>1. Cardinality(InterruptedIn(ran')) + Pending' <= signals
    BY <1>2, <1>5, <1>6 DEF SignalInv, HookOK
  <2>2. hook' \in BOOLEAN /\ late' \in Nat /\ signals' \in Nat
    BY <1>5 DEF SignalInv, HookOK
  <2>3. hook' /\ late' > 0 => late' = 1 /\ call' # Idle /\ call'.outcome = "running" /\ call'.interrupted
    <3> SUFFICES ASSUME hook', late' > 0
                 PROVE  late' = 1 /\ call' # Idle /\ call'.outcome = "running" /\ call'.interrupted
      OBVIOUS
    <3>1. hook /\ late = 0
      BY <1>4, <1>5
    <3>2. late' # late
      BY <3>1
    <3>3. late' = late + 1 /\ call' # Idle /\ call'.outcome = "running" /\ call'.interrupted = hook
      BY <1>5, <3>1, <3>2
    <3>4. late' = 1
      BY <3>1, <3>3
    <3> QED
      BY <3>1, <3>3, <3>4, Zenon
  <2> QED
    BY <1>3, <1>5, <2>1, <2>2, <2>3 DEF HookOK
<1> QED
  BY <1>2, <1>5, <1>7 DEF SignalInv

\* A call of main() whose return is not recorded.
LEMMA DropSignals ==
  ASSUME SignalInv, call # Idle, call.outcome # "running", call' = Idle, UNCHANGED <<sigint, ran>>
  PROVE  SignalInv'
<1>1. Recorded' /\ InterruptedIn(ran)' = InterruptedIn(ran) /\ Shape'
  BY DEF SignalInv, Recorded, InterruptedIn, Shape
<1>2. Cardinality(InterruptedIn(ran)) \in Nat
  BY InterruptedCount DEF SignalInv
<1>3. UNCHANGED <<hook, late, signals>>
  BY DEF sigint
<1>4. Pending' <= Pending /\ Pending' \in Nat /\ Pending \in Nat
  BY <1>3 DEF SignalInv, HookOK, Pending
<1>5. HookOK'
  <2>1. Cardinality(InterruptedIn(ran))' + Pending' <= signals'
    BY <1>1, <1>2, <1>3, <1>4 DEF SignalInv, HookOK
  <2> QED
    BY <1>3, <2>1 DEF SignalInv, HookOK
<1> QED
  BY <1>1, <1>5 DEF SignalInv

\* The code that runs returns or throws.
LEMMA ReturnSignals ==
  ASSUME SignalInv, Return \/ Throw
  PROVE  SignalInv'
<1>1. call # Idle /\ call.outcome = "running" /\ ~call.interrupted /\ UNCHANGED <<sigint, ran>>
  BY DEF Return, Throw, CanEnd
<1>2. PICK outcome, results : Leaves(outcome, results) /\ outcome # "interrupted"
  BY DEF Return, Throw
<1>3. Shape' /\ call' # Idle /\ call'.outcome # "interrupted"
  BY <1>1, <1>2, Ends DEF SignalInv
<1>4. Recorded' /\ InterruptedIn(ran)' = InterruptedIn(ran)
  BY <1>1 DEF SignalInv, Recorded, InterruptedIn
<1>5. UNCHANGED <<hook, late, signals>>
  BY <1>1 DEF sigint
<1>6. Pending' = Pending /\ ~(hook /\ late > 0)
  BY <1>1, <1>3, <1>5 DEF SignalInv, HookOK, Pending
<1> QED
  BY <1>3, <1>4, <1>5, <1>6 DEF SignalInv, HookOK

\* Ctrl-C, and the hook that it set.
LEMMA SigintSignals ==
  ASSUME SignalInv, Sigint
  PROVE  SignalInv'
<1>1. /\ UNCHANGED <<call, ran>> /\ signals' = signals + 1
      /\ \/ hook' = TRUE /\ late' = 0
         \/ UNCHANGED <<hook, late>>
  BY DEF Sigint
<1>2. Recorded' /\ InterruptedIn(ran)' = InterruptedIn(ran) /\ Shape'
  BY <1>1 DEF SignalInv, Recorded, InterruptedIn, Shape
<1>3. Cardinality(InterruptedIn(ran)) \in Nat
  BY InterruptedCount DEF SignalInv
<1>4. Pending' <= Pending + 1 /\ Pending' \in Nat /\ Pending \in Nat
  BY <1>1 DEF SignalInv, HookOK, Pending
<1>5. HookOK'
  <2>1. Cardinality(InterruptedIn(ran))' + Pending' <= signals'
    <3>1. Cardinality(InterruptedIn(ran)) + Pending <= signals /\ signals \in Nat
      BY DEF SignalInv, HookOK
    <3>2. Cardinality(InterruptedIn(ran))' = Cardinality(InterruptedIn(ran))
      BY <1>2
    <3> QED
      BY <1>1, <1>3, <1>4, <3>1, <3>2
  <2>2. CASE hook' = TRUE /\ late' = 0
    BY <1>1, <2>1, <2>2 DEF SignalInv, HookOK
  <2>3. CASE UNCHANGED <<hook, late>>
    BY <1>1, <2>1, <2>3 DEF SignalInv, HookOK
  <2> QED
    BY <1>1, <2>2, <2>3
<1> QED
  BY <1>2, <1>5 DEF SignalInv

\* The hook raises its error in the code that runs, which may catch it.
LEMMA HookSignals ==
  ASSUME SignalInv, lstop
  PROVE  SignalInv'
<1>1. /\ hook /\ call # Idle /\ call.outcome = "running" /\ hook' = FALSE
      /\ UNCHANGED <<late, signals, ran>>
      /\ Leaves("interrupted", <<Message>>) \/ UNCHANGED call
  BY DEF lstop, unhook
<1>2. Shape'
  BY <1>1, Ends DEF SignalInv, Shape
<1>3. Recorded' /\ InterruptedIn(ran)' = InterruptedIn(ran)
  BY <1>1 DEF SignalInv, Recorded, InterruptedIn
<1>4. Cardinality(InterruptedIn(ran)) \in Nat
  BY InterruptedCount DEF SignalInv
<1>5. Pending' <= Pending /\ Pending' \in Nat /\ Pending \in Nat
  BY <1>1 DEF SignalInv, HookOK, Pending
<1>6. HookOK'
  <2>1. Cardinality(InterruptedIn(ran))' + Pending' <= signals'
    BY <1>1, <1>3, <1>4, <1>5 DEF SignalInv, HookOK
  <2> QED
    BY <1>1, <2>1 DEF SignalInv, HookOK
<1> QED
  BY <1>2, <1>3, <1>6 DEF SignalInv

\* The steps of main() by what they do to the call.
MainQuiet == \/ main \/ arg_table \/ init_bad \/ flag_option \/ dostring_bad \/ options_done
             \/ script_bad \/ end_of_input \/ pushline \/ incomplete \/ addline \/ line_bad
MainCalls == \/ bundle_main \/ dostring \/ dolibrary \/ runcmdopt \/ loadjitmodule
             \/ handle_script \/ print_jit_status \/ line_loaded
MainEither == handle_luainit \/ dofile
MainDone == \/ main_returned \/ option_done \/ script_done \/ status_done \/ stdin_done
            \/ print_done \/ Escapes
Cases == \/ Return \/ Throw \/ Sigint \/ lstop \/ MainQuiet \/ MainCalls \/ MainEither \/ MainDone
         \/ bundle_loaded \/ add_on_loaded \/ line_done
LEMMA NextIsCases == Next => Cases
  BY DEF Next, Cases, MainQuiet, MainCalls, MainEither, MainDone

LEMMA QuietSteps == MainQuiet => Quiet /\ UNCHANGED ran /\ exit = "none"
  BY DEF MainQuiet, main, arg_table, init_bad, flag_option, dostring_bad, options_done, script_bad,
     end_of_input, pushline, incomplete, addline, line_bad, NoChunk, Option_at, Step

Calling == \E what, op, s, narg, guard : Begin(what, op, s, narg, guard)
LEMMA CallSteps == MainCalls => Calling /\ UNCHANGED ran /\ call = Idle /\ UNCHANGED exit
  BY DEF MainCalls, Calling, bundle_main, dostring, dolibrary, runcmdopt, loadjitmodule, handle_script,
     print_jit_status, line_loaded, Option_at, Step, Goto

LEMMA EitherSteps == MainEither => (Quiet \/ Calling) /\ UNCHANGED ran /\ call = Idle /\ exit = "none"
  BY DEF MainEither, handle_luainit, dofile, Calling, Step

LEMMA DoneSteps == MainDone => call # Idle /\ call.outcome # "running" /\ GoOn /\ Over
  BY DEF MainDone, main_returned, option_done, script_done, status_done, stdin_done, print_done,
     Escapes, Returned

LEMMA LoadedSteps ==
  bundle_loaded \/ add_on_loaded =>
     /\ call # Idle /\ call.outcome # "running" /\ UNCHANGED ran /\ exit = "none"
     /\ Calling \/ (call' = Idle /\ UNCHANGED sigint)
<1>1. bundle_loaded => /\ call # Idle /\ call.outcome # "running" /\ UNCHANGED ran /\ exit = "none"
                       /\ Calling \/ (call' = Idle /\ UNCHANGED sigint)
  BY DEF bundle_loaded, Returned, Calling
<1>2. add_on_loaded => /\ call # Idle /\ call.outcome # "running" /\ UNCHANGED ran /\ exit = "none"
                       /\ Calling \/ (call' = Idle /\ UNCHANGED sigint)
  BY DEF add_on_loaded, Returned, Calling, sigint
<1> QED
  BY <1>1, <1>2

LEMMA LineStep == line_done => call # Idle /\ call.outcome # "running" /\ GoOn /\ (Over \/ Calling)
  BY DEF line_done, Returned, Calling

\* What a call leaves behind is kept in order by every step.
LEMMA SignalStep == SignalInv /\ [Next]_vars => SignalInv'
<1> SUFFICES ASSUME SignalInv, [Next]_vars PROVE SignalInv'
  OBVIOUS
<1>1. CASE UNCHANGED vars
  BY <1>1 DEF vars, sigint, SignalInv, Recorded, Shape, HookOK, Pending, InterruptedIn
<1>2. ASSUME Calling, UNCHANGED ran, call = Idle \/ call.outcome # "running"
      PROVE  SignalInv'
  BY <1>2, BeginSignals DEF Calling
<1>3. CASE Next
  <2>1. Cases
    BY <1>3, NextIsCases
  <2>2. CASE MainQuiet
    BY <2>2, QuietSteps, QuietSignals
  <2>3. CASE MainCalls
    BY <1>2, <2>3, CallSteps
  <2>4. CASE MainEither
    BY <1>2, <2>4, EitherSteps, QuietSignals
  <2>5. CASE MainDone
    BY <2>5, DoneSteps, DoneSignals
  <2>6. CASE bundle_loaded \/ add_on_loaded
    BY <1>2, <2>6, LoadedSteps, DropSignals
  <2>7. CASE line_done
    BY <2>7, LineStep, DoneSignals DEF Calling
  <2> QED
    BY <2>1, <2>2, <2>3, <2>4, <2>5, <2>6, <2>7, ReturnSignals, SigintSignals, HookSignals DEF Cases
<1> QED
  BY <1>1, <1>3

\* Nothing has run at first,
LEMMA NothingRan == Init => Recorded /\ DOMAIN ran = {} /\ Len(ran) = 0
  BY DEF Init, Recorded

\* so the invariant holds.
LEMMA SignalStart == Init => SignalInv
<1> SUFFICES ASSUME Init PROVE SignalInv
  OBVIOUS
<1>1. InterruptedIn(ran) = {} /\ Cardinality({}) = 0
  BY NothingRan, FS_EmptySet DEF InterruptedIn
<1>2. Pending = 0 /\ hook \in BOOLEAN /\ late = 0 /\ signals = 0 /\ hook = FALSE /\ call = Idle
  <2>1. hook = FALSE /\ late = 0 /\ signals = 0 /\ call = Idle
    BY DEF Init
  <2>2. Pending = 0
    BY <2>1 DEF Pending
  <2> QED
    BY <2>1, <2>2
<1>3. HookOK
  BY <1>1, <1>2 DEF HookOK
<1> QED
  BY <1>2, <1>3, NothingRan DEF SignalInv, Shape

\* Ctrl-C interrupts one call at most, that in which it is pressed or the one that
\* begins next, and the hook is gone when it did (luajit.c:45-60, 113-130).
THEOREM InterruptsHitOnce == Spec => []InterruptsOnce
<1>1. SignalInv => InterruptsOnce
  <2> SUFFICES ASSUME SignalInv PROVE InterruptsOnce
    OBVIOUS
  <2>1. hook => late <= 1
    BY DEF SignalInv, HookOK
  <2>2. Cardinality(InterruptedIn(ran)) <= signals
    <3>1. Cardinality(InterruptedIn(ran)) \in Nat
      BY InterruptedCount DEF SignalInv
    <3> QED
      BY <3>1 DEF SignalInv, HookOK, Pending
  <2> QED
    BY <2>1, <2>2 DEF InterruptsOnce, InterruptedIn
<1> QED
  BY <1>1, SignalStart, SignalStep, PTL DEF Spec
-------------------------------------------------------------------------------
\* A step that records nothing is one of a run that goes on, or leaves the exit
\* status.
LEMMA KeepExit ==
  ASSUME ExitInv, UNCHANGED ran, exit' = exit \/ exit = "none"
  PROVE  ExitInv'
<1>1. Recorded'
  BY DEF ExitInv, Recorded
<1>2. CASE exit' = exit
  BY <1>1, <1>2 DEF ExitInv, ExitTellsFailure, Console_call
<1>3. CASE exit = "none"
  BY <1>1, <1>3 DEF ExitInv, ExitTellsFailure, Console_call
<1> QED
  BY <1>2, <1>3

\* A call that is recorded was fine, or ends the run, or is one whose failure is
\* to have no such effect.
MayFail(what) == what \in {"stdin", "line", "print", "-b"}
LEMMA RecordExit ==
  ASSUME ExitInv, GoOn,
         exit' = "none" => call.what \in {"line", "print"} \/ ~Failed,
         exit' = "success" => ~Failed \/ MayFail(call.what)
  PROVE  ExitInv'
<1> DEFINE n == Len(ran)
           r == CallRecord
<1>1. Added(r) /\ exit = "none" /\ r.outcome = call.outcome /\ r.what = call.what
  BY GoesOn
<1> HIDE DEF r
<1>2. /\ Recorded' /\ n \in Nat /\ DOMAIN ran = 1..n /\ DOMAIN ran' = 1..(n + 1) /\ Len(ran') = n + 1
      /\ ran'[n + 1] = r /\ \A k \in 1..n : ran'[k] = ran[k]
  BY <1>1, AddedIs DEF ExitInv
<1> HIDE DEF n
<1>3. \A k \in 1..n : ran[k].what \in {"line", "print"} \/ ran[k].outcome = "ok"
  BY <1>1, <1>2 DEF ExitInv, Console_call
<1>4. \A k \in DOMAIN ran' : k \in 1..n \/ k = n + 1
  BY <1>2
<1>5. ASSUME exit' = "none", NEW k \in DOMAIN ran'
      PROVE  ran'[k].what \in {"line", "print"} \/ ran'[k].outcome = "ok"
  BY <1>1, <1>2, <1>3, <1>4, <1>5 DEF Failed
<1>6. ASSUME NEW k \in DOMAIN ran', k < Len(ran'), ran'[k].what \notin {"line", "print"}
      PROVE  ran'[k].outcome = "ok"
  <2>1. k \in 1..n
    BY <1>2, <1>4, <1>6
  <2> QED
    BY <1>2, <1>3, <1>6, <2>1
<1>7. ASSUME NEW k \in DOMAIN ran', ran'[k].outcome # "ok", exit' = "success"
      PROVE  ran'[k].what \in {"stdin", "line", "print", "-b"}
  BY <1>1, <1>2, <1>3, <1>4, <1>7 DEF Failed, MayFail
<1> QED
  BY <1>2, <1>5, <1>6, <1>7 DEF ExitInv, ExitTellsFailure, Console_call

\* What each return of a call does to the exit status.
LEMMA DoneExits ==
  MainDone \/ line_done =>
     /\ GoOn
     /\ exit' = "none" => call.what \in {"line", "print"} \/ ~Failed
     /\ exit' = "success" => ~Failed \/ MayFail(call.what)
<1> DEFINE Told == /\ GoOn
                   /\ exit' = "none" => call.what \in {"line", "print"} \/ ~Failed
                   /\ exit' = "success" => ~Failed \/ MayFail(call.what)
<1>1. main_returned => Told
  BY DEF main_returned
<1>2. option_done => Told
  BY DEF option_done, Exit, Stops, Goto, MayFail
<1>3. script_done => Told
  BY DEF script_done, Exit
<1>4. status_done => Told
  BY DEF status_done
<1>5. stdin_done => Told
  BY DEF stdin_done, Exit, Returned, MayFail
<1>6. print_done => Told
  BY DEF print_done, Returned, MayFail
<1>7. Escapes => Told
  BY DEF Escapes, Exit
<1>8. line_done => Told
  BY DEF line_done, Returned, MayFail
<1> QED
  BY <1>1, <1>2, <1>3, <1>4, <1>5, <1>6, <1>7, <1>8 DEF MainDone

\* Every step keeps the account of the failures.
LEMMA ExitStep == ExitInv /\ [Next]_vars => ExitInv'
<1> SUFFICES ASSUME ExitInv, [Next]_vars PROVE ExitInv'
  OBVIOUS
<1>1. CASE UNCHANGED vars
  BY <1>1, KeepExit DEF vars
<1>2. CASE Next
  <2>1. Cases
    BY <1>2, NextIsCases
  <2>2. CASE Return \/ Throw \/ Sigint \/ lstop
    <3>1. UNCHANGED ran /\ (exit' = exit \/ exit = "none")
      BY <2>2 DEF Return, Throw, Sigint, lstop
    <3> QED
      BY <3>1, KeepExit
  <2>3. CASE MainQuiet \/ MainCalls \/ MainEither \/ bundle_loaded \/ add_on_loaded
    BY <2>3, QuietSteps, CallSteps, EitherSteps, LoadedSteps, KeepExit
  <2>4. CASE MainDone \/ line_done
    BY <2>4, DoneExits, RecordExit
  <2> QED
    BY <2>1, <2>2, <2>3, <2>4 DEF Cases
<1> QED
  BY <1>1, <1>2

\* A failure ends the run and shows in the exit status, but where the interpreter
\* is to go on or the status is not its own (luajit.c:579-615).
THEOREM FailuresShow == Spec => []ExitTellsFailure
<1>1. Init => ExitInv
  BY NothingRan DEF ExitInv, ExitTellsFailure
<1>2. ExitInv => ExitTellsFailure
  BY DEF ExitInv
<1> QED
  BY <1>1, <1>2, ExitStep, PTL DEF Spec
-------------------------------------------------------------------------------
(***************************************************************************)
(* Induction, with the set of numbers that have the property.              *)
(***************************************************************************)
LEMMA LeastNumber ==
  ASSUME NEW T \in SUBSET Nat, T # {}
  PROVE  \E n \in T : \A m \in T : n <= m
<1> DEFINE R == OpToRel(<, Nat)
<1>1. \A m, n \in Nat : <<m, n>> \in R <=> m < n
  BY DEF OpToRel
<1>2. IsWellFoundedOn(R, Nat)
  BY NatLessThanWellFounded
<1> HIDE DEF R
<1>3. PICK n \in T : \A m \in T : ~(<<m, n>> \in R)
  BY <1>2, WFMin
<1>4. \A m \in T : ~(m < n)
  BY <1>1, <1>3
<1> QED
  BY <1>4

\* Induction, with the set of numbers that have the property.
LEMMA SetInduction ==
  ASSUME NEW S, 0 \in S, \A n \in Nat : n \in S => n + 1 \in S
  PROVE  Nat \subseteq S
<1> SUFFICES ASSUME ~(Nat \subseteq S) PROVE FALSE
  OBVIOUS
<1>1. PICK n \in Nat \ S : \A m \in Nat \ S : n <= m
  BY LeastNumber
<1>2. n - 1 \in Nat /\ n - 1 \in S
  BY <1>1
<1> QED
  BY <1>1, <1>2

-------------------------------------------------------------------------------
\* F has the first m sequences of q in one, for each m.
IsJoining(F, q, n) == F[0] = << >> /\ \A m \in 1..n : F[m] = F[m - 1] \o q[m]

\* Such a function exists: induction over how many are joined.
LEMMA JoiningExists ==
  ASSUME NEW q, NEW n \in Nat
  PROVE  \E F : IsJoining(F, q, n)
<1> DEFINE S == {m \in Nat : \E F : IsJoining(F, q, m)}
<1>1. 0 \in S
  <2> DEFINE F == [j \in {0} |-> << >>]
  <2>1. IsJoining(F, q, 0)
    BY DEF IsJoining
  <2> QED
    BY <2>1
<1>2. ASSUME NEW m \in Nat, m \in S
      PROVE  m + 1 \in S
  <2>1. PICK F : IsJoining(F, q, m)
    BY <1>2
  <2> DEFINE v == F[m] \o q[m + 1]
             G == [j \in 0..(m + 1) |-> IF j = m + 1 THEN v ELSE F[j]]
  <2> HIDE DEF v
  <2>2. /\ \A j \in 0..m : G[j] = F[j]
        /\ G[m + 1] = v
    OBVIOUS
  <2> HIDE DEF G
  <2>6. G[m + 1] = F[m] \o q[m + 1] /\ (m + 1) - 1 \in 0..m /\ (m + 1) - 1 = m
    BY <2>2 DEF v
  <2>3. ASSUME NEW j \in 1..(m + 1)
        PROVE  G[j] = G[j - 1] \o q[j]
    <3>1. CASE j = m + 1
      <4>1. j - 1 = m /\ G[m] = F[m]
        BY <2>2, <3>1
      <4> QED
        BY <2>6, <3>1, <4>1
    <3>2. CASE j # m + 1
      <4>1. j \in 1..m /\ j \in 0..m /\ j - 1 \in 0..m
        BY <3>2
      <4> QED
        BY <2>1, <2>2, <4>1 DEF IsJoining
    <3> QED
      BY <3>1, <3>2
  <2>4. G[0] = << >>
    BY <2>1, <2>2 DEF IsJoining
  <2>5. IsJoining(G, q, m + 1)
    BY <2>3, <2>4 DEF IsJoining
  <2> QED
    BY <2>5
<1> HIDE DEF S
<1>3. Nat \subseteq S
  BY <1>1, <1>2, SetInduction
<1> QED
  BY <1>3 DEF S

\* What is joined is of the type of the parts.
LEMMA JoiningType ==
  ASSUME NEW S, NEW q \in Seq(Seq(S)), NEW F, IsJoining(F, q, Len(q)), NEW m \in 0..Len(q)
  PROVE  F[m] \in Seq(S)
<1> DEFINE T == {j \in Nat : j <= Len(q) => F[j] \in Seq(S)}
<1>1. 0 \in T
  BY EmptySeq DEF IsJoining
<1>2. ASSUME NEW j \in Nat, j \in T
      PROVE  j + 1 \in T
  <2>1. CASE j + 1 <= Len(q)
    <3>1. j + 1 \in 1..Len(q) /\ (j + 1) - 1 = j /\ F[j] \in Seq(S)
      BY <1>2, <2>1, LenProperties
    <3>2. F[j + 1] = F[j] \o q[j + 1] /\ q[j + 1] \in Seq(S)
      BY <3>1, ElementOfSeq DEF IsJoining
    <3>3. F[j] \o q[j + 1] \in Seq(S)
      BY <3>1, <3>2, ConcatProperties
    <3>4. F[j + 1] \in Seq(S)
      BY <3>2, <3>3, Zenon
    <3> QED
      BY <3>4
  <2> QED
    BY <2>1
<1> HIDE DEF T
<1>3. Nat \subseteq T
  BY <1>1, <1>2, SetInduction
<1>4. m \in Nat /\ m <= Len(q)
  BY LenProperties
<1> QED
  BY <1>3, <1>4 DEF T

\* FlattenSeq is such a joining.
LEMMA FlattenIsJoining ==
  ASSUME NEW S, NEW q \in Seq(Seq(S))
  PROVE  \E F : IsJoining(F, q, Len(q)) /\ FlattenSeq(q) = F[Len(q)]
<1> DEFINE L == Len(q)
<1>0. L \in Nat
  BY LenProperties
<1>1. CASE L = 0
  <2>1. PICK F : IsJoining(F, q, 0)
    BY JoiningExists
  <2>2. q = << >> /\ FlattenSeq(q) = << >>
    BY <1>1, EmptySeq, LenProperties DEF FlattenSeq
  <2> QED
    BY <1>1, <2>1, <2>2 DEF IsJoining
<1>2. CASE L # 0
  <2> DEFINE IsFlatten(g) == g = [w \in 1..L |-> IF w = 1 THEN q[w] ELSE g[w - 1] \o q[w]]
             flatten == CHOOSE g : IsFlatten(g)
  <2>1. \E g : IsFlatten(g)
    <3>1. PICK F : IsJoining(F, q, L)
      BY <1>0, JoiningExists
    <3> DEFINE g == [w \in 1..L |-> F[w]]
    <3>2. ASSUME NEW w \in 1..L
          PROVE  g[w] = IF w = 1 THEN q[w] ELSE g[w - 1] \o q[w]
      <4>1. F[w] = F[w - 1] \o q[w]
        BY <3>1 DEF IsJoining
      <4>2. CASE w = 1
        <5>1. q[1] \in Seq(S)
          BY <1>0, <1>2, ElementOfSeq
        <5>2. F[0] = << >> /\ << >> \o q[1] = q[1]
          BY <3>1, <5>1, ConcatEmptySeq DEF IsJoining
        <5>5. w - 1 = 0
          BY <4>2
        <5>3. F[1] = F[0] \o q[1]
          BY <4>1, <4>2, <5>5, Zenon
        <5>4. g[1] = q[1]
          BY <4>2, <5>2, <5>3
        <5> QED
          BY <4>2, <5>4
      <4>3. CASE w # 1
        <5>1. w - 1 \in 1..L
          BY <1>0, <4>3
        <5> QED
          BY <4>1, <4>3, <5>1
      <4> QED
        BY <4>2, <4>3
    <3>3. g = [w \in 1..L |-> g[w]]
      OBVIOUS
    <3> HIDE DEF g
    <3>4. IsFlatten(g)
      BY <3>2, <3>3
    <3> QED
      BY <3>4
  <2>2. IsFlatten(flatten)
    BY <2>1
  <2>3. FlattenSeq(q) = flatten[L]
    BY <1>2 DEF FlattenSeq
  <2> HIDE DEF flatten
  <2> DEFINE F == [m \in 0..L |-> IF m = 0 THEN << >> ELSE flatten[m]]
  <2>4. F[0] = << >> /\ \A m \in 1..L : F[m] = flatten[m]
    BY <1>0
  <2> HIDE DEF F
  <2>5. ASSUME NEW m \in 1..L
        PROVE  F[m] = F[m - 1] \o q[m]
    <3>1. flatten[m] = IF m = 1 THEN q[m] ELSE flatten[m - 1] \o q[m]
      BY <2>2
    <3>2. CASE m = 1
      <4>1. q[1] \in Seq(S)
        BY <1>0, <1>2, ElementOfSeq
      <4>2. << >> \o q[1] = q[1]
        BY <4>1, ConcatEmptySeq
      <4>3. F[0] \o q[1] = q[1] /\ F[1] = q[1]
        BY <2>4, <3>1, <3>2, <4>2
      <4>4. m - 1 = 0
        BY <3>2
      <4> QED
        BY <3>2, <4>3, <4>4
    <3>3. CASE m # 1
      <4>1. m - 1 \in 1..L
        BY <1>0, <3>3
      <4> QED
        BY <2>4, <3>1, <3>3, <4>1
    <3> QED
      BY <3>2, <3>3
  <2>6. IsJoining(F, q, L)
    BY <2>4, <2>5 DEF IsJoining
  <2>7. FlattenSeq(q) = F[L]
    BY <1>0, <1>2, <2>3, <2>4
  <2> QED
    BY <2>6, <2>7
<1> QED
  BY <1>1, <1>2

\* The parts are in the whole one after the other: part m is after the first
\* e[m - 1] elements and ends with the e[m]-th.
AreEnds(e, q, r) ==
    /\ e \in [0..Len(q) -> 0..Len(r)]
    /\ e[0] = 0 /\ e[Len(q)] = Len(r)
    /\ \A m \in 1..Len(q) :
        /\ e[m] = e[m - 1] + Len(q[m])
        /\ \A j \in 1..Len(q[m]) : r[e[m - 1] + j] = q[m][j]

\* Sequences that are joined keep their places: their ends add up.
LEMMA PartsInPlace ==
  ASSUME NEW S, NEW q \in Seq(Seq(S))
  PROVE  FlattenSeq(q) \in Seq(S) /\ \E e : AreEnds(e, q, FlattenSeq(q))
<1> DEFINE L == Len(q)
           r == FlattenSeq(q)
<1>0. L \in Nat
  BY LenProperties
<1>1. PICK F : IsJoining(F, q, L) /\ r = F[L]
  BY FlattenIsJoining
<1>2. \A m \in 0..L : F[m] \in Seq(S) /\ Len(F[m]) \in Nat
  BY <1>1, JoiningType, LenProperties
<1>3. r \in Seq(S) /\ Len(r) \in Nat
  BY <1>0, <1>1, <1>2
<1>4. ASSUME NEW m \in 1..L
      PROVE  /\ m - 1 \in 0..L /\ m \in 0..L /\ q[m] \in Seq(S) /\ Len(q[m]) \in Nat
             /\ Len(F[m]) = Len(F[m - 1]) + Len(q[m])
             /\ \A j \in 1..Len(F[m - 1]) : F[m][j] = F[m - 1][j]
             /\ \A j \in 1..Len(q[m]) : F[m][Len(F[m - 1]) + j] = q[m][j]
  <2>1. m - 1 \in 0..L /\ m \in 0..L
    BY <1>0
  <2>2. q[m] \in Seq(S) /\ Len(q[m]) \in Nat
    BY <1>0, ElementOfSeq, LenProperties
  <2>3. F[m] = F[m - 1] \o q[m] /\ F[m - 1] \in Seq(S) /\ Len(F[m - 1]) \in Nat
    BY <1>1, <1>2, <2>1 DEF IsJoining
  <2> DEFINE s1 == F[m - 1]
             s2 == q[m]
             s3 == F[m]
  <2>4. s1 \in Seq(S) /\ s2 \in Seq(S) /\ s3 = s1 \o s2 /\ Len(s1) \in Nat /\ Len(s2) \in Nat
    BY <2>2, <2>3
  <2> HIDE DEF s1, s2, s3
  <2>5. /\ Len(s3) = Len(s1) + Len(s2)
        /\ \A w \in 1..(Len(s1) + Len(s2)) : s3[w] = IF w <= Len(s1) THEN s1[w] ELSE s2[w - Len(s1)]
    BY <2>4, ConcatProperties
  <2>6. \A j \in 1..Len(s1) : s3[j] = s1[j]
    BY <2>4, <2>5
  <2>7. ASSUME NEW j \in 1..Len(s2)
        PROVE  s3[Len(s1) + j] = s2[j]
    <3>1. Len(s1) + j \in 1..(Len(s1) + Len(s2)) /\ ~(Len(s1) + j <= Len(s1))
          /\ (Len(s1) + j) - Len(s1) = j
      BY <2>4
    <3> QED
      BY <2>5, <3>1
  <2>8. /\ Len(F[m]) = Len(F[m - 1]) + Len(q[m])
        /\ \A j \in 1..Len(F[m - 1]) : F[m][j] = F[m - 1][j]
        /\ \A j \in 1..Len(q[m]) : F[m][Len(F[m - 1]) + j] = q[m][j]
    BY <2>5, <2>6, <2>7 DEF s1, s2, s3
  <2> QED
    BY <2>1, <2>2, <2>8
\* what is joined stays at the front, whatever follows
<1>5. ASSUME NEW m \in 0..L
      PROVE  Len(F[m]) <= Len(r) /\ \A j \in 1..Len(F[m]) : r[j] = F[m][j]
  <2> DEFINE Kept(k) == Len(F[m]) <= Len(F[k]) /\ \A j \in 1..Len(F[m]) : F[k][j] = F[m][j]
             T == {d \in Nat : m + d <= L => Kept(m + d)}
  <2>1. Kept(m)
    BY <1>2
  <2>2. ASSUME NEW k \in 1..L, Kept(k - 1)
        PROVE  Kept(k)
    <3> DEFINE a == Len(F[m])
               b == Len(F[k - 1])
               c == Len(F[k])
    <3>1. a \in Nat /\ b \in Nat /\ c \in Nat /\ a <= b /\ b <= c
      <4>1. k - 1 \in 0..L /\ k \in 0..L /\ Len(q[k]) \in Nat /\ c = b + Len(q[k])
        BY <1>4
      <4>2. a \in Nat /\ b \in Nat /\ c \in Nat /\ a <= b
        BY <1>2, <2>2, <4>1
      <4> HIDE DEF a, b, c
      <4> QED
        BY <4>1, <4>2
    <3>2. /\ \A j \in 1..b : F[k][j] = F[k - 1][j]
          /\ \A j \in 1..a : F[k - 1][j] = F[m][j]
      BY <1>4, <2>2
    <3> HIDE DEF a, b, c
    <3>3. a <= c /\ \A j \in 1..a : F[k][j] = F[m][j]
      BY <3>1, <3>2
    <3> QED
      BY <3>3 DEF a, c
  <2> HIDE DEF Kept
  <2>3. 0 \in T
    BY <2>1
  <2>4. ASSUME NEW d \in Nat, d \in T
        PROVE  d + 1 \in T
    <3>1. CASE m + (d + 1) <= L
      <4>1. m + (d + 1) \in 1..L /\ (m + (d + 1)) - 1 = m + d /\ m + d <= L
        BY <1>0, <3>1
      <4>2. Kept((m + (d + 1)) - 1)
        BY <2>4, <4>1
      <4>3. Kept(m + (d + 1))
        BY <2>2, <4>1, <4>2
      <4> QED
        BY <4>3
    <3> QED
      BY <3>1
  <2> HIDE DEF T
  <2>5. Nat \subseteq T
    BY <2>3, <2>4, SetInduction
  <2>6. PICK d \in Nat : m + d = L
    <3>1. L - m \in Nat /\ m + (L - m) = L
      BY <1>0
    <3> QED
      BY <3>1
  <2>7. m + d <= L => Kept(m + d)
    BY <2>5 DEF T
  <2>9. m + d <= L
    BY <1>0, <2>6
  <2>8. Kept(L)
    BY <2>6, <2>7, <2>9, Zenon
  <2> QED
    BY <1>1, <2>8 DEF Kept
<1> DEFINE e == [m \in 0..L |-> Len(F[m])]
<1>6. e[0] = 0 /\ e[L] = Len(r)
  <2>1. Len(<< >>) = 0
    BY EmptySeq
  <2> QED
    BY <1>0, <1>1, <2>1 DEF IsJoining
<1>7. e \in [0..L -> 0..Len(r)]
  BY <1>2, <1>3, <1>5
<1>8. ASSUME NEW m \in 1..L
      PROVE  e[m] = e[m - 1] + Len(q[m])
  BY <1>4
<1>9. ASSUME NEW m \in 1..L, NEW j \in 1..Len(q[m])
      PROVE  r[e[m - 1] + j] = q[m][j]
  <2>1. /\ e[m - 1] = Len(F[m - 1]) /\ m \in 0..L /\ Len(q[m]) \in Nat
        /\ Len(F[m - 1]) \in Nat /\ Len(F[m]) = Len(F[m - 1]) + Len(q[m])
        /\ F[m][Len(F[m - 1]) + j] = q[m][j]
    BY <1>2, <1>4
  <2>2. Len(F[m - 1]) + j \in 1..Len(F[m])
    <3> DEFINE a == Len(F[m - 1])
               b == Len(q[m])
               c == Len(F[m])
    <3>1. a \in Nat /\ b \in Nat /\ c = a + b /\ j \in 1..b
      BY <2>1
    <3> HIDE DEF a, b, c
    <3>2. a + j \in 1..c
      BY <3>1
    <3> QED
      BY <3>2 DEF a, c
  <2>3. r[Len(F[m - 1]) + j] = F[m][Len(F[m - 1]) + j]
    BY <1>5, <2>1, <2>2
  <2> QED
    BY <2>1, <2>3
<1> HIDE DEF e
<1>10. AreEnds(e, q, r)
  BY <1>6, <1>7, <1>8, <1>9 DEF AreEnds
<1> QED
  BY <1>3, <1>10


-------------------------------------------------------------------------------
\* The turn of collectargs() at argument n, given what the later ones give.
Turn(g, a, n, f) ==
    IF n > Len(a) THEN Collected(n, f)
    ELSE CASE a[n].head \in {"word", "-"} -> Collected(n, f)
           [] a[n].head = "--" -> IF a[n].tail = "" THEN Collected(n + 1, f) ELSE Collected(0, f)
           [] a[n].head = "-i" -> IF a[n].tail = "" THEN g[n + 1][f \cup {"INTERACTIVE", "VERSION"}]
                                  ELSE Collected(0, f)
           [] a[n].head = "-v" -> IF a[n].tail = "" THEN g[n + 1][f \cup {"VERSION"}] ELSE Collected(0, f)
           [] a[n].head \in {"-e", "-l", "-j"} ->
                IF a[n].tail = "" /\ n = Len(a) THEN Collected(0, f)
                ELSE g[IF a[n].tail = "" THEN n + 2 ELSE n + 1]
                      [f \cup ({"OPTION"} \cup (IF a[n].head = "-e" THEN {"EXEC"} ELSE {}))]
           [] a[n].head = "-O" -> g[n + 1][f \cup {}]
           [] a[n].head = "-b" -> IF f = {} THEN Collected(n + 1, {"EXEC"}) ELSE Collected(0, f)
           [] a[n].head = "-E" -> g[n + 1][f \cup {"NOENV"}]
           [] OTHER -> Collected(0, f)

\* g is right from argument n on.
CollectsFrom(g, a, n) == \A m \in n..Len(a) + 1, f \in SUBSET Flags : g[m][f] = Turn(g, a, m, f)

\* A turn looks only at the arguments behind the one it is at.
LEMMA TurnDepends ==
  ASSUME NEW a, Len(a) \in Nat, NEW n \in 1..Len(a) + 1, NEW f \in SUBSET Flags, NEW g, NEW h,
         \A m \in n + 1..Len(a) + 1, e \in SUBSET Flags : g[m][e] = h[m][e]
  PROVE  Turn(g, a, n, f) = Turn(h, a, n, f)
<1>1. CASE n > Len(a)
  BY <1>1 DEF Turn
<1>2. CASE n <= Len(a)
  <2>1. \A e \in SUBSET Flags : g[n + 1][e] = h[n + 1][e]
    BY <1>2
  <2>2. n # Len(a) => \A e \in SUBSET Flags : g[n + 2][e] = h[n + 2][e]
    BY <1>2
  <2>3. \A e \in SUBSET Flags : f \cup e \in SUBSET Flags
    OBVIOUS
  <2>4. /\ {"INTERACTIVE", "VERSION"} \in SUBSET Flags /\ {"VERSION"} \in SUBSET Flags
        /\ {"NOENV"} \in SUBSET Flags /\ {} \in SUBSET Flags
        /\ {"OPTION"} \cup {"EXEC"} \in SUBSET Flags /\ {"OPTION"} \cup {} \in SUBSET Flags
    BY DEF Flags
  <2> QED
    BY <1>2, <2>1, <2>2, <2>3, <2>4 DEF Turn
<1> QED
  BY <1>1, <1>2

\* Such a function exists: induction from the last argument to the first.
LEMMA CollectsExist ==
  ASSUME NEW a, Len(a) \in Nat
  PROVE  \E g : CollectsFrom(g, a, 1)
<1> DEFINE N == Len(a)
           S == {d \in Nat : d <= N => \E g : CollectsFrom(g, a, N + 1 - d)}
<1>1. 0 \in S
  <2> DEFINE g == [m \in {N + 1} |-> [f \in SUBSET Flags |-> Collected(N + 1, f)]]
  <2>1. \A f \in SUBSET Flags : g[N + 1][f] = Collected(N + 1, f)
    OBVIOUS
  <2> HIDE DEF g
  <2>2. \A f \in SUBSET Flags : Turn(g, a, N + 1, f) = Collected(N + 1, f)
    <3>1. N + 1 > Len(a)
      OBVIOUS
    <3> QED
      BY <3>1, Zenon DEF Turn
  <2>3. \A m \in (N + 1)..(N + 1) : m = N + 1
    OBVIOUS
  <2>4. CollectsFrom(g, a, N + 1)
    BY <2>1, <2>2, <2>3 DEF CollectsFrom
  <2> QED
    BY <2>4
<1>2. ASSUME NEW d \in Nat, d \in S
      PROVE  d + 1 \in S
  <2> SUFFICES ASSUME d + 1 <= N
               PROVE  \E g : CollectsFrom(g, a, N + 1 - (d + 1))
    BY DEF S
  <2> DEFINE n == N + 1 - (d + 1)
  <2>1. n \in 1..N /\ N + 1 - d = n + 1
    OBVIOUS
  <2>2. PICK g : CollectsFrom(g, a, n + 1)
    <3>1. d <= N
      OBVIOUS
    <3> QED
      BY <1>2, <2>1, <3>1
  <2> DEFINE v == [f \in SUBSET Flags |-> Turn(g, a, n, f)]
  <2> HIDE DEF v
  <2> DEFINE h == [m \in n..(N + 1) |-> IF m = n THEN v ELSE g[m]]
  <2>3. h[n] = v /\ \A m \in (n + 1)..(N + 1) : h[m] = g[m]
    BY <2>1
  <2> HIDE DEF h, n
  <2>4. ASSUME NEW m \in n..(N + 1), NEW f \in SUBSET Flags
        PROVE  h[m][f] = Turn(h, a, m, f)
    <3>1. m \in 1..(N + 1) /\ \A k \in (m + 1)..(N + 1) : k \in (n + 1)..(N + 1)
      BY <2>1
    <3>2. \A k \in (m + 1)..(N + 1), e \in SUBSET Flags : h[k][e] = g[k][e]
      BY <2>3, <3>1
    <3>3. Turn(h, a, m, f) = Turn(g, a, m, f)
      BY <3>1, <3>2, TurnDepends
    <3>4. CASE m = n
      BY <2>3, <3>3, <3>4 DEF v
    <3>5. CASE m # n
      <4>1. m \in (n + 1)..(N + 1)
        BY <2>1, <3>5
      <4> QED
        BY <2>2, <2>3, <3>3, <4>1 DEF CollectsFrom
    <3> QED
      BY <3>4, <3>5
  <2>5. CollectsFrom(h, a, n)
    BY <2>4 DEF CollectsFrom
  <2> QED
    BY <2>5 DEF n
<1> HIDE DEF S
<1>3. Nat \subseteq S
  BY <1>1, <1>2, SetInduction
<1>4. N \in S /\ N + 1 - N = 1
  BY <1>3
<1> QED
  BY <1>4 DEF S

\* collectargs() takes these turns, from the first argument on.
LEMMA CollectIsTurns ==
  ASSUME NEW a, Len(a) \in Nat
  PROVE  \E g : CollectsFrom(g, a, 1) /\ collectargs(a) = g[1][{}]
<1> DEFINE IsCollect(c) == c = [m \in 1..Len(a) + 1 |-> [f \in SUBSET Flags |-> Turn(c, a, m, f)]]
           collect == CHOOSE c : IsCollect(c)
<1>1. \E c : IsCollect(c)
  <2>1. PICK g : CollectsFrom(g, a, 1)
    BY CollectsExist
  <2> DEFINE c == [m \in 1..Len(a) + 1 |-> [f \in SUBSET Flags |-> g[m][f]]]
  <2>2. \A m \in 1..Len(a) + 1, f \in SUBSET Flags : c[m][f] = g[m][f]
    OBVIOUS
  <2>3. c = [m \in 1..Len(a) + 1 |-> c[m]] /\ \A m \in 1..Len(a) + 1 : c[m] = [f \in SUBSET Flags |-> c[m][f]]
    OBVIOUS
  <2> HIDE DEF c
  <2>4. ASSUME NEW m \in 1..Len(a) + 1, NEW f \in SUBSET Flags
        PROVE  c[m][f] = Turn(c, a, m, f)
    <3>1. \A k \in (m + 1)..Len(a) + 1 : k \in 1..Len(a) + 1
      OBVIOUS
    <3>2. Turn(c, a, m, f) = Turn(g, a, m, f)
      BY <2>2, <3>1, TurnDepends
    <3> QED
      BY <2>1, <2>2, <3>2 DEF CollectsFrom
  <2>5. \A m \in 1..Len(a) + 1 : c[m] = [f \in SUBSET Flags |-> Turn(c, a, m, f)]
    BY <2>3, <2>4
  <2>6. IsCollect(c)
    BY <2>3, <2>5
  <2> QED
    BY <2>6
<1>2. IsCollect(collect)
  BY <1>1
<1>3. collectargs(a) = collect[1][{}]
  BY Zenon DEF collectargs, Turn
<1> HIDE DEF collect
<1>4. \A m \in 1..Len(a) + 1, f \in SUBSET Flags : collect[m][f] = Turn(collect, a, m, f)
  BY <1>2
<1> QED
  BY <1>3, <1>4 DEF CollectsFrom

-------------------------------------------------------------------------------
(***************************************************************************)
(* The arguments of a command: those of each option, then the others.      *)
(***************************************************************************)
Parts(c) == [k \in DOMAIN c.options |-> Written(c.options[k])]
\* Where the arguments of each option end, and what comes after the last.
EndsOf(c) == CHOOSE e : AreEnds(e, Parts(c), FlattenSeq(Parts(c)))
Trailing(c) == (IF c.dashes THEN <<Dashes>> ELSE << >>)
               \o (IF c.script = Nothing THEN << >> ELSE <<c.script>>) \o c.rest
\* An operand that is the next argument; the argument of the option itself.
Separate(o) == o.operand # Nothing /\ ~o.joined
First(o) == Arg(o.opt, IF o.joined THEN o.operand.tail ELSE "")
\* a set with all of them
Words(c) == Argument \cup {Dashes} \cup {Arg(c.options[k].opt, "") : k \in DOMAIN c.options}
            \cup {Arg(c.options[k].opt, c.options[k].operand.tail) : k \in DOMAIN c.options}

\* The arguments a of the command c, whose options end at e.
Laid(c, e, a) ==
    /\ Len(c.options) \in Nat /\ DOMAIN c.options = 1..Len(c.options)
    /\ e \in [0..Len(c.options) -> Nat] /\ e[0] = 0
    /\ a \in Seq(Words(c))
    /\ \A k \in 1..Len(c.options) :
        LET o == c.options[k]
        IN /\ e[k] = e[k - 1] + (IF Separate(o) THEN 2 ELSE 1)
           /\ e[k] <= Len(a)
           /\ a[e[k - 1] + 1] = First(o)
           /\ Separate(o) => a[e[k - 1] + 2] = o.operand
    /\ Len(a) = e[Len(c.options)] + Len(Trailing(c))
    /\ \A j \in 1..Len(Trailing(c)) : a[e[Len(c.options)] + j] = Trailing(c)[j]

\* An option is one argument, or two when its operand is separate.
LEMMA WrittenAs ==
  ASSUME NEW o
  PROVE  /\ o.operand = Nothing => Written(o) = <<First(o)>> /\ ~Separate(o)
         /\ o.operand # Nothing /\ o.joined => Written(o) = <<First(o)>> /\ ~Separate(o)
         /\ o.operand # Nothing /\ ~o.joined => Written(o) = <<First(o), o.operand>> /\ Separate(o)
         /\ First(o) \in {Arg(o.opt, o.operand.tail), Arg(o.opt, "")}
<1>1. First(o) = IF o.joined THEN Arg(o.opt, o.operand.tail) ELSE Arg(o.opt, "")
  BY Zenon DEF First
<1>2. ASSUME o.operand = Nothing
      PROVE  Written(o) = <<First(o)>> /\ ~Separate(o)
  <2>2. Nothing.tail = ""
    BY DEF Nothing, Arg
  <2>4. <<Arg(o.opt, o.operand.tail)>> = <<Arg(o.opt, "")>>
    BY <1>2, <2>2, Zenon
  <2>1. Written(o) = <<Arg(o.opt, "")>>
    BY <1>2, <2>4, Zenon DEF Written
  <2>3. First(o) = Arg(o.opt, "")
    BY <1>1, <1>2, <2>2, Zenon
  <2> QED
    BY <1>2, <2>1, <2>3, Zenon DEF Separate
<1>3. ASSUME o.operand # Nothing, o.joined
      PROVE  Written(o) = <<First(o)>> /\ ~Separate(o)
  BY <1>1, <1>3, Zenon DEF Written, Separate
<1>4. ASSUME o.operand # Nothing, ~o.joined
      PROVE  Written(o) = <<First(o), o.operand>> /\ Separate(o)
  BY <1>1, <1>4, Zenon DEF Written, Separate
<1> QED
  BY <1>1, <1>2, <1>3, <1>4, Zenon

\* What is written of an option of a command.
LEMMA WrittenIs ==
  ASSUME NEW c, WellWritten(c), NEW k \in DOMAIN c.options
  PROVE  LET o == c.options[k]
             w == Written(o)
         IN /\ w \in Seq(Words(c)) /\ Len(w) = (IF Separate(o) THEN 2 ELSE 1)
            /\ w[1] = First(o) /\ (Separate(o) => w[2] = o.operand)
<1> DEFINE O == [opt : STRING, operand : Argument, joined : BOOLEAN]
           o == c.options[k]
<1>1. o \in O
  <2>1. c.options \in Seq(O)
    BY Zenon DEF WellWritten
  <2> HIDE DEF O
  <2>2. k \in 1..Len(c.options)
    BY <2>1, LenProperties
  <2> QED
    BY <2>1, <2>2, ElementOfSeq
<1> HIDE DEF o
<1>2. o.opt \in STRING /\ o.operand \in Argument /\ o.joined \in BOOLEAN
  BY <1>1
<1>4. First(o) \in Words(c) /\ o.operand \in Words(c)
  <2>1. /\ Arg(o.opt, "") \in Words(c) /\ Arg(o.opt, o.operand.tail) \in Words(c)
        /\ o.operand \in Words(c)
    BY <1>2, Zenon DEF Words, o
  <2> QED
    BY <2>1, WrittenAs, Zenon
<1> HIDE DEF O
<1> DEFINE w == Written(o)
           x == First(o)
           y == o.operand
           sep == Separate(o)
<1>5. (w = <<x>> /\ ~sep) \/ (w = <<x, y>> /\ sep)
  BY WrittenAs, Zenon
<1>6. x \in Words(c) /\ y \in Words(c)
  BY <1>4
<1> HIDE DEF w, x, y, sep
<1>7. CASE w = <<x>> /\ ~sep
  <2>1. w \in Seq(Words(c)) /\ Len(w) = 1 /\ w[1] = x
    BY <1>6, <1>7
  <2> QED
    BY <1>7, <2>1 DEF w, x, y, sep, o
<1>8. CASE w = <<x, y>> /\ sep
  <2>1. w \in Seq(Words(c)) /\ Len(w) = 2 /\ w[1] = x /\ w[2] = y
    BY <1>6, <1>8
  <2> QED
    BY <1>8, <2>1 DEF w, x, y, sep, o
<1> QED
  BY <1>5, <1>7, <1>8

\* Argv puts them there.
LEMMA ArgvIsLaid ==
  ASSUME NEW c, WellWritten(c)
  PROVE  Laid(c, EndsOf(c), Argv(c))
<1> DEFINE O == [opt : STRING, operand : Argument, joined : BOOLEAN]
           n == Len(c.options)
           q == Parts(c)
           s == FlattenSeq(q)
           e == EndsOf(c)
           t == Trailing(c)
           a == Argv(c)
<1>1. n \in Nat /\ DOMAIN c.options = 1..n
  <2>1. c.options \in Seq(O)
    BY Zenon DEF WellWritten
  <2> QED
    BY <2>1
<1>2. \A k \in 1..n : q[k] = Written(c.options[k])
  BY <1>1 DEF Parts
<1>3. q \in Seq(Seq(Words(c))) /\ Len(q) = n
  <2>1. \A k \in 1..n : Written(c.options[k]) \in Seq(Words(c))
    BY <1>1, WrittenIs
  <2>2. q = [k \in 1..n |-> Written(c.options[k])]
    BY <1>1 DEF Parts
  <2> QED
    BY <1>1, <2>1, <2>2
<1>4. s \in Seq(Words(c)) /\ AreEnds(e, q, s)
  <2>1. s \in Seq(Words(c)) /\ \E f : AreEnds(f, q, s)
    BY <1>3, PartsInPlace
  <2> QED
    BY <2>1 DEF EndsOf
<1> DEFINE W == Words(c)
           u == IF c.dashes THEN <<Dashes>> ELSE << >>
           v == IF c.script = Nothing THEN << >> ELSE <<c.script>>
           z == c.rest
<1>5. u \in Seq(W) /\ v \in Seq(W) /\ z \in Seq(W)
  <2>1. c.script \in Argument /\ c.rest \in Seq(Argument)
    BY Zenon DEF WellWritten
  <2>2. Argument \subseteq W /\ Dashes \in W
    BY Zenon DEF Words
  <2> HIDE DEF W
  <2>3. z \in Seq(W) /\ c.script \in W
    <3> HIDE DEF z
    <3>1. z \in Seq(Argument)
      BY <2>1 DEF z
    <3>2. z \in Seq(W)
      BY <2>2, <3>1, SeqMonotonic
    <3> QED
      BY <2>1, <2>2, <3>2
  <2>4. u \in Seq(W)
    BY <2>2
  <2>5. v \in Seq(W)
    BY <2>3
  <2> QED
    BY <2>3, <2>4, <2>5
<1>6. t \in Seq(W) /\ a = s \o t
  <2>3. a = ((s \o u) \o v) \o z /\ t = (u \o v) \o z
    BY Zenon DEF Argv, Trailing, Parts
  <2>1. s \in Seq(W)
    BY <1>4
  <2> HIDE DEF u, v, z, s, t, a, W
  <2>4. u \o v \in Seq(W) /\ s \o u \in Seq(W) /\ (u \o v) \o z \in Seq(W)
    BY <1>5, <2>1, ConcatProperties
  <2>5. (s \o u) \o v = s \o (u \o v)
    BY <1>5, <2>1, ConcatAssociative
  <2>6. (s \o (u \o v)) \o z = s \o ((u \o v) \o z)
    BY <1>5, <2>1, <2>4, ConcatAssociative
  <2> QED
    BY <2>3, <2>4, <2>5, <2>6, Zenon
<1> HIDE DEF u, v, z
<1> HIDE DEF q, s, e, t, a
<1>7. /\ a \in Seq(Words(c)) /\ Len(a) = Len(s) + Len(t) /\ Len(s) \in Nat /\ Len(t) \in Nat
      /\ \A j \in 1..Len(s) : a[j] = s[j]
      /\ \A j \in 1..Len(t) : a[Len(s) + j] = t[j]
  <2>1. /\ a \in Seq(Words(c)) /\ Len(a) = Len(s) + Len(t) /\ Len(s) \in Nat /\ Len(t) \in Nat
        /\ \A j \in 1..(Len(s) + Len(t)) : a[j] = IF j <= Len(s) THEN s[j] ELSE t[j - Len(s)]
    BY <1>4, <1>5, <1>6, ConcatProperties, LenProperties
  <2>2. \A j \in 1..Len(s) : a[j] = s[j]
    BY <2>1
  <2>3. ASSUME NEW j \in 1..Len(t)
        PROVE  a[Len(s) + j] = t[j]
    <3>1. Len(s) + j \in 1..(Len(s) + Len(t)) /\ ~(Len(s) + j <= Len(s)) /\ (Len(s) + j) - Len(s) = j
      BY <2>1
    <3> QED
      BY <2>1, <3>1
  <2> QED
    BY <2>1, <2>2, <2>3
<1>8. /\ e \in [0..n -> 0..Len(s)] /\ e[0] = 0 /\ e[n] = Len(s)
      /\ \A k \in 1..n : /\ e[k] = e[k - 1] + Len(q[k])
                         /\ \A j \in 1..Len(q[k]) : s[e[k - 1] + j] = q[k][j]
  BY <1>3, <1>4 DEF AreEnds
<1>9. e \in [0..n -> Nat]
  BY <1>8
<1>10. ASSUME NEW k \in 1..n
       PROVE  LET o == c.options[k]
              IN /\ e[k] = e[k - 1] + (IF Separate(o) THEN 2 ELSE 1)
                 /\ e[k] <= Len(a)
                 /\ a[e[k - 1] + 1] = First(o)
                 /\ Separate(o) => a[e[k - 1] + 2] = o.operand
  <2> DEFINE o == c.options[k]
             w == q[k]
             l == e[k - 1]
             m == e[k]
             ns == Len(s)
             nt == Len(t)
  <2>0. q[k] = Written(c.options[k]) /\ k \in DOMAIN c.options
    BY <1>1, <1>2
  <2>1. /\ Len(w) = (IF Separate(o) THEN 2 ELSE 1)
        /\ w[1] = First(o) /\ (Separate(o) => w[2] = o.operand)
    BY <2>0, WrittenIs, Zenon
  <2>2. /\ m = l + Len(w) /\ \A j \in 1..Len(w) : s[l + j] = w[j]
        /\ m \in 0..ns /\ l \in 0..ns
    <3>1. k \in 0..n /\ k - 1 \in 0..n
      BY <1>1
    <3> QED
      BY <1>8, <3>1
  <2>3. ns \in Nat /\ nt \in Nat /\ Len(a) = ns + nt /\ \A j \in 1..ns : a[j] = s[j]
    BY <1>7
  <2> SUFFICES /\ m = l + (IF Separate(o) THEN 2 ELSE 1)
               /\ m <= Len(a)
               /\ a[l + 1] = First(o)
               /\ Separate(o) => a[l + 2] = o.operand
    OBVIOUS
  <2> HIDE DEF o, w, l, m, ns, nt
  <2>4. CASE Separate(o)
    <3>1. Len(w) = 2 /\ w[1] = First(o) /\ w[2] = o.operand
      BY <2>1, <2>4
    <3>2. m = l + 2 /\ s[l + 1] = w[1] /\ s[l + 2] = w[2]
      BY <2>2, <3>1
    <3>3. l + 1 \in 1..ns /\ l + 2 \in 1..ns /\ m <= ns + nt
      BY <2>2, <2>3, <3>2
    <3> QED
      BY <2>3, <2>4, <3>1, <3>2, <3>3
  <2>5. CASE ~Separate(o)
    <3>1. Len(w) = 1 /\ w[1] = First(o)
      BY <2>1, <2>5
    <3>2. m = l + 1 /\ s[l + 1] = w[1]
      BY <2>2, <3>1
    <3>3. l + 1 \in 1..ns /\ m <= ns + nt
      BY <2>2, <2>3, <3>2
    <3> QED
      BY <2>3, <2>5, <3>1, <3>2, <3>3
  <2> QED
    BY <2>4, <2>5
<1>11. Laid(c, e, a) <=> Laid(c, EndsOf(c), Argv(c))
  BY DEF e, a
<1>12. Len(t) = Len(Trailing(c)) /\ \A j : t[j] = Trailing(c)[j]
  BY DEF t
<1> QED
  BY <1>1, <1>7, <1>8, <1>9, <1>10, <1>11, <1>12 DEF Laid

-------------------------------------------------------------------------------
(***************************************************************************)
(* Both passes over the arguments, option by option.                        *)
(***************************************************************************)
Takes == TakesNext
Opts == TakesNext \cup {"-O", "-i", "-v", "-E", "-b", "-x"}
Place(c, k) == EndsOf(c)[k - 1] + 1     \* of option k

\* What is written of option k, and where.
OptionAt(c, k) ==
    LET o == c.options[k]
        p == Place(c, k)
        a == Argv(c)
        whole == a[p].tail = ""
    IN /\ p \in 1..Len(a) /\ EndsOf(c)[k] + 1 = (IF Separate(o) THEN p + 2 ELSE p + 1)
       /\ EndsOf(c)[k] + 1 \in 1..Len(a) + 1
       /\ o.opt \in Opts
       /\ a[p].head = o.opt /\ (whole <=> o.operand = Nothing \/ Separate(o))
       /\ Separate(o) => o.opt \in TakesNext /\ p + 1 \in 1..Len(a) /\ a[p + 1] = o.operand
       /\ ~whole => o.operand = Word(a[p].tail)
       /\ o.opt \in TakesNext /\ o.operand = Nothing => p = Len(a)
       /\ o.opt = "-b" => k = Len(c.options)

\* Each option is found where the ones before it end.
LEMMA OptionsAt ==
  ASSUME NEW c, WellWritten(c), NEW k \in 1..Len(c.options)
  PROVE  OptionAt(c, k)
<1> DEFINE o == c.options[k]
           p == Place(c, k)
           a == Argv(c)
           e == EndsOf(c)
           n == Len(c.options)
           d == EndsOf(c)[k]
<1>1. Laid(c, e, a)
  BY ArgvIsLaid
<1>2. n \in Nat /\ DOMAIN c.options = 1..n /\ e \in [0..n -> Nat] /\ Len(a) \in Nat
  <2> HIDE DEF e, a
  <2> QED
    BY <1>1, LenProperties DEF Laid
<1>3. /\ e[k] = e[k - 1] + (IF Separate(o) THEN 2 ELSE 1)
      /\ e[k] <= Len(a)
      /\ a[e[k - 1] + 1] = First(o)
      /\ Separate(o) => a[e[k - 1] + 2] = o.operand
  <2> HIDE DEF e, a
  <2> QED
    BY <1>1, Zenon DEF Laid
<1>4. e[k - 1] \in Nat
  <2> HIDE DEF e
  <2> QED
    BY <1>2
<1>5. /\ o.opt \in Opts
      /\ \/ o.operand = Nothing
         \/ o.joined /\ o.operand = Word(o.operand.tail) /\ o.operand.tail # ""
         \/ ~o.joined /\ o.opt \in TakesNext
      /\ o.opt = "-b" => k = n
      /\ o.opt \in TakesNext /\ o.operand = Nothing => k = n /\ ~c.dashes /\ c.script = Nothing
  <2>1. k \in DOMAIN c.options
    BY <1>2, Zenon
  <2> QED
    BY <2>1, Zenon DEF WellWritten, Opts
<1>6. p = e[k - 1] + 1
  BY DEF Place
<1>7. ASSUME k = n, ~c.dashes, c.script = Nothing
      PROVE  Len(a) = e[n]
  <2>1. c.rest = << >>
    BY <1>7, Zenon DEF WellWritten
  <2>2. Trailing(c) = (<< >> \o << >>) \o << >>
    BY <1>7, <2>1, Zenon DEF Trailing
  <2>3. Len(Trailing(c)) = 0
    BY <2>2
  <2>4. Len(a) = e[n] + Len(Trailing(c))
    <3> HIDE DEF e, a
    <3> QED
      BY <1>1, Zenon DEF Laid
  <2>5. e[n] \in Nat
    <3> HIDE DEF e
    <3> QED
      BY <1>2
  <2> HIDE DEF e, a, n
  <2> QED
    BY <2>3, <2>4, <2>5
<1>8. First(o).head = o.opt /\ First(o).tail = (IF o.joined THEN o.operand.tail ELSE "")
  <2> HIDE DEF o
  <2> QED
    BY DEF First, Arg
<1>9. Nothing.tail = ""
  BY DEF Nothing, Arg
<1>10. /\ First(o).tail = "" <=> o.operand = Nothing \/ Separate(o)
       /\ First(o).tail # "" => o.operand = Word(First(o).tail)
       /\ Separate(o) => o.opt \in TakesNext
       /\ Separate(o) => o.operand # Nothing
  <2> HIDE DEF o
  <2> QED
    BY <1>5, <1>8, <1>9, Zenon DEF Separate
<1> HIDE DEF o, a, p, e, n
<1>11. a[p] = First(o) /\ p \in Nat /\ p >= 1
  BY <1>3, <1>4, <1>6
<1>12. CASE Separate(o)
  <2>1. e[k] = p + 1 /\ p + 1 \in 1..Len(a) /\ p \in 1..Len(a) /\ a[p + 1] = o.operand
    <3>1. (e[k - 1] + 1) + 1 = e[k - 1] + 2
      BY <1>4
    <3> QED
      BY <1>2, <1>3, <1>4, <1>6, <1>12, <3>1
  <2>2. e[k] + 1 = p + 2 /\ e[k] + 1 \in 1..Len(a) + 1
    BY <1>2, <1>11, <2>1
  <2>3. o.operand # Nothing
    BY <1>10, <1>12
  <2> QED
    BY <1>5, <1>8, <1>10, <1>11, <1>12, <2>1, <2>2, <2>3, Zenon DEF OptionAt, o, p, a, e, n
<1>13. CASE ~Separate(o)
  <2>1. e[k] = p /\ p \in 1..Len(a)
    BY <1>2, <1>3, <1>4, <1>6, <1>11, <1>13
  <2>2. e[k] + 1 = p + 1 /\ e[k] + 1 \in 1..Len(a) + 1
    BY <1>2, <1>11, <2>1
  <2>3. o.opt \in TakesNext /\ o.operand = Nothing => p = Len(a)
    BY <1>5, <1>7, <2>1
  <2> QED
    BY <1>5, <1>8, <1>10, <1>11, <1>13, <2>1, <2>2, <2>3, Zenon DEF OptionAt, o, p, a, e, n
<1> QED
  BY <1>12, <1>13

\* What is wrong with option k.
Wrong(c, k) ==
    LET o == c.options[k]
    IN \/ o.opt = "-x"
       \/ o.opt \in {"-i", "-v"} /\ o.operand # Nothing
       \/ o.opt \in {"-e", "-l", "-j"} /\ o.operand = Nothing
       \/ o.opt = "-b" /\ \E n \in 1..k - 1 : c.options[n].opt # "-O"
\* The first k options are all -O, which sets no flag.
OnlyO(c, k) == \A n \in 1..k : c.options[n].opt = "-O"

\* The flags that an option adds.
Adds(opt) == CASE opt = "-i" -> {"INTERACTIVE", "VERSION"}
               [] opt = "-v" -> {"VERSION"}
               [] opt \in {"-e", "-l", "-j"} -> {"OPTION"} \cup (IF opt = "-e" THEN {"EXEC"} ELSE {})
               [] opt = "-E" -> {"NOENV"}
               [] OTHER -> {}

\* What collectargs() does with option k, and the flags f it comes with.
ComesWith(c, k, f) == f \in SUBSET Flags /\ (f = {} <=> OnlyO(c, k - 1))
TurnsOn(c, g, k, f) ==
    LET opt == c.options[k].opt
        got == g[Place(c, k)][f]
    IN /\ Wrong(c, k) => got = Collected(0, f)
       /\ ~Wrong(c, k) /\ opt = "-b" => got = Collected(EndsOf(c)[k] + 1, {"EXEC"})
       /\ ~Wrong(c, k) /\ opt # "-b" => got = g[EndsOf(c)[k] + 1][f \cup Adds(opt)]
\* One turn is one option: it is refused when it is wrong, ends the walk when it is -b.
LEMMA TurnOfOption ==
  ASSUME NEW c, WellWritten(c), NEW k \in 1..Len(c.options), NEW g, CollectsFrom(g, Argv(c), 1),
         NEW f, ComesWith(c, k, f)
  PROVE  TurnsOn(c, g, k, f)
<1>0. f \in SUBSET Flags /\ (f = {} <=> OnlyO(c, k - 1))
  BY Zenon DEF ComesWith
<1> DEFINE o == c.options[k]
           p == Place(c, k)
           a == Argv(c)
           d == EndsOf(c)[k] + 1
           x == a[p]
           N == Len(a)
<1>1. OptionAt(c, k)
  BY OptionsAt
<1>2. /\ p \in 1..N /\ d = (IF Separate(o) THEN p + 2 ELSE p + 1)
      /\ o.opt \in Opts
      /\ x.head = o.opt /\ (x.tail = "" <=> o.operand = Nothing \/ Separate(o))
      /\ Separate(o) => o.opt \in TakesNext /\ p + 1 \in 1..N
      /\ o.opt \in TakesNext /\ o.operand = Nothing => p = N
  BY <1>1, Zenon DEF OptionAt
<1>3. N \in Nat
  <2>1. Laid(c, EndsOf(c), a)
    BY ArgvIsLaid
  <2> HIDE DEF a
  <2> QED
    BY <2>1, LenProperties DEF Laid
<1>4. p \in 1..N + 1 /\ ~(p > N) /\ (Separate(o) => p # N)
  <2>1. p \in 1..N /\ (Separate(o) => p + 1 \in 1..N)
    BY <1>2
  <2> HIDE DEF p, N, o
  <2> QED
    BY <1>3, <2>1
<1>5. g[p][f] = Turn(g, a, p, f)
  BY <1>0, <1>4, Zenon DEF CollectsFrom
<1>7. Separate(o) => o.operand # Nothing
  BY Zenon DEF Separate
<1>6. g[p][f] =
        CASE x.head \in {"word", "-"} -> Collected(p, f)
          [] x.head = "--" -> IF x.tail = "" THEN Collected(p + 1, f) ELSE Collected(0, f)
          [] x.head = "-i" -> IF x.tail = "" THEN g[p + 1][f \cup {"INTERACTIVE", "VERSION"}]
                                  ELSE Collected(0, f)
          [] x.head = "-v" -> IF x.tail = "" THEN g[p + 1][f \cup {"VERSION"}] ELSE Collected(0, f)
          [] x.head \in {"-e", "-l", "-j"} ->
                IF x.tail = "" /\ p = N THEN Collected(0, f)
                ELSE g[IF x.tail = "" THEN p + 2 ELSE p + 1]
                      [f \cup ({"OPTION"} \cup (IF x.head = "-e" THEN {"EXEC"} ELSE {}))]
          [] x.head = "-O" -> g[p + 1][f \cup {}]
          [] x.head = "-b" -> IF f = {} THEN Collected(p + 1, {"EXEC"}) ELSE Collected(0, f)
          [] x.head = "-E" -> g[p + 1][f \cup {"NOENV"}]
          [] OTHER -> Collected(0, f)
  BY <1>4, <1>5, Zenon DEF Turn
<1> HIDE DEF x, p, N, a, d
<1>8. o.opt \in {"-e", "-l", "-j", "-O", "-i", "-v", "-E", "-b", "-x"}
  BY <1>2 DEF Opts, TakesNext
<1> DEFINE got == g[p][f]
           sep == Separate(o)
           none == o.operand = Nothing
           t == o.opt
<1> SUFFICES /\ Wrong(c, k) => got = Collected(0, f)
             /\ ~Wrong(c, k) /\ t = "-b" => got = Collected(d, {"EXEC"})
             /\ ~Wrong(c, k) /\ t # "-b" => got = g[d][f \cup Adds(t)]
  BY Zenon DEF p, d, TurnsOn
<1>9. Wrong(c, k) <=> \/ t = "-x"
                      \/ t \in {"-i", "-v"} /\ ~none
                      \/ t \in {"-e", "-l", "-j"} /\ none
                      \/ t = "-b" /\ ~OnlyO(c, k - 1)
  BY Zenon DEF Wrong, OnlyO
<1>10. sep => ~none
  BY <1>7
<1>11. x.head = t /\ (x.tail = "" <=> none \/ sep) /\ (sep => t \in {"-e", "-l", "-j"} /\ p # N)
       /\ d = (IF sep THEN p + 2 ELSE p + 1) /\ (t \in {"-e", "-l", "-j"} /\ none => p = N)
  BY <1>2, <1>4 DEF TakesNext
<1> HIDE DEF got, sep, none, t
<1>12. got =
        CASE x.head \in {"word", "-"} -> Collected(p, f)
          [] x.head = "--" -> IF x.tail = "" THEN Collected(p + 1, f) ELSE Collected(0, f)
          [] x.head = "-i" -> IF x.tail = "" THEN g[p + 1][f \cup {"INTERACTIVE", "VERSION"}]
                                  ELSE Collected(0, f)
          [] x.head = "-v" -> IF x.tail = "" THEN g[p + 1][f \cup {"VERSION"}] ELSE Collected(0, f)
          [] x.head \in {"-e", "-l", "-j"} ->
                IF x.tail = "" /\ p = N THEN Collected(0, f)
                ELSE g[IF x.tail = "" THEN p + 2 ELSE p + 1]
                      [f \cup ({"OPTION"} \cup (IF x.head = "-e" THEN {"EXEC"} ELSE {}))]
          [] x.head = "-O" -> g[p + 1][f \cup {}]
          [] x.head = "-b" -> IF f = {} THEN Collected(p + 1, {"EXEC"}) ELSE Collected(0, f)
          [] x.head = "-E" -> g[p + 1][f \cup {"NOENV"}]
          [] OTHER -> Collected(0, f)
  BY <1>6 DEF got
<1>13. CASE t \in {"-e", "-l", "-j"}
  <2>1. Adds(t) = {"OPTION"} \cup (IF t = "-e" THEN {"EXEC"} ELSE {})
    BY <1>13 DEF Adds
  <2>2. got = IF x.tail = "" /\ p = N THEN Collected(0, f)
              ELSE g[IF x.tail = "" THEN p + 2 ELSE p + 1][f \cup Adds(t)]
    BY <1>11, <1>12, <1>13, <2>1
  <2>3. Wrong(c, k) <=> none
    BY <1>9, <1>13
  <2>4. t # "-b"
    BY <1>13
  <2>5. none => x.tail = "" /\ p = N
    BY <1>11, <1>13
  <2>6. ~none => (x.tail = "" <=> sep) /\ ~(x.tail = "" /\ p = N)
    BY <1>11
  <2> QED
    BY <1>11, <2>2, <2>3, <2>4, <2>5, <2>6
<1>14. CASE t \in {"-i", "-v"}
  <2>1. ~sep /\ t # "-b" /\ d = p + 1
    BY <1>11, <1>14
  <2>2. Wrong(c, k) <=> ~none
    BY <1>9, <1>14
  <2>3. got = IF x.tail = "" THEN g[p + 1][f \cup Adds(t)] ELSE Collected(0, f)
    BY <1>11, <1>12, <1>14 DEF Adds
  <2> QED
    BY <1>11, <2>1, <2>2, <2>3
<1>15. CASE t \in {"-O", "-E"}
  <2>1. ~sep /\ t # "-b" /\ d = p + 1 /\ ~Wrong(c, k)
    BY <1>9, <1>11, <1>15
  <2>2. got = g[p + 1][f \cup Adds(t)]
    BY <1>11, <1>12, <1>15 DEF Adds
  <2> QED
    BY <2>1, <2>2
<1>16. CASE t = "-b"
  <2>1. ~sep /\ d = p + 1 /\ (Wrong(c, k) <=> ~(f = {}))
    BY <1>0, <1>9, <1>11, <1>16
  <2>2. got = IF f = {} THEN Collected(p + 1, {"EXEC"}) ELSE Collected(0, f)
    BY <1>11, <1>12, <1>16
  <2> QED
    BY <1>16, <2>1, <2>2
<1>17. CASE t = "-x"
  <2>1. got = Collected(0, f) /\ Wrong(c, k)
    BY <1>9, <1>11, <1>12, <1>17
  <2> QED
    BY <2>1
<1> QED
  BY <1>8, <1>13, <1>14, <1>15, <1>16, <1>17 DEF t

\* The flags that the first k options give.
HasIn(c, k, opts) == \E n \in 1..k : c.options[n].opt \in opts
FlagsAre(c, k, f) ==
    /\ f \in SUBSET Flags
    /\ "INTERACTIVE" \in f <=> HasIn(c, k, {"-i"})
    /\ "VERSION" \in f <=> HasIn(c, k, {"-i", "-v"})
    /\ "EXEC" \in f <=> HasIn(c, k, {"-e"})
    /\ "NOENV" \in f <=> HasIn(c, k, {"-E"})
    /\ f = {} <=> OnlyO(c, k)

\* The options of a kind among one more.
LEMMA HasNext ==
  ASSUME NEW c, NEW k \in Nat, NEW opts
  PROVE  /\ HasIn(c, k + 1, opts) <=> HasIn(c, k, opts) \/ c.options[k + 1].opt \in opts
         /\ OnlyO(c, k + 1) <=> OnlyO(c, k) /\ c.options[k + 1].opt = "-O"
<1>1. 1..(k + 1) = 1..k \cup {k + 1}
  OBVIOUS
<1> QED
  BY <1>1, Zenon DEF HasIn, OnlyO

\* The flags after one more option.
LEMMA FlagsNext ==
  ASSUME NEW c, NEW k \in Nat, NEW f, FlagsAre(c, k, f), c.options[k + 1].opt \in Opts \ {"-b", "-x"}
  PROVE  FlagsAre(c, k + 1, f \cup Adds(c.options[k + 1].opt))
<1> DEFINE t == c.options[k + 1].opt
           h == f \cup Adds(t)
<1>1. t \in {"-e", "-l", "-j", "-O", "-i", "-v", "-E"}
  BY DEF Opts, TakesNext
<1>2. \A opts : HasIn(c, k + 1, opts) <=> HasIn(c, k, opts) \/ t \in opts
  BY HasNext
<1>3. OnlyO(c, k + 1) <=> OnlyO(c, k) /\ t = "-O"
  BY HasNext
<1> HIDE DEF t
<1>4. /\ Adds(t) \in SUBSET Flags
      /\ "INTERACTIVE" \in Adds(t) <=> t \in {"-i"}
      /\ "VERSION" \in Adds(t) <=> t \in {"-i", "-v"}
      /\ "EXEC" \in Adds(t) <=> t \in {"-e"}
      /\ "NOENV" \in Adds(t) <=> t \in {"-E"}
      /\ Adds(t) = {} <=> t = "-O"
  BY <1>1 DEF Adds, Flags
<1>5. /\ f \in SUBSET Flags
      /\ "INTERACTIVE" \in f <=> HasIn(c, k, {"-i"})
      /\ "VERSION" \in f <=> HasIn(c, k, {"-i", "-v"})
      /\ "EXEC" \in f <=> HasIn(c, k, {"-e"})
      /\ "NOENV" \in f <=> HasIn(c, k, {"-E"})
      /\ f = {} <=> OnlyO(c, k)
  BY DEF FlagsAre
<1> DEFINE A == Adds(t)
<1> HIDE DEF A
<1>6. /\ h \in SUBSET Flags
      /\ "INTERACTIVE" \in h <=> HasIn(c, k + 1, {"-i"})
      /\ "VERSION" \in h <=> HasIn(c, k + 1, {"-i", "-v"})
      /\ "EXEC" \in h <=> HasIn(c, k + 1, {"-e"})
      /\ "NOENV" \in h <=> HasIn(c, k + 1, {"-E"})
  <2>1. \A x : x \in h <=> x \in f \/ x \in A
    BY DEF A
  <2> HIDE DEF h
  <2> QED
    BY <1>2, <1>4, <1>5, <2>1 DEF A
<1>7. h = {} <=> OnlyO(c, k + 1)
  <2>1. h = {} <=> f = {} /\ A = {}
    BY DEF A
  <2> QED
    BY <1>3, <1>4, <1>5, <2>1 DEF A
<1> QED
  BY <1>6, <1>7 DEF FlagsAre, t

\* collectargs() comes past the first k options, if they are right and none is -b.
Passed(c, k) == \A j \in 1..k : ~Wrong(c, j) /\ c.options[j].opt # "-b"
Comes(c, g, k) == \E f : FlagsAre(c, k, f) /\ g[1][{}] = g[EndsOf(c)[k] + 1][f]

\* Induction over the options that are passed.
LEMMA CollectWalk ==
  ASSUME NEW c, WellWritten(c), NEW g, CollectsFrom(g, Argv(c), 1),
         NEW k \in 0..Len(c.options), Passed(c, k)
  PROVE  Comes(c, g, k)
<1> DEFINE n == Len(c.options)
           e == EndsOf(c)
           S == {j \in Nat : j <= k => Comes(c, g, j)}
<1>1. Laid(c, e, Argv(c))
  BY ArgvIsLaid
<1>2. n \in Nat /\ e[0] = 0
  <2> HIDE DEF e
  <2> QED
    BY <1>1 DEF Laid
<1>3. 0 \in S
  <2>1. FlagsAre(c, 0, {})
    <3>1. 1..0 = {} /\ {} \in SUBSET Flags
      OBVIOUS
    <3> QED
      BY <3>1, Zenon DEF FlagsAre, HasIn, OnlyO
  <2>2. e[0] + 1 = 1
    BY <1>2
  <2>3. Comes(c, g, 0)
    BY <2>1, <2>2, Zenon DEF Comes
  <2> QED
    BY <2>3
<1>4. ASSUME NEW j \in Nat, j \in S
      PROVE  j + 1 \in S
  <2> SUFFICES ASSUME j + 1 <= k
               PROVE  Comes(c, g, j + 1)
    OBVIOUS
  <2>1. j + 1 \in 1..k /\ j + 1 \in 1..n /\ (j + 1) - 1 = j /\ j <= k
    BY <1>2
  <2>2. PICK f : FlagsAre(c, j, f) /\ g[1][{}] = g[e[j] + 1][f]
    BY <1>4, <2>1 DEF Comes
  <2>3. Place(c, j + 1) = e[j] + 1
    BY <2>1 DEF Place
  <2>4. ComesWith(c, j + 1, f)
    BY <2>1, <2>2, Zenon DEF FlagsAre, ComesWith
  <2>5. ~Wrong(c, j + 1) /\ c.options[j + 1].opt # "-b"
    BY <2>1 DEF Passed
  <2> DEFINE t == c.options[j + 1].opt
  <2>6. g[Place(c, j + 1)][f] = g[e[j + 1] + 1][f \cup Adds(t)]
    <3>1. TurnsOn(c, g, j + 1, f)
      BY <2>1, <2>4, TurnOfOption
    <3> QED
      BY <2>5, <3>1, Zenon DEF TurnsOn
  <2>7. t \in Opts \ {"-b", "-x"}
    <3>1. OptionAt(c, j + 1)
      BY <2>1, OptionsAt
    <3>2. t \in Opts /\ t # "-x"
      BY <2>5, <3>1, Zenon DEF OptionAt, Wrong
    <3> QED
      BY <2>5, <3>2
  <2>8. FlagsAre(c, j + 1, f \cup Adds(t))
    BY <2>2, <2>7, FlagsNext
  <2>9. g[1][{}] = g[e[j + 1] + 1][f \cup Adds(t)]
    BY <2>2, <2>3, <2>6, Zenon
  <2> QED
    BY <2>8, <2>9, Zenon DEF Comes
<1> HIDE DEF S
<1>5. Nat \subseteq S
  BY <1>3, <1>4, SetInduction
<1>6. k \in Nat /\ k <= k
  BY <1>2
<1> QED
  BY <1>5, <1>6 DEF S

\* The options of a command: Misused is that one is wrong, and -b is the last.
LEMMA MisusedIs ==
  ASSUME NEW c, WellWritten(c)
  PROVE  /\ Len(c.options) \in Nat /\ DOMAIN c.options = 1..Len(c.options)
         /\ Misused(c) <=> \E k \in 1..Len(c.options) : Wrong(c, k)
         /\ \A k \in 1..Len(c.options) : c.options[k].opt = "-b" => k = Len(c.options)
<1>1. Laid(c, EndsOf(c), Argv(c))
  BY ArgvIsLaid
<1>2. Len(c.options) \in Nat /\ DOMAIN c.options = 1..Len(c.options)
  BY <1>1, Zenon DEF Laid
<1>3. Misused(c) <=> \E k \in 1..Len(c.options) : Wrong(c, k)
  BY <1>2, Zenon DEF Misused, Wrong
<1>4. \A k \in 1..Len(c.options) : c.options[k].opt = "-b" => k = Len(c.options)
  BY <1>2, Zenon DEF WellWritten
<1> QED
  BY <1>2, <1>3, <1>4

\* The first option that is wrong stops collectargs(): the usage is shown.
LEMMA WrongIsRefused ==
  ASSUME NEW c, WellWritten(c), Misused(c)
  PROVE  collectargs(Argv(c)).argn = 0
<1> DEFINE n == Len(c.options)
           T == {k \in 1..n : Wrong(c, k)}
<1>1. n \in Nat /\ T # {} /\ \A k \in 1..n : c.options[k].opt = "-b" => k = n
  BY MisusedIs
<1>2. PICK k \in T : \A m \in T : k <= m
  <2>1. T \in SUBSET Nat
    OBVIOUS
  <2> QED
    BY <1>1, <2>1, LeastNumber
<1>3. k \in 1..n /\ Wrong(c, k)
  BY <1>2
<1>4. Passed(c, k - 1) /\ k - 1 \in 0..n
  <2>1. ASSUME NEW j \in 1..(k - 1)
        PROVE  ~Wrong(c, j) /\ c.options[j].opt # "-b"
    <3>1. j \in 1..n /\ ~(k <= j) /\ j # n
      BY <1>1, <1>3
    <3> QED
      BY <1>1, <1>2, <3>1
  <2> QED
    BY <1>1, <1>3, <2>1 DEF Passed
<1>5. Len(Argv(c)) \in Nat
  <2>1. Laid(c, EndsOf(c), Argv(c))
    BY ArgvIsLaid
  <2> QED
    BY <2>1, LenProperties DEF Laid
<1>6. PICK g : CollectsFrom(g, Argv(c), 1) /\ collectargs(Argv(c)) = g[1][{}]
  BY <1>5, CollectIsTurns
<1>7. PICK f : FlagsAre(c, k - 1, f) /\ g[1][{}] = g[EndsOf(c)[k - 1] + 1][f]
  <2>1. Comes(c, g, k - 1)
    BY <1>4, <1>6, CollectWalk
  <2> QED
    BY <2>1 DEF Comes
<1>8. ComesWith(c, k, f)
  BY <1>7, Zenon DEF FlagsAre, ComesWith
<1>9. g[Place(c, k)][f] = Collected(0, f)
  <2>1. TurnsOn(c, g, k, f)
    BY <1>3, <1>6, <1>8, TurnOfOption
  <2> QED
    BY <1>3, <2>1, Zenon DEF TurnsOn
<1>10. collectargs(Argv(c)) = Collected(0, f)
  BY <1>6, <1>7, <1>9, Zenon DEF Place
<1> QED
  BY <1>10 DEF Collected

\* What comes first after the options.
StartsAs(c) ==
    LET t == Trailing(c)
    IN /\ Len(t) \in Nat
       /\ c.dashes => Len(t) >= 1 /\ t[1] = Dashes
       /\ ~c.dashes => Len(t) = 0 \/ (Len(t) >= 1 /\ t[1].head \in {"word", "-"})
\* After the options comes --, the script or nothing.
LEMMA TrailingStarts ==
  ASSUME NEW c, WellWritten(c), ~Has(c, "-b")
  PROVE  StartsAs(c)
<1> DEFINE t == Trailing(c)
           v == IF c.script = Nothing THEN << >> ELSE <<c.script>>
           z == c.rest
<1>1. /\ c.script = Nothing => c.rest = << >>
      /\ c.dashes \/ c.script = Nothing \/ c.script.head \in {"word", "-"}
      /\ z \in Seq(Argument) /\ c.script \in Argument
  BY Zenon DEF WellWritten
<1> DEFINE W == Argument \cup {Dashes}
<1>2. z \in Seq(W) /\ v \in Seq(W) /\ Dashes \in W /\ c.script \in W
  <2>1. Argument \subseteq W /\ Dashes \in W
    BY Zenon
  <2>2. c.script \in W
    BY <1>1, <2>1, Zenon
  <2> HIDE DEF W, z
  <2>3. z \in Seq(W)
    BY <1>1, <2>1, SeqMonotonic
  <2> QED
    BY <2>1, <2>2, <2>3
<1>3. CASE c.dashes
  <2> DEFINE u == <<Dashes>>
  <2>1. t = (u \o v) \o z
    BY <1>3, Zenon DEF Trailing
  <2> HIDE DEF v, z, W, t
  <2>2. u \in Seq(W) /\ Len(u) = 1 /\ u[1] = Dashes
    BY <1>2
  <2> HIDE DEF u
  <2>3. /\ u \o v \in Seq(W) /\ Len(u \o v) = 1 + Len(v) /\ Len(v) \in Nat
        /\ 1 \in 1..Len(u) + Len(v) /\ 1 <= Len(u)
    <3>1. Len(u) \in Nat /\ Len(v) \in Nat
      BY <1>2, <2>2, LenProperties
    <3>2. u \o v \in Seq(W) /\ Len(u \o v) = Len(u) + Len(v)
      BY <1>2, <2>2, ConcatProperties
    <3> QED
      BY <2>2, <3>1, <3>2
  <2>4. (u \o v)[1] = Dashes
    BY <1>2, <2>2, <2>3, ConcatProperties
  <2>5. /\ Len(z) \in Nat /\ Len(t) = Len(u \o v) + Len(z)
        /\ 1 \in 1..Len(u \o v) + Len(z) /\ 1 <= Len(u \o v)
    <3>1. Len(z) \in Nat
      BY <1>2, LenProperties
    <3>2. Len(t) = Len(u \o v) + Len(z)
      BY <1>2, <2>1, <2>3, ConcatProperties
    <3> QED
      BY <2>3, <3>1, <3>2
  <2>6. t[1] = Dashes
    BY <1>2, <2>1, <2>3, <2>4, <2>5, ConcatProperties
  <2>7. Len(t) \in Nat /\ Len(t) >= 1
    BY <2>3, <2>5
  <2> QED
    BY <1>3, <2>6, <2>7 DEF StartsAs, t
<1>4. CASE ~c.dashes
  <2>1. t = (<< >> \o v) \o z
    BY <1>4, Zenon DEF Trailing
  <2>2. << >> \o v = v
    BY <1>2, ConcatEmptySeq
  <2>3. t = v \o z
    BY <2>1, <2>2, Zenon
  <2>4. CASE c.script = Nothing
    <3>1. v = << >> /\ z = << >>
      BY <1>1, <2>4
    <3>2. Len(t) = 0
      BY <2>3, <3>1
    <3> QED
      BY <1>4, <3>2 DEF StartsAs
  <2>5. CASE c.script # Nothing
    <3>1. v = <<c.script>>
      BY <2>5
    <3> HIDE DEF v, z, W, t
    <3>2. Len(v) = 1 /\ v[1] = c.script
      BY <3>1
    <3>3. Len(z) \in Nat /\ Len(t) = 1 + Len(z) /\ 1 \in 1..Len(v) + Len(z) /\ 1 <= Len(v)
      <4>1. Len(z) \in Nat
        BY <1>2, LenProperties
      <4>2. Len(t) = Len(v) + Len(z)
        BY <1>2, <2>3, ConcatProperties
      <4> QED
        BY <3>2, <4>1, <4>2
    <3>4. t[1] = c.script
      BY <1>2, <2>3, <3>2, <3>3, ConcatProperties
    <3>5. Len(t) \in Nat /\ Len(t) >= 1
      BY <3>3
    <3> QED
      BY <1>1, <1>4, <2>5, <3>4, <3>5 DEF StartsAs, t
  <2> QED
    BY <2>4, <2>5
<1> QED
  BY <1>3, <1>4

\* The flags of a command, and the place of the first argument that is no option.
Has2(c, opts) == \E k \in 1..Len(c.options) : c.options[k].opt \in opts
Taken(c, r) ==
    /\ r.argn = EndsOf(c)[Len(c.options)] + (IF c.dashes /\ ~Has(c, "-b") THEN 2 ELSE 1)
    /\ "INTERACTIVE" \in r.flags <=> Has2(c, {"-i"})
    /\ "VERSION" \in r.flags <=> Has2(c, {"-i", "-v"})
    /\ "EXEC" \in r.flags <=> Has2(c, {"-e", "-b"})
    /\ "NOENV" \in r.flags <=> Has2(c, {"-E"})

\* A command that is right is taken apart as it is meant.
LEMMA RightIsTaken ==
  ASSUME NEW c, WellWritten(c), ~Misused(c)
  PROVE  Taken(c, collectargs(Argv(c)))
<1> DEFINE n == Len(c.options)
           a == Argv(c)
           r == collectargs(a)
           e == EndsOf(c)
<1>1. n \in Nat /\ DOMAIN c.options = 1..n /\ \A k \in 1..n : ~Wrong(c, k) /\ (c.options[k].opt = "-b" => k = n)
  BY MisusedIs
<1>2. Laid(c, e, a)
  BY ArgvIsLaid
<1>3. Len(a) \in Nat /\ e[n] \in Nat
  <2> HIDE DEF a, e
  <2> QED
    BY <1>1, <1>2, LenProperties DEF Laid
<1>4. PICK g : CollectsFrom(g, a, 1) /\ r = g[1][{}]
  BY <1>3, CollectIsTurns
<1>5. \A opts : HasIn(c, n, opts) <=> Has2(c, opts)
  BY Zenon DEF HasIn, Has2
<1>6. Has(c, "-b") <=> Has2(c, {"-b"})
  BY <1>1 DEF Has, Has2
<1>7. CASE Has(c, "-b")
  <2>1. n \in 1..n /\ c.options[n].opt = "-b"
    BY <1>1, <1>7, Zenon DEF Has
  <2>2. Passed(c, n - 1) /\ n - 1 \in 0..n
    <3>1. ASSUME NEW j \in 1..(n - 1)
          PROVE  j \in 1..n /\ j # n
      BY <1>1
    <3>2. \A j \in 1..(n - 1) : ~Wrong(c, j) /\ c.options[j].opt # "-b"
      BY <1>1, <2>1, <3>1, Zenon
    <3>3. n - 1 \in 0..n
      BY <1>1, <2>1
    <3> QED
      BY <3>2, <3>3, Zenon DEF Passed
  <2>3. PICK f : FlagsAre(c, n - 1, f) /\ g[1][{}] = g[EndsOf(c)[n - 1] + 1][f]
    <3>1. Comes(c, g, n - 1)
      BY <1>4, <2>2, CollectWalk
    <3> QED
      BY <3>1 DEF Comes
  <2>4. ComesWith(c, n, f)
    BY <2>3, Zenon DEF FlagsAre, ComesWith
  <2>5. ~Wrong(c, n)
    BY <1>1, <2>1
  <2>6. g[Place(c, n)][f] = Collected(e[n] + 1, {"EXEC"})
    <3>1. TurnsOn(c, g, n, f)
      BY <1>4, <2>1, <2>4, TurnOfOption
    <3> QED
      BY <2>1, <2>5, <3>1, Zenon DEF TurnsOn
  <2>7. r = Collected(e[n] + 1, {"EXEC"})
    BY <1>4, <2>3, <2>6, Zenon DEF Place
  <2>8. r.argn = e[n] + 1 /\ r.flags = {"EXEC"}
    <3> HIDE DEF r, e, n
    <3> QED
      BY <2>7 DEF Collected
  <2>9. ASSUME NEW k \in 1..n
        PROVE  c.options[k].opt \in {"-O", "-b"}
    <3>1. CASE k = n
      BY <2>1, <3>1
    <3>2. CASE k # n
      <4>1. k \in 1..(n - 1)
        BY <1>1, <3>2
      <4> QED
        BY <2>1, <2>5, <4>1, Zenon DEF Wrong
    <3> QED
      BY <3>1, <3>2
  <2>10. ~Has2(c, {"-i"}) /\ ~Has2(c, {"-i", "-v"}) /\ ~Has2(c, {"-E"}) /\ Has2(c, {"-e", "-b"})
    BY <2>1, <2>9 DEF Has2
  <2> HIDE DEF r, e, n
  <2> QED
    BY <1>7, <2>8, <2>10 DEF Taken, e, n, r, a
<1>8. CASE ~Has(c, "-b")
  <2>1. Passed(c, n) /\ n \in 0..n
    <3>1. n \in 0..n
      BY <1>1
    <3>2. \A j \in 1..n : c.options[j].opt # "-b"
      BY <1>1, <1>8, Zenon DEF Has
    <3>3. \A j \in 1..n : ~Wrong(c, j)
      BY <1>1, Zenon
    <3> QED
      BY <3>1, <3>2, <3>3, Zenon DEF Passed
  <2>2. PICK f : FlagsAre(c, n, f) /\ g[1][{}] = g[e[n] + 1][f]
    <3>1. Comes(c, g, n)
      BY <1>4, <2>1, CollectWalk
    <3> QED
      BY <3>1 DEF Comes
  <2> DEFINE p == e[n] + 1
             t == Trailing(c)
  <2>3. /\ Len(a) = e[n] + Len(t)
        /\ \A j \in 1..Len(t) : a[e[n] + j] = t[j]
        /\ a \in Seq(Words(c))
    <3> HIDE DEF a, e
    <3> QED
      BY <1>2, Zenon DEF Laid
  <2> DEFINE q == IF c.dashes THEN p + 1 ELSE p
  <2>4. /\ Len(t) \in Nat
        /\ c.dashes => Len(t) >= 1 /\ t[1] = Dashes
        /\ ~c.dashes => Len(t) = 0 \/ (Len(t) >= 1 /\ t[1].head \in {"word", "-"})
    BY <1>8, TrailingStarts DEF StartsAs
  <2>5. p \in 1..Len(a) + 1 /\ g[p][f] = Turn(g, a, p, f)
    <3>1. p \in 1..Len(a) + 1
      <4> HIDE DEF a, e, n, t
      <4> QED
        BY <1>3, <2>3, <2>4
    <3>2. f \in SUBSET Flags
      BY <2>2, Zenon DEF FlagsAre
    <3> HIDE DEF p, a
    <3> QED
      BY <1>4, <3>1, <3>2, Zenon DEF CollectsFrom, a
  <2>6. /\ p > Len(a) => Len(t) = 0
        /\ ~(p > Len(a)) => Len(t) >= 1 /\ a[p] = t[1]
    <3> HIDE DEF a, e, n, t
    <3> QED
      BY <1>3, <2>3, <2>4
  <2>7. Turn(g, a, p, f) = Collected(q, f)
    <3>1. CASE c.dashes
      <4>1. ~(p > Len(a)) /\ a[p] = Dashes
        <5> HIDE DEF a, p, t
        <5> QED
          BY <2>4, <2>6, <3>1
      <4>2. Dashes.head = "--" /\ Dashes.tail = ""
        BY DEF Dashes, Arg
      <4>3. a[p].head = "--" /\ a[p].tail = ""
        BY <4>1, <4>2, Zenon
      <4>4. Turn(g, a, p, f) = Collected(p + 1, f)
        <5> HIDE DEF a, p
        <5> QED
          BY <4>1, <4>3 DEF Turn
      <4> QED
        BY <3>1, <4>4
    <3>2. CASE ~c.dashes
      <4>1. (p > Len(a)) \/ (~(p > Len(a)) /\ a[p].head \in {"word", "-"})
        <5> HIDE DEF a, p, t
        <5> QED
          BY <2>4, <2>6, <3>2
      <4>2. Turn(g, a, p, f) = Collected(p, f)
        <5> HIDE DEF a, p
        <5> QED
          BY <4>1, Zenon DEF Turn
      <4> QED
        BY <3>2, <4>2
    <3> QED
      BY <3>1, <3>2
  <2>8. r = Collected(q, f)
    BY <1>4, <2>2, <2>5, <2>7, Zenon
  <2>9. r.argn = q /\ r.flags = f
    <3> HIDE DEF r, q
    <3> QED
      BY <2>8 DEF Collected
  <2>10. q = e[n] + (IF c.dashes /\ ~Has(c, "-b") THEN 2 ELSE 1)
    <3>1. p + 1 = e[n] + 2 /\ p = e[n] + 1
      <4> HIDE DEF e
      <4> QED
        BY <1>3
    <3> QED
      BY <1>8, <3>1, Zenon
  <2>11. /\ "INTERACTIVE" \in f <=> Has2(c, {"-i"})
         /\ "VERSION" \in f <=> Has2(c, {"-i", "-v"})
         /\ "EXEC" \in f <=> Has2(c, {"-e"})
         /\ "NOENV" \in f <=> Has2(c, {"-E"})
    BY <1>5, <2>2, Zenon DEF FlagsAre
  <2>12. Has2(c, {"-e", "-b"}) <=> Has2(c, {"-e"})
    BY <1>6, <1>8 DEF Has2
  <2> HIDE DEF r, q
  <2> QED
    BY <2>9, <2>10, <2>11, <2>12, Zenon DEF Taken, e, n, r, a
<1> QED
  BY <1>7, <1>8
-------------------------------------------------------------------------------
(***************************************************************************)
(* Sequences of whatever values.                                             *)
(***************************************************************************)
IsSeq(s) == \E S : s \in Seq(S)

\* Its length and its domain.
LEMMA SeqIs ==
  ASSUME NEW s, IsSeq(s)
  PROVE  Len(s) \in Nat /\ DOMAIN s = 1..Len(s)
  BY LenProperties DEF IsSeq

\* Two of them are sequences over one set.
LEMMA BothSeq ==
  ASSUME NEW s, NEW t, IsSeq(s), IsSeq(t)
  PROVE  \E S : s \in Seq(S) /\ t \in Seq(S)
<1>1. PICK S : s \in Seq(S)
  BY DEF IsSeq
<1>2. PICK T : t \in Seq(T)
  BY DEF IsSeq
<1> DEFINE U == S \cup T
<1>3. S \subseteq U /\ T \subseteq U
  OBVIOUS
<1> HIDE DEF U
<1>4. s \in Seq(U)
  BY <1>1, <1>3, SeqMonotonic
<1>5. t \in Seq(U)
  BY <1>2, <1>3, SeqMonotonic
<1> QED
  BY <1>4, <1>5

\* Sequences of no value and of one.
LEMMA ShortSeqs ==
  /\ IsSeq(<< >>) /\ Len(<< >>) = 0
  /\ \A x : IsSeq(<<x>>) /\ Len(<<x>>) = 1 /\ <<x>>[1] = x
<1>1. << >> \in Seq({}) /\ Len(<< >>) = 0
  OBVIOUS
<1>2. ASSUME NEW x
      PROVE  <<x>> \in Seq({x}) /\ Len(<<x>>) = 1 /\ <<x>>[1] = x
  OBVIOUS
<1> QED
  BY <1>1, <1>2 DEF IsSeq

\* Two sequences joined, value by value.
LEMMA JoinIs ==
  ASSUME NEW s, NEW t, IsSeq(s), IsSeq(t)
  PROVE  /\ IsSeq(s \o t) /\ Len(s) \in Nat /\ Len(t) \in Nat /\ Len(s \o t) = Len(s) + Len(t)
         /\ \A j \in 1..Len(s) : (s \o t)[j] = s[j]
         /\ \A j \in 1..Len(t) : (s \o t)[Len(s) + j] = t[j]
<1>1. PICK S : s \in Seq(S) /\ t \in Seq(S)
  BY BothSeq
<1> DEFINE r == s \o t
<1>2. /\ r \in Seq(S) /\ Len(r) = Len(s) + Len(t)
      /\ \A j \in 1..(Len(s) + Len(t)) : r[j] = IF j <= Len(s) THEN s[j] ELSE t[j - Len(s)]
  BY <1>1, ConcatProperties
<1>3. Len(s) \in Nat /\ Len(t) \in Nat
  BY <1>1, LenProperties
<1> HIDE DEF r
<1>4. \A j \in 1..Len(s) : r[j] = s[j]
  BY <1>2, <1>3
<1>5. ASSUME NEW j \in 1..Len(t)
      PROVE  r[Len(s) + j] = t[j]
  <2>1. Len(s) + j \in 1..(Len(s) + Len(t)) /\ ~(Len(s) + j <= Len(s)) /\ (Len(s) + j) - Len(s) = j
    BY <1>3
  <2> QED
    BY <1>2, <2>1
<1>6. IsSeq(r)
  BY <1>2 DEF IsSeq
<1> QED
  BY <1>2, <1>3, <1>4, <1>5, <1>6 DEF r

\* Joining is associative.
LEMMA JoinAssoc ==
  ASSUME NEW s, NEW t, NEW u, IsSeq(s), IsSeq(t), IsSeq(u)
  PROVE  (s \o t) \o u = s \o (t \o u)
<1>1. PICK S : s \in Seq(S) /\ t \in Seq(S)
  BY BothSeq
<1>2. PICK T : u \in Seq(T)
  BY DEF IsSeq
<1> DEFINE U == S \cup T
<1>3. S \subseteq U /\ T \subseteq U
  OBVIOUS
<1> HIDE DEF U
<1>4. s \in Seq(U)
  BY <1>1, <1>3, SeqMonotonic
<1>5. t \in Seq(U)
  BY <1>1, <1>3, SeqMonotonic
<1>6. u \in Seq(U)
  BY <1>2, <1>3, SeqMonotonic
<1> QED
  BY <1>4, <1>5, <1>6, ConcatAssociative

\* The empty sequence joined to another.
LEMMA JoinNone ==
  ASSUME NEW s, IsSeq(s)
  PROVE  s \o << >> = s /\ << >> \o s = s
<1>1. PICK S : s \in Seq(S)
  BY DEF IsSeq
<1> QED
  BY <1>1, ConcatEmptySeq

\* Append joins a sequence of one value.
LEMMA AppendIs ==
  ASSUME NEW s, NEW x, IsSeq(s)
  PROVE  Append(s, x) = s \o <<x>>
<1>1. IsSeq(<<x>>)
  BY ShortSeqs
<1>2. PICK S : s \in Seq(S)
  BY DEF IsSeq
<1> DEFINE U == S \cup {x}
<1>3. S \subseteq U /\ x \in U
  OBVIOUS
<1> HIDE DEF U
<1>4. s \in Seq(U)
  BY <1>2, <1>3, SeqMonotonic
<1> QED
  BY <1>3, <1>4, AppendIsConcat

\* Sequences of the same values are the same.
LEMMA SameSeq ==
  ASSUME NEW s, NEW t, IsSeq(s), IsSeq(t), Len(s) = Len(t), \A j \in 1..Len(s) : s[j] = t[j]
  PROVE  s = t
<1>1. PICK S : s \in Seq(S) /\ t \in Seq(S)
  BY BothSeq
<1> QED
  BY <1>1, SeqEqual

\* A sequence of no values.
LEMMA EmptyIs ==
  ASSUME NEW s, IsSeq(s), Len(s) = 0
  PROVE  s = << >>
<1>1. IsSeq(<< >>) /\ Len(<< >>) = 0
  BY ShortSeqs
<1>2. \A j \in 1..Len(s) : s[j] = << >>[j]
  OBVIOUS
<1> QED
  BY <1>1, <1>2, SameSeq

\* A part of a sequence, value by value.
LEMMA PartIs ==
  ASSUME NEW s, IsSeq(s), NEW m \in Int, NEW n \in Int, 1 <= m, m <= n + 1, n <= Len(s)
  PROVE  /\ IsSeq(SubSeq(s, m, n)) /\ Len(SubSeq(s, m, n)) = (n - m) + 1
         /\ \A j \in 1..(n - m) + 1 : SubSeq(s, m, n)[j] = s[(m + j) - 1]
<1>1. PICK S : s \in Seq(S)
  BY DEF IsSeq
<1> DEFINE r == SubSeq(s, m, n)
<1>2. Len(s) \in Nat
  BY <1>1, LenProperties
<1>3. \A j \in m..n : s[j] \in S
  BY <1>1, <1>2, ElementOfSeq
<1>4. /\ r \in Seq(S) /\ Len(r) = (IF m <= n THEN (n - m) + 1 ELSE 0)
      /\ \A j \in 1..(n - m) + 1 : r[j] = s[(m + j) - 1]
  BY <1>3, SubSeqProperties
<1> HIDE DEF r
<1>5. Len(r) = (n - m) + 1
  BY <1>4
<1>6. IsSeq(r)
  BY <1>4 DEF IsSeq
<1> QED
  BY <1>4, <1>5, <1>6 DEF r

\* The two parts of what was joined.
LEMMA PartsOfJoin ==
  ASSUME NEW s, NEW t, IsSeq(s), IsSeq(t)
  PROVE  /\ SubSeq(s \o t, 1, Len(s)) = s
         /\ SubSeq(s \o t, Len(s) + 1, Len(s) + Len(t)) = t
<1> DEFINE r == s \o t
           a == Len(s)
           b == Len(t)
<1>1. /\ IsSeq(r) /\ a \in Nat /\ b \in Nat /\ Len(r) = a + b
      /\ \A j \in 1..a : r[j] = s[j]
      /\ \A j \in 1..b : r[a + j] = t[j]
  BY JoinIs
<1> HIDE DEF r
<1>2. SubSeq(r, 1, a) = s
  <2> DEFINE q == SubSeq(r, 1, a)
  <2> SUFFICES q = s
    OBVIOUS
  <2>1. IsSeq(q) /\ Len(q) = (a - 1) + 1 /\ \A j \in 1..(a - 1) + 1 : q[j] = r[(1 + j) - 1]
    <3> HIDE DEF a
    <3>1. 1 <= 1 /\ 1 <= a + 1 /\ a <= Len(r) /\ a \in Int
      BY <1>1
    <3> QED
      BY <1>1, <3>1, PartIs
  <2> HIDE DEF q
  <2>2. Len(q) = a
    BY <1>1, <2>1
  <2>3. ASSUME NEW j \in 1..a
        PROVE  q[j] = s[j]
    <3>1. j \in 1..(a - 1) + 1 /\ (1 + j) - 1 = j
      BY <1>1
    <3> QED
      BY <1>1, <2>1, <3>1
  <2> QED
    BY <2>1, <2>2, <2>3, SameSeq
<1>3. SubSeq(r, a + 1, a + b) = t
  <2> DEFINE q == SubSeq(r, a + 1, a + b)
  <2> SUFFICES q = t
    OBVIOUS
  <2>1. IsSeq(q) /\ Len(q) = ((a + b) - (a + 1)) + 1
        /\ \A j \in 1..((a + b) - (a + 1)) + 1 : q[j] = r[((a + 1) + j) - 1]
    <3> HIDE DEF a, b
    <3>1. 1 <= a + 1 /\ a + 1 <= (a + b) + 1 /\ a + b <= Len(r) /\ a + 1 \in Int /\ a + b \in Int
      BY <1>1
    <3> QED
      BY <1>1, <3>1, PartIs
  <2> HIDE DEF q
  <2>2. Len(q) = b
    <3> HIDE DEF a, b
    <3> QED
      BY <1>1, <2>1
  <2>3. ASSUME NEW j \in 1..b
        PROVE  q[j] = t[j]
    <3>1. j \in 1..((a + b) - (a + 1)) + 1 /\ ((a + 1) + j) - 1 = a + j
      <4> HIDE DEF a, b
      <4> QED
        BY <1>1
    <3> QED
      BY <1>1, <2>1, <3>1
  <2> QED
    BY <2>1, <2>2, <2>3, SameSeq
<1> QED
  BY <1>2, <1>3 DEF r

\* Taking out the first value, and putting one before it.
LEMMA FirstOut ==
  ASSUME NEW x, NEW t, IsSeq(t)
  PROVE  RemoveAt(<<x>> \o t, 1) = t
<1> DEFINE r == <<x>> \o t
<1>1. IsSeq(<<x>>) /\ Len(<<x>>) = 1
  BY ShortSeqs
<1>2. SubSeq(r, 1 + 1, 1 + Len(t)) = t /\ IsSeq(r) /\ Len(r) = 1 + Len(t)
  BY <1>1, PartsOfJoin, JoinIs
<1>3. SubSeq(r, 1, 1 - 1) = << >>
  <2>1. IsSeq(SubSeq(r, 1, 1 - 1)) /\ Len(SubSeq(r, 1, 1 - 1)) = ((1 - 1) - 1) + 1
    <3> HIDE DEF r
    <3>1. 1 - 1 <= Len(r)
      BY <1>2, SeqIs
    <3> QED
      BY <1>2, <3>1, PartIs
  <2>2. Len(SubSeq(r, 1, 1 - 1)) = 0
    BY <2>1
  <2> QED
    BY <2>1, <2>2, EmptyIs
<1>4. RemoveAt(r, 1) = << >> \o t
  BY <1>2, <1>3, Zenon DEF RemoveAt
<1> QED
  BY <1>4, JoinNone

\* A value put in front.
LEMMA FirstIn ==
  ASSUME NEW x, NEW t, IsSeq(t)
  PROVE  InsertAt(t, 1, x) = <<x>> \o t
<1>1. SubSeq(t, 1, 1 - 1) = << >> /\ SubSeq(t, 1, Len(t)) = t
  <2>0. Len(t) \in Nat
    BY SeqIs
  <2>1. IsSeq(SubSeq(t, 1, 1 - 1)) /\ Len(SubSeq(t, 1, 1 - 1)) = ((1 - 1) - 1) + 1
    <3>1. 1 - 1 <= Len(t)
      BY <2>0
    <3> QED
      BY <3>1, PartIs
  <2>2. Len(SubSeq(t, 1, 1 - 1)) = 0
    BY <2>1
  <2>3. SubSeq(t, 1, 1 - 1) = << >>
    BY <2>1, <2>2, EmptyIs
  <2>4. PICK S : t \in Seq(S)
    BY DEF IsSeq
  <2> QED
    BY <2>3, <2>4, SubSeqFull
<1>2. InsertAt(t, 1, x) = (<< >> \o <<x>>) \o t
  BY <1>1, Zenon DEF InsertAt
<1>3. << >> \o <<x>> = <<x>>
  BY ShortSeqs, JoinNone
<1> QED
  BY <1>2, <1>3

\* What is joined begins with its first part.
LEMMA PrefixOfJoin ==
  ASSUME NEW s, NEW t, IsSeq(s), IsSeq(t)
  PROVE  IsPrefix(s, s \o t)
<1> DEFINE r == s \o t
<1>1. /\ Len(s) \in Nat /\ Len(t) \in Nat /\ Len(r) = Len(s) + Len(t) /\ SubSeq(r, 1, Len(s)) = s
  BY JoinIs, PartsOfJoin
<1>2. PICK S : s \in Seq(S)
  BY DEF IsSeq
<1>3. SubSeq(s, 1, Len(s)) = s
  BY <1>2, SubSeqFull
<1> HIDE DEF r
<1>4. Len(s) <= Len(r)
  BY <1>1
<1>5. SubSeq(s, 1, Len(s)) = SubSeq(r, 1, Len(s))
  BY <1>1, <1>3
<1> QED
  BY <1>4, <1>5, Zenon DEF IsPrefix, r
-------------------------------------------------------------------------------
\* What comes after the options: --, the script and its arguments.
Ending(c, d) ==
    LET t == Trailing(c)
    IN /\ IsSeq(t) /\ IsSeq(c.rest)
       /\ d = (IF c.dashes THEN 1 ELSE 0)
       /\ c.dashes => t[1] = Dashes
       /\ c.script = Nothing => Len(t) = d
       /\ c.script # Nothing => /\ Len(t) = (d + 1) + Len(c.rest) /\ t[d + 1] = c.script
                                /\ \A j \in 1..Len(c.rest) : t[(d + 1) + j] = c.rest[j]
\* So is the end of a command.
LEMMA EndingIs ==
  ASSUME NEW c, WellWritten(c)
  PROVE  Ending(c, IF c.dashes THEN 1 ELSE 0)
<1> DEFINE t == Trailing(c)
           u == IF c.dashes THEN <<Dashes>> ELSE << >>
           v == IF c.script = Nothing THEN << >> ELSE <<c.script>>
           z == c.rest
           d == IF c.dashes THEN 1 ELSE 0
<1>1. (c.script = Nothing => z = << >>) /\ z \in Seq(Argument)
  BY Zenon DEF WellWritten
<1>2. IsSeq(z)
  BY <1>1 DEF IsSeq
<1>3. t = (u \o v) \o z
  BY Zenon DEF Trailing
<1>4. IsSeq(u) /\ Len(u) = d /\ (c.dashes => u[1] = Dashes)
  BY ShortSeqs
<1>5. /\ IsSeq(v) /\ (c.script = Nothing => v = << >> /\ Len(v) = 0)
      /\ c.script # Nothing => Len(v) = 1 /\ v[1] = c.script
  BY ShortSeqs
<1>6. d \in {0, 1} /\ (c.dashes => d = 1)
  OBVIOUS
<1> DEFINE r == u \o v
<1> HIDE DEF u, v, z, d, t
<1>7. /\ IsSeq(r) /\ Len(r) = d + Len(v) /\ Len(v) \in Nat
      /\ \A j \in 1..d : r[j] = u[j]
      /\ \A j \in 1..Len(v) : r[d + j] = v[j]
  BY <1>4, <1>5, JoinIs
<1> HIDE DEF r
<1>8. /\ IsSeq(t) /\ Len(t) = Len(r) + Len(z) /\ Len(z) \in Nat /\ Len(r) \in Nat
      /\ \A j \in 1..Len(r) : t[j] = r[j]
      /\ \A j \in 1..Len(z) : t[Len(r) + j] = z[j]
  BY <1>2, <1>3, <1>7, JoinIs DEF r
<1>9. c.dashes => t[1] = Dashes
  <2> SUFFICES ASSUME c.dashes PROVE t[1] = Dashes
    OBVIOUS
  <2>1. d = 1 /\ 1 \in 1..d /\ 1 \in 1..Len(r)
    BY <1>6, <1>7
  <2> QED
    BY <1>4, <1>7, <1>8, <2>1
<1>10. c.script = Nothing => Len(t) = d
  <2> SUFFICES ASSUME c.script = Nothing PROVE Len(t) = d
    OBVIOUS
  <2>1. Len(z) = 0 /\ Len(v) = 0
    BY <1>1, <1>5, ShortSeqs
  <2> QED
    BY <1>6, <1>7, <1>8, <2>1
<1>11. c.script # Nothing => /\ Len(t) = (d + 1) + Len(z) /\ t[d + 1] = c.script
                             /\ \A j \in 1..Len(z) : t[(d + 1) + j] = z[j]
  <2> SUFFICES ASSUME c.script # Nothing
               PROVE  /\ Len(t) = (d + 1) + Len(z) /\ t[d + 1] = c.script
                      /\ \A j \in 1..Len(z) : t[(d + 1) + j] = z[j]
    OBVIOUS
  <2>0. Len(v) = 1 /\ v[1] = c.script
    BY <1>5
  <2>1. d \in Nat /\ Len(r) = d + 1
    BY <1>6, <1>7, <2>0
  <2>2. d + 1 \in 1..Len(r) /\ 1 \in 1..Len(v)
    BY <2>0, <2>1
  <2> QED
    BY <1>7, <1>8, <2>0, <2>1, <2>2
<1>12. Ending(c, d) <=>
          /\ IsSeq(t) /\ IsSeq(z) /\ d = (IF c.dashes THEN 1 ELSE 0)
          /\ c.dashes => t[1] = Dashes
          /\ c.script = Nothing => Len(t) = d
          /\ c.script # Nothing => /\ Len(t) = (d + 1) + Len(z) /\ t[d + 1] = c.script
                                   /\ \A j \in 1..Len(z) : t[(d + 1) + j] = z[j]
  BY Zenon DEF Ending, t, z
<1>13. d = (IF c.dashes THEN 1 ELSE 0)
  BY DEF d
<1> QED
  BY <1>2, <1>8, <1>9, <1>10, <1>11, <1>12, <1>13, Zenon DEF d

\* The places of the options ascend.
LEMMA PlacesAscend ==
  ASSUME NEW c, WellWritten(c), NEW k \in 1..Len(c.options)
  PROVE  EndsOf(c)[k - 1] < EndsOf(c)[Len(c.options)]
<1> DEFINE e == EndsOf(c)
           n == Len(c.options)
           S == {m \in Nat : k + m <= n => e[k - 1] < e[k + m]}
<1>1. Laid(c, e, Argv(c))
  BY ArgvIsLaid
<1>2. /\ n \in Nat /\ e \in [0..n -> Nat]
      /\ \A j \in 1..n : e[j] = e[j - 1] + (IF Separate(c.options[j]) THEN 2 ELSE 1)
  <2> HIDE DEF e, n
  <2> QED
    BY <1>1, Zenon DEF Laid, n
<1>3. \A j \in 1..n : e[j - 1] < e[j] /\ e[j - 1] \in Nat /\ e[j] \in Nat
  <2> HIDE DEF e, n
  <2> SUFFICES ASSUME NEW j \in 1..n PROVE e[j - 1] < e[j] /\ e[j - 1] \in Nat /\ e[j] \in Nat
    OBVIOUS
  <2>1. j - 1 \in 0..n /\ j \in 0..n
    BY <1>2
  <2>2. e[j - 1] \in Nat /\ e[j] \in Nat
    BY <1>2, <2>1
  <2>3. e[j] = e[j - 1] + 1 \/ e[j] = e[j - 1] + 2
    BY <1>2, Zenon
  <2> QED
    BY <2>2, <2>3
<1> HIDE DEF e, n
<1>4. 0 \in S
  BY <1>2, <1>3 DEF n
<1>5. ASSUME NEW m \in Nat, m \in S
      PROVE  m + 1 \in S
  <2>1. CASE k + (m + 1) <= n
    <3>1. k + (m + 1) \in 1..n /\ (k + (m + 1)) - 1 = k + m /\ k + m <= n /\ k \in 1..n
      BY <1>2, <2>1 DEF n
    <3>2. e[k - 1] < e[k + m] /\ e[k - 1] \in Nat
      BY <1>3, <1>5, <3>1
    <3>3. e[k + m] < e[k + (m + 1)] /\ e[k + m] \in Nat /\ e[k + (m + 1)] \in Nat
      BY <1>3, <3>1
    <3> QED
      BY <3>2, <3>3
  <2> QED
    BY <2>1
<1> HIDE DEF S
<1>6. n - k \in Nat /\ k + (n - k) <= n /\ k + (n - k) = n
  BY <1>2 DEF n
<1>7. n - k \in S
  BY <1>4, <1>5, <1>6, SetInduction
<1> QED
  BY <1>6, <1>7 DEF S, n, e

\* What runargs() reads at an option is what was written there.
Read(c, k) ==
    LET o == c.options[k]
        p == Place(c, k)
        a == Argv(c)
    IN /\ p \in 1..Len(a) /\ a[p].head = o.opt
       /\ operand(a, p) = o.operand
       /\ next_option(a, p) = Place(c, k + 1)
       /\ o.opt \notin TakesNext => Place(c, k + 1) = p + 1
       /\ o.opt \in Opts
\* runargs() reads an option that is right as it was meant.
LEMMA OptionIsRead ==
  ASSUME NEW c, WellWritten(c), NEW k \in 1..Len(c.options), ~Wrong(c, k)
  PROVE  Read(c, k)
<1> DEFINE o == c.options[k]
           p == Place(c, k)
           a == Argv(c)
           q == EndsOf(c)[k] + 1
           whole == a[p].tail = ""
           sep == Separate(o)
<1>1. OptionAt(c, k)
  BY OptionsAt
<1>2. /\ p \in 1..Len(a) /\ q = (IF sep THEN p + 2 ELSE p + 1)
      /\ o.opt \in Opts /\ a[p].head = o.opt
  BY <1>1, Zenon DEF OptionAt
<1>3. /\ whole <=> o.operand = Nothing \/ sep
      /\ sep => o.opt \in TakesNext /\ p + 1 \in 1..Len(a) /\ a[p + 1] = o.operand
      /\ ~whole => o.operand = Word(a[p].tail)
  BY <1>1, Zenon DEF OptionAt
<1>4. o.opt \in TakesNext => o.operand # Nothing
  BY DEF Wrong, TakesNext
<1>5. Place(c, k + 1) = q
  <2>1. (k + 1) - 1 = k
    OBVIOUS
  <2> QED
    BY <2>1, Zenon DEF Place
<1>6. takes_operand(a, p) <=> o.opt \in TakesNext /\ whole
  BY <1>2, Zenon DEF takes_operand, TakesNext
<1>7. o.opt \in TakesNext /\ whole <=> sep
  BY <1>3, <1>4
<1>8. takes_operand(a, p) <=> sep
  BY <1>6, <1>7, Zenon
<1>9. next_option(a, p) = q
  BY <1>2, <1>8, Zenon DEF next_option
<1>10. operand(a, p) = o.operand
  <2>1. CASE sep
    <3>1. operand(a, p) = At(a, p + 1)
      BY <1>8, <2>1, Zenon DEF operand
    <3>2. DOMAIN a = 1..Len(a)
      <4>1. Laid(c, EndsOf(c), a)
        BY ArgvIsLaid
      <4> HIDE DEF a
      <4>2. a \in Seq(Words(c))
        BY <4>1, Zenon DEF Laid
      <4> QED
        BY <4>2, LenProperties
    <3>3. At(a, p + 1) = a[p + 1]
      BY <1>3, <2>1, <3>2, Zenon DEF At
    <3> QED
      BY <1>3, <2>1, <3>1, <3>3
  <2>2. CASE ~sep
    <3>1. operand(a, p) = IF whole THEN Nothing ELSE Word(a[p].tail)
      BY <1>8, <2>2, Zenon DEF operand
    <3> QED
      BY <1>3, <2>2, <3>1, Zenon
  <2> QED
    BY <2>1, <2>2
<1>11. o.opt \notin TakesNext => q = p + 1
  BY <1>2, <1>3, Zenon
<1> QED
  BY <1>2, <1>5, <1>9, <1>10, <1>11, Zenon DEF Read
-------------------------------------------------------------------------------
\* A sequence after the place p of another.
LEMMA RestIs ==
  ASSUME NEW a, NEW t, NEW p \in Nat, IsSeq(a), IsSeq(t), Len(a) = p + Len(t),
         \A j \in 1..Len(t) : a[p + j] = t[j]
  PROVE  SubSeq(a, p + 1, Len(a)) = t
<1> DEFINE r == SubSeq(a, p + 1, Len(a))
           m == (Len(a) - (p + 1)) + 1
<1>1. Len(t) \in Nat /\ m = Len(t) /\ p + 1 <= Len(a) + 1 /\ 1 <= p + 1 /\ Len(a) \in Int /\ Len(a) <= Len(a)
  BY SeqIs
<1>2. IsSeq(r) /\ Len(r) = m /\ \A j \in 1..m : r[j] = a[((p + 1) + j) - 1]
  BY <1>1, PartIs
<1> HIDE DEF r, m
<1>3. ASSUME NEW j \in 1..Len(t)
      PROVE  r[j] = t[j]
  <2>1. ((p + 1) + j) - 1 = p + j /\ j \in 1..m
    BY <1>1
  <2> QED
    BY <1>2, <2>1
<1>4. Len(r) = Len(t)
  BY <1>1, <1>2
<1> QED
  BY <1>2, <1>3, <1>4, SameSeq DEF r

\* What -b is given, besides its operand.
LEMMA BytecodeIs ==
  ASSUME NEW c, WellWritten(c), NEW k \in 1..Len(c.options), c.options[k].opt = "-b"
  PROVE  SubSeq(Argv(c), Place(c, k) + 1, Len(Argv(c))) = Trailing(c)
<1> DEFINE a == Argv(c)
           t == Trailing(c)
           e == EndsOf(c)
           n == Len(c.options)
           p == Place(c, k)
<1>1. OptionAt(c, k)
  BY OptionsAt
<1>2. k = n /\ e[k] + 1 = p + 1
  <2>1. Separate(c.options[k]) => c.options[k].opt \in TakesNext
    BY <1>1, Zenon DEF OptionAt
  <2>2. "-b" \notin TakesNext
    BY DEF TakesNext
  <2>3. e[k] + 1 = (IF Separate(c.options[k]) THEN p + 2 ELSE p + 1) /\ (c.options[k].opt = "-b" => k = n)
    BY <1>1, Zenon DEF OptionAt
  <2> QED
    BY <2>1, <2>2, <2>3, Zenon
<1>3. Laid(c, e, a)
  BY ArgvIsLaid
<1>4. n \in Nat /\ e \in [0..n -> Nat] /\ a \in Seq(Words(c)) /\ Len(a) = e[n] + Len(t)
      /\ \A j \in 1..Len(t) : a[e[n] + j] = t[j]
  <2> HIDE DEF e, a, n, t
  <2> QED
    BY <1>3, Zenon DEF Laid, n, t
<1>5. p \in 1..Len(a)
  BY <1>1, Zenon DEF OptionAt
<1>6. IsSeq(a)
  BY <1>4, Zenon DEF IsSeq
<1>7. IsSeq(t)
  <2>1. Ending(c, IF c.dashes THEN 1 ELSE 0)
    BY EndingIs
  <2> QED
    BY <2>1, Zenon DEF Ending
<1> HIDE DEF a, t, e, n, p
<1>8. n \in 0..n
  BY <1>4
<1>9. e[n] \in Nat
  BY <1>4, <1>8
<1>10. p \in Nat
  BY <1>5
<1>11. e[n] = p
  BY <1>2, <1>9, <1>10
<1>12. SubSeq(a, p + 1, Len(a)) = t
  <2>1. Len(a) = p + Len(t) /\ \A j \in 1..Len(t) : a[p + j] = t[j]
    BY <1>4, <1>11
  <2> QED
    BY <1>6, <1>7, <1>10, <2>1, RestIs
<1> QED
  BY <1>12 DEF a, t, p

\* The place of the script, behind the options.
Behind(c) ==
    LET a == Argv(c)
        m == collectargs(a).argn
        q == Place(c, Len(c.options) + 1)
    IN /\ q \in Nat /\ m = (IF c.dashes THEN q + 1 ELSE q) /\ IsSeq(a) /\ IsSeq(c.rest)
       /\ c.dashes => q \in 1..Len(a) /\ a[q] = Dashes
       /\ c.script = Nothing => Len(a) = m - 1
       /\ c.script # Nothing => /\ Len(a) = m + Len(c.rest) /\ a[m] = c.script
                                /\ \A j \in 1..Len(c.rest) : a[m + j] = c.rest[j]
\* collectargs() finds the script of a command that is right.
LEMMA BehindIs ==
  ASSUME NEW c, WellWritten(c), ~Misused(c), ~Has(c, "-b")
  PROVE  Behind(c)
<1> DEFINE a == Argv(c)
           t == Trailing(c)
           e == EndsOf(c)
           n == Len(c.options)
           m == collectargs(a).argn
           q == Place(c, n + 1)
           d == IF c.dashes THEN 1 ELSE 0
           z == c.rest
<1>1. Laid(c, e, a)
  BY ArgvIsLaid
<1>2. n \in Nat /\ e \in [0..n -> Nat] /\ a \in Seq(Words(c)) /\ Len(a) = e[n] + Len(t)
      /\ \A j \in 1..Len(t) : a[e[n] + j] = t[j]
  <2> HIDE DEF e, a, n, t
  <2> QED
    BY <1>1, Zenon DEF Laid, n, t
<1>3. q = e[n] + 1
  <2>1. (n + 1) - 1 = n
    BY <1>2
  <2> QED
    BY <2>1, Zenon DEF Place
<1>4. m = e[n] + (IF c.dashes THEN 2 ELSE 1)
  BY RightIsTaken, Zenon DEF Taken
<1>5. /\ IsSeq(t) /\ IsSeq(z)
      /\ c.dashes => t[1] = Dashes
      /\ c.script = Nothing => Len(t) = d
      /\ c.script # Nothing => /\ Len(t) = (d + 1) + Len(z) /\ t[d + 1] = c.script
                               /\ \A j \in 1..Len(z) : t[(d + 1) + j] = z[j]
  <2>1. Ending(c, d)
    BY EndingIs
  <2> HIDE DEF d
  <2> QED
    BY <2>1, Zenon DEF Ending
<1>6. IsSeq(a)
  BY <1>2, Zenon DEF IsSeq
<1>7. /\ d \in {0, 1} /\ (c.dashes => d = 1)
      /\ m = (e[n] + d) + 1 /\ m = (IF c.dashes THEN q + 1 ELSE q)
  <2> HIDE DEF m, e, n, q
  <2>1. e[n] \in Nat
    BY <1>2
  <2>2. CASE c.dashes
    BY <1>3, <1>4, <2>1, <2>2
  <2>3. CASE ~c.dashes
    BY <1>3, <1>4, <2>1, <2>3
  <2> QED
    BY <2>2, <2>3
<1> HIDE DEF a, t, e, n, m, q, d, z
<1>8. e[n] \in Nat
  <2>1. n \in 0..n
    BY <1>2
  <2> QED
    BY <1>2, <2>1
<1>9. Len(t) \in Nat /\ Len(z) \in Nat
  BY <1>5, SeqIs
<1>10. q \in Nat
  BY <1>3, <1>8
<1>11. c.script = Nothing => Len(a) = m - 1
  <2> SUFFICES ASSUME c.script = Nothing PROVE Len(a) = m - 1
    OBVIOUS
  <2>1. Len(t) = d
    BY <1>5
  <2>2. d \in Nat
    BY <1>7
  <2>3. Len(a) = e[n] + d
    BY <1>2, <2>1
  <2> QED
    BY <1>7, <1>8, <2>2, <2>3
<1>12. c.script # Nothing => /\ Len(a) = m + Len(z) /\ a[m] = c.script
                             /\ \A j \in 1..Len(z) : a[m + j] = z[j]
  <2> SUFFICES ASSUME c.script # Nothing
               PROVE  /\ Len(a) = m + Len(z) /\ a[m] = c.script
                      /\ \A j \in 1..Len(z) : a[m + j] = z[j]
    OBVIOUS
  <2>1. /\ Len(t) = (d + 1) + Len(z) /\ t[d + 1] = c.script
        /\ \A j \in 1..Len(z) : t[(d + 1) + j] = z[j]
    BY <1>5
  <2>2. d \in Nat
    BY <1>7
  <2>3. m = e[n] + (d + 1) /\ d + 1 \in 1..Len(t)
    BY <1>7, <1>8, <1>9, <2>1, <2>2
  <2>4. Len(a) = m + Len(z)
    BY <1>2, <1>8, <1>9, <2>1, <2>2, <2>3
  <2>5. a[m] = c.script
    BY <1>2, <2>1, <2>3
  <2>6. ASSUME NEW j \in 1..Len(z)
        PROVE  a[m + j] = z[j]
    <3>1. (d + 1) + j \in 1..Len(t) /\ m + j = e[n] + ((d + 1) + j)
      <4>1. j \in Nat /\ j <= Len(z)
        BY <1>9
      <4>2. Len(t) = (d + 1) + Len(z) /\ m = e[n] + (d + 1)
        BY <2>1, <2>3
      <4> QED
        BY <1>8, <1>9, <2>2, <4>1, <4>2
    <3> QED
      BY <1>2, <2>1, <3>1
  <2> QED
    BY <2>4, <2>5, <2>6
<1>13. c.dashes => q \in 1..Len(a) /\ a[q] = Dashes
  <2> SUFFICES ASSUME c.dashes PROVE q \in 1..Len(a) /\ a[q] = Dashes
    OBVIOUS
  <2>1. d = 1 /\ t[1] = Dashes
    BY <1>5, <1>7
  <2>2. Len(t) >= 1
    BY <1>5, <1>9, <2>1
  <2>3. 1 \in 1..Len(t) /\ q \in 1..Len(a)
    BY <1>2, <1>3, <1>8, <1>9, <2>2
  <2>4. a[e[n] + 1] = t[1]
    BY <1>2, <2>3
  <2> QED
    BY <1>3, <2>1, <2>3, <2>4
<1>14. Behind(c) <=>
       /\ q \in Nat /\ m = (IF c.dashes THEN q + 1 ELSE q) /\ IsSeq(a) /\ IsSeq(z)
       /\ c.dashes => q \in 1..Len(a) /\ a[q] = Dashes
       /\ c.script = Nothing => Len(a) = m - 1
       /\ c.script # Nothing => /\ Len(a) = m + Len(z) /\ a[m] = c.script
                                /\ \A j \in 1..Len(z) : a[m + j] = z[j]
  BY Zenon DEF Behind, q, m, a, z, n
<1> QED
  BY <1>5, <1>6, <1>7, <1>10, <1>11, <1>12, <1>13, <1>14, Zenon
-------------------------------------------------------------------------------
\* The option before a script on the standard input was given an operand --.
DashBefore(c) == c.script = Stdin /\ ~c.dashes /\ c.options # << >>
                 /\ c.options[Len(c.options)].operand = Dashes
\* The file of the script is the one that was meant.
LEMMA ScriptIs ==
  ASSUME NEW c, WellWritten(c), ~Misused(c), ~Has(c, "-b"), c.script # Nothing, ~DashBefore(c)
  PROVE  script_file(Argv(c), collectargs(Argv(c)).argn) =
            IF c.script = Stdin /\ c.dashes THEN Word("-") ELSE c.script
<1> DEFINE a == Argv(c)
           m == collectargs(a).argn
           n == Len(c.options)
           e == EndsOf(c)
           q == Place(c, n + 1)
           p == Place(c, n)
<1>1. /\ q \in Nat /\ m = (IF c.dashes THEN q + 1 ELSE q) /\ IsSeq(a)
      /\ c.dashes => q \in 1..Len(a) /\ a[q] = Dashes
      /\ a[m] = c.script
  <2>1. Behind(c)
    BY BehindIs
  <2> QED
    BY <2>1, Zenon DEF Behind
<1>2. script_file(a, m) = IF c.script = Stdin /\ At(a, m - 1) = Dashes THEN Word("-") ELSE c.script
  <2> HIDE DEF a, m
  <2> QED
    BY <1>1, Zenon DEF script_file
<1>3. DOMAIN a = 1..Len(a)
  BY <1>1, SeqIs
<1>4. n \in Nat /\ e[0] = 0
  <2>1. Laid(c, e, a)
    BY ArgvIsLaid
  <2> HIDE DEF e, a, n
  <2> QED
    BY <2>1, Zenon DEF Laid, n
<1>5. q = e[n] + 1
  <2>1. (n + 1) - 1 = n
    BY <1>4
  <2> QED
    BY <2>1, Zenon DEF Place
<1>6. n >= 1 => /\ e[n] = (IF Separate(c.options[n]) THEN p + 1 ELSE p)
                /\ p \in 1..Len(a) /\ e[n] \in Nat
                /\ a[p].head \in Opts
                /\ Separate(c.options[n]) => a[p + 1] = c.options[n].operand
  <2> SUFFICES ASSUME n >= 1
               PROVE  /\ e[n] = (IF Separate(c.options[n]) THEN p + 1 ELSE p)
                      /\ p \in 1..Len(a) /\ e[n] \in Nat
                      /\ a[p].head \in Opts
                      /\ Separate(c.options[n]) => a[p + 1] = c.options[n].operand
    OBVIOUS
  <2>1. n \in 1..Len(c.options)
    BY <1>4
  <2>2. OptionAt(c, n)
    BY <2>1, OptionsAt
  <2>3. /\ p \in 1..Len(a)
        /\ e[n] + 1 = (IF Separate(c.options[n]) THEN p + 2 ELSE p + 1)
        /\ a[p].head \in Opts
        /\ Separate(c.options[n]) => a[p + 1] = c.options[n].operand
    BY <2>2, Zenon DEF OptionAt
  <2>4. e[n] \in Nat
    <3>1. Laid(c, e, a)
      BY ArgvIsLaid
    <3> HIDE DEF e, a, n
    <3>2. e \in [0..n -> Nat]
      BY <3>1, Zenon DEF Laid, n
    <3>3. n \in 0..n
      BY <1>4
    <3> QED
      BY <3>2, <3>3
  <2>5. e[n] = (IF Separate(c.options[n]) THEN p + 1 ELSE p)
    <3> HIDE DEF e, a, n, p
    <3>1. p \in Nat
      BY <2>3
    <3>2. CASE Separate(c.options[n])
      <4>1. e[n] + 1 = p + 2
        BY <2>3, <3>2
      <4>2. e[n] = p + 1
        BY <2>4, <3>1, <4>1
      <4> QED
        BY <3>2, <4>2
    <3>3. CASE ~Separate(c.options[n])
      <4>1. e[n] + 1 = p + 1
        BY <2>3, <3>3
      <4>2. e[n] = p
        BY <2>4, <3>1, <4>1
      <4> QED
        BY <3>3, <4>2
    <3> QED
      BY <3>2, <3>3
  <2> QED
    BY <2>3, <2>4, <2>5
<1>7. n >= 1 => c.options # << >>
  OBVIOUS
<1> HIDE DEF a, m, n, e, q, p
<1>8. CASE c.script # Stdin
  BY <1>2, <1>8, Zenon DEF a, m
<1>9. CASE c.script = Stdin /\ c.dashes
  <2>1. m - 1 = q /\ q \in 1..Len(a)
    BY <1>1, <1>9
  <2>2. At(a, m - 1) = Dashes
    BY <1>1, <1>3, <1>9, <2>1, Zenon DEF At
  <2> QED
    BY <1>2, <1>9, <2>2, Zenon DEF a, m
<1>10. CASE c.script = Stdin /\ ~c.dashes
  <2>0. m = q
    BY <1>1, <1>10
  <2>1. CASE n = 0
    <3>1. m - 1 = 0
      BY <1>4, <1>5, <2>0, <2>1
    <3>2. 0 \notin DOMAIN a
      BY <1>3
    <3>3. At(a, m - 1) = Nothing
      BY <3>1, <3>2, Zenon DEF At
    <3>4. Nothing # Dashes
      BY DEF Nothing, Dashes, Arg
    <3> QED
      BY <1>2, <1>10, <3>3, <3>4, Zenon DEF a, m
  <2>2. CASE n # 0
    <3>1. n >= 1
      BY <1>4, <2>2
    <3>2. m - 1 = e[n]
      BY <1>5, <1>6, <2>0, <3>1
    <3>3. CASE Separate(c.options[n])
      <4>1. a[e[n]] = c.options[n].operand
        BY <1>6, <3>1, <3>3
      <4>2. c.options[n].operand # Dashes
        BY <1>7, <1>10, <3>1, Zenon DEF DashBefore, n
      <4>3. Nothing # Dashes
        BY DEF Nothing, Dashes, Arg
      <4>4. At(a, m - 1) # Dashes
        BY <3>2, <4>1, <4>2, <4>3, Zenon DEF At
      <4> QED
        BY <1>2, <1>10, <4>4, Zenon DEF a, m
    <3>4. CASE ~Separate(c.options[n])
      <4>1. e[n] = p /\ a[p].head \in Opts /\ p \in 1..Len(a)
        BY <1>6, <3>1, <3>4
      <4>2. Dashes.head \notin Opts
        BY DEF Dashes, Arg, Opts, TakesNext
      <4>3. a[p] # Dashes
        BY <4>1, <4>2, Zenon
      <4>4. At(a, m - 1) # Dashes
        BY <1>3, <3>2, <4>1, <4>3, Zenon DEF At
      <4> QED
        BY <1>2, <1>10, <4>4, Zenon DEF a, m
    <3> QED
      BY <3>3, <3>4
  <2> QED
    BY <2>1, <2>2
<1> QED
  BY <1>8, <1>9, <1>10

\* The options are in front of argn, the first one at 1.
LEMMA InFront ==
  ASSUME NEW c, WellWritten(c), ~Misused(c)
  PROVE  /\ Place(c, 1) = 1 /\ Len(c.options) \in Nat /\ DOMAIN c.options = 1..Len(c.options)
         /\ collectargs(Argv(c)).argn # 0
         /\ \A k \in 1..Len(c.options) : Place(c, k) < collectargs(Argv(c)).argn /\ ~Wrong(c, k)
<1> DEFINE n == Len(c.options)
           e == EndsOf(c)
           m == collectargs(Argv(c)).argn
<1>1. n \in Nat /\ DOMAIN c.options = 1..n /\ \A k \in 1..n : ~Wrong(c, k)
  BY MisusedIs, Zenon
<1>2. e[0] = 0 /\ e \in [0..n -> Nat]
  <2>1. Laid(c, e, Argv(c))
    BY ArgvIsLaid
  <2> HIDE DEF e, n
  <2> QED
    BY <2>1, Zenon DEF Laid, n
<1>3. Place(c, 1) = 1
  <2>1. 1 - 1 = 0 /\ 0 + 1 = 1
    OBVIOUS
  <2> QED
    BY <1>2, <2>1, Zenon DEF Place
<1>4. m = e[n] + (IF c.dashes /\ ~Has(c, "-b") THEN 2 ELSE 1)
  BY RightIsTaken, Zenon DEF Taken
<1>5. \A k \in 1..n : e[k - 1] < e[n] /\ Place(c, k) = e[k - 1] + 1
  BY PlacesAscend, Zenon DEF Place
<1> HIDE DEF e, m, n
<1>6. n \in 0..n /\ \A k \in 1..n : k - 1 \in 0..n
  BY <1>1
<1>7. e[n] \in Nat /\ \A k \in 1..n : e[k - 1] \in Nat
  BY <1>2, <1>6
<1>8. m = e[n] + 1 \/ m = e[n] + 2
  BY <1>4, Zenon
<1>9. m # 0 /\ \A k \in 1..n : Place(c, k) < m
  BY <1>5, <1>7, <1>8
<1> QED
  BY <1>1, <1>3, <1>9, Zenon DEF n, m
-------------------------------------------------------------------------------
\* Sequences of no more than one value, one for each of 1..n, are joined.
Few(q, n) == n \in Nat /\ DOMAIN q = 1..n /\ q = [m \in 1..n |-> q[m]]
             /\ \A m \in 1..n : q[m] = << >> \/ \E x : q[m] = <<x>>
\* They are sequences over one set.
LEMMA FewAre ==
  ASSUME NEW q, NEW n, Few(q, n)
  PROVE  \E S : q \in Seq(Seq(S)) /\ Len(q) = n
<1> DEFINE S == {q[m][1] : m \in 1..n}
<1>1. ASSUME NEW m \in 1..n
      PROVE  q[m] \in Seq(S)
  <2>1. CASE q[m] = << >>
    BY <2>1
  <2>2. ASSUME NEW x, q[m] = <<x>>
        PROVE  q[m] \in Seq(S)
    <3>1. q[m][1] = x
      BY <2>2
    <3>2. x \in S
      BY <3>1
    <3> HIDE DEF S
    <3> QED
      BY <2>2, <3>2
  <2> QED
    BY <2>1, <2>2 DEF Few
<1> HIDE DEF S
<1>2. q \in [1..n -> Seq(S)]
  BY <1>1 DEF Few
<1>3. q \in Seq(Seq(S))
  BY <1>2, SeqDef DEF Few
<1>4. Len(q) = n
  BY <1>3, LenProperties DEF Few
<1> QED
  BY <1>3, <1>4

\* There is one way to join.
LEMMA JoinedOnce ==
  ASSUME NEW q, NEW r, NEW n \in Nat, NEW F, NEW G, IsJoining(F, q, n), IsJoining(G, r, n),
         \A m \in 1..n : q[m] = r[m]
  PROVE  F[n] = G[n]
<1> DEFINE S == {m \in Nat : m <= n => F[m] = G[m]}
<1>1. 0 \in S
  BY DEF IsJoining
<1>2. ASSUME NEW m \in Nat, m \in S
      PROVE  m + 1 \in S
  <2>1. CASE m + 1 <= n
    <3>1. m + 1 \in 1..n /\ (m + 1) - 1 = m /\ m <= n
      BY <2>1
    <3>2. F[m] = G[m]
      BY <1>2, <3>1
    <3>3. F[m + 1] = F[m] \o q[m + 1] /\ G[m + 1] = G[m] \o r[m + 1]
      BY <3>1, Zenon DEF IsJoining
    <3>4. F[m + 1] = G[m + 1]
      BY <3>1, <3>2, <3>3, Zenon
    <3> QED
      BY <3>4
  <2> QED
    BY <2>1
<1> HIDE DEF S
<1>3. n \in S
  BY <1>1, <1>2, SetInduction
<1> QED
  BY <1>3 DEF S

\* One more is joined at the end.
LEMMA JoinedNext ==
  ASSUME NEW q, NEW r, NEW n \in Nat, Few(q, n), Few(r, n + 1), \A m \in 1..n : r[m] = q[m]
  PROVE  FlattenSeq(r) = FlattenSeq(q) \o r[n + 1]
<1>1. PICK S : q \in Seq(Seq(S)) /\ Len(q) = n
  BY FewAre
<1>2. PICK T : r \in Seq(Seq(T)) /\ Len(r) = n + 1
  BY FewAre
<1>3. PICK F : IsJoining(F, q, n) /\ FlattenSeq(q) = F[n]
  BY <1>1, FlattenIsJoining
<1>4. PICK G : IsJoining(G, r, n + 1) /\ FlattenSeq(r) = G[n + 1]
  BY <1>2, FlattenIsJoining
<1>5. IsJoining(G, r, n)
  <2>1. \A m \in 1..n : m \in 1..n + 1
    OBVIOUS
  <2> QED
    BY <1>4, <2>1, Zenon DEF IsJoining
<1>6. G[n] = F[n]
  BY <1>3, <1>5, JoinedOnce
<1>7. G[n + 1] = G[n] \o r[n + 1]
  <2>1. n + 1 \in 1..n + 1 /\ (n + 1) - 1 = n
    OBVIOUS
  <2> QED
    BY <1>4, <2>1, Zenon DEF IsJoining
<1> QED
  BY <1>3, <1>4, <1>6, <1>7

\* What they join to is a sequence.
LEMMA JoinedSeq ==
  ASSUME NEW q, NEW n, Few(q, n)
  PROVE  IsSeq(FlattenSeq(q))
<1>1. PICK S : q \in Seq(Seq(S)) /\ Len(q) = n
  BY FewAre
<1>2. FlattenSeq(q) \in Seq(S)
  BY <1>1, PartsInPlace
<1> QED
  BY <1>2 DEF IsSeq

\* None of them join to the empty sequence.
LEMMA JoinedNone ==
  ASSUME NEW q, Few(q, 0)
  PROVE  FlattenSeq(q) = << >>
<1>1. PICK S : q \in Seq(Seq(S)) /\ Len(q) = 0
  BY FewAre
<1>2. PICK F : IsJoining(F, q, 0) /\ FlattenSeq(q) = F[0]
  BY <1>1, FlattenIsJoining
<1> QED
  BY <1>2 DEF IsJoining
-------------------------------------------------------------------------------
\* What the first k options ask for.
RunsOf(c, k) == FlattenSeq([m \in 1..k |-> Asks(c.options[m])])
\* An option asks for one thing at most.
LEMMA FewAsked ==
  ASSUME NEW c, NEW k \in Nat
  PROVE  Few([m \in 1..k |-> Asks(c.options[m])], k)
  BY Zenon DEF Few, Asks
\* What one more option asks for.
LEMMA RunsNext ==
  ASSUME NEW c, NEW k \in Nat
  PROVE  /\ RunsOf(c, 0) = << >> /\ IsSeq(RunsOf(c, k))
         /\ RunsOf(c, k + 1) = RunsOf(c, k) \o Asks(c.options[k + 1])
<1> DEFINE q == [m \in 1..k |-> Asks(c.options[m])]
           r == [m \in 1..k + 1 |-> Asks(c.options[m])]
<1>1. Few(q, k) /\ Few(r, k + 1)
  <2>1. k + 1 \in Nat
    OBVIOUS
  <2> QED
    BY <2>1, FewAsked
<1>2. \A m \in 1..k : r[m] = q[m]
  OBVIOUS
<1>3. r[k + 1] = Asks(c.options[k + 1])
  OBVIOUS
<1> HIDE DEF q, r
<1>4. FlattenSeq(r) = FlattenSeq(q) \o r[k + 1]
  BY <1>1, <1>2, JoinedNext
<1>5. IsSeq(FlattenSeq(q))
  BY <1>1, JoinedSeq
<1>6. RunsOf(c, 0) = << >>
  BY FewAsked, JoinedNone DEF RunsOf
<1> QED
  BY <1>3, <1>4, <1>5, <1>6, Zenon DEF RunsOf, q, r

\* They come first.
LEMMA RunsFirst ==
  ASSUME NEW c, NEW k \in Nat, NEW n \in Nat, k <= n
  PROVE  \E u : IsSeq(u) /\ RunsOf(c, n) = RunsOf(c, k) \o u
<1> DEFINE S == {m \in Nat : \E u : IsSeq(u) /\ RunsOf(c, k + m) = RunsOf(c, k) \o u}
<1>1. 0 \in S
  <2>1. IsSeq(<< >>) /\ IsSeq(RunsOf(c, k))
    BY ShortSeqs, RunsNext
  <2>2. RunsOf(c, k) \o << >> = RunsOf(c, k)
    BY <2>1, JoinNone
  <2>3. k + 0 = k
    OBVIOUS
  <2> QED
    BY <2>1, <2>2, <2>3
<1>2. ASSUME NEW m \in Nat, m \in S
      PROVE  m + 1 \in S
  <2>1. PICK u : IsSeq(u) /\ RunsOf(c, k + m) = RunsOf(c, k) \o u
    BY <1>2
  <2> DEFINE x == Asks(c.options[(k + m) + 1])
  <2>2. k + m \in Nat /\ k + (m + 1) = (k + m) + 1
    OBVIOUS
  <2>3. RunsOf(c, (k + m) + 1) = RunsOf(c, k + m) \o x /\ IsSeq(RunsOf(c, k))
    BY <2>2, RunsNext
  <2>4. IsSeq(x)
    BY ShortSeqs DEF Asks
  <2> HIDE DEF x
  <2>5. (RunsOf(c, k) \o u) \o x = RunsOf(c, k) \o (u \o x)
    BY <2>1, <2>3, <2>4, JoinAssoc
  <2>6. IsSeq(u \o x)
    BY <2>1, <2>4, JoinIs
  <2>7. RunsOf(c, k + (m + 1)) = RunsOf(c, k) \o (u \o x)
    <3>1. RunsOf(c, k + (m + 1)) = RunsOf(c, (k + m) + 1)
      BY <2>2, Zenon
    <3>2. RunsOf(c, (k + m) + 1) = (RunsOf(c, k) \o u) \o x
      BY <2>1, <2>3, Zenon
    <3> QED
      BY <2>5, <3>1, <3>2, Zenon
  <2>8. m + 1 \in Nat
    OBVIOUS
  <2> QED
    BY <2>2, <2>6, <2>7, <2>8, Zenon
<1> HIDE DEF S
<1>3. n - k \in Nat /\ k + (n - k) = n
  OBVIOUS
<1>4. n - k \in S
  BY <1>1, <1>2, <1>3, SetInduction
<1>5. \E u : IsSeq(u) /\ RunsOf(c, k + (n - k)) = RunsOf(c, k) \o u
  BY <1>4, Zenon DEF S
<1> QED
  BY <1>3, <1>5, Zenon
-------------------------------------------------------------------------------
\* The plan of a command, in parts.
StartOf(c, e) == IF e.init /\ ~Has(c, "-E") THEN << <<"init", Nothing>> >> ELSE << >>
ScriptOf(c) == IF Has(c, "-b") \/ c.script = Nothing THEN << >>
               ELSE << <<"script", IF c.script = Stdin /\ c.dashes THEN Word("-") ELSE c.script>> >>
NoCode(c) == c.script = Nothing /\ \A opt \in {"-e", "-i", "-v"} : ~Has(c, opt)
StdinOf(c, e) == IF NoCode(c) /\ ~Has(c, "-b") /\ ~e.tty THEN << <<"stdin", Nothing>> >> ELSE << >>
PlanOf(c, e) == Plan(c, e.init, e.tty)
UpTo(c, e, k) == StartOf(c, e) \o RunsOf(c, k)
UpToScript(c, e) == UpTo(c, e, Len(c.options)) \o ScriptOf(c)

\* The plan is its parts, joined.
LEMMA PlanIs ==
  ASSUME NEW c, NEW e, DOMAIN c.options = 1..Len(c.options)
  PROVE  PlanOf(c, e) = UpToScript(c, e) \o StdinOf(c, e)
<1>1. Plan(c, e.init, e.tty) =
        (((IF e.init /\ ~Has(c, "-E") THEN << <<"init", Nothing>> >> ELSE << >>)
          \o FlattenSeq([k \in DOMAIN c.options |-> Asks(c.options[k])]))
         \o (IF Has(c, "-b") \/ c.script = Nothing THEN << >>
             ELSE << <<"script", IF c.script = Stdin /\ c.dashes THEN Word("-") ELSE c.script>> >>))
        \o (IF (c.script = Nothing /\ \A opt \in {"-e", "-i", "-v"} : ~Has(c, opt)) /\ ~Has(c, "-b") /\ ~e.tty
            THEN << <<"stdin", Nothing>> >> ELSE << >>)
  BY Zenon DEF Plan
<1>2. [k \in DOMAIN c.options |-> Asks(c.options[k])] = [k \in 1..Len(c.options) |-> Asks(c.options[k])]
  BY Zenon
<1> QED
  BY <1>1, <1>2, Zenon DEF PlanOf, UpToScript, UpTo, StartOf, RunsOf, ScriptOf, StdinOf, NoCode

\* Joining is associative, as a predicate of what is joined.
Associative(s, t, u) == (s \o t) \o u = s \o (t \o u)
LEMMA JoinThree ==
  ASSUME NEW s, NEW t, NEW u, IsSeq(s), IsSeq(t), IsSeq(u)
  PROVE  Associative(s, t, u)
  BY JoinAssoc DEF Associative
\* The parts are sequences, and one more option adds what it asks for.
LEMMA PartsAreSeqs ==
  ASSUME NEW c, NEW e, NEW k \in Nat
  PROVE  /\ IsSeq(StartOf(c, e)) /\ IsSeq(RunsOf(c, k)) /\ IsSeq(ScriptOf(c)) /\ IsSeq(StdinOf(c, e))
         /\ IsSeq(UpTo(c, e, k))
         /\ UpTo(c, e, 0) = StartOf(c, e)
         /\ UpTo(c, e, k + 1) = UpTo(c, e, k) \o Asks(c.options[k + 1])
<1>1. IsSeq(StartOf(c, e)) /\ IsSeq(ScriptOf(c)) /\ IsSeq(StdinOf(c, e)) /\ IsSeq(Asks(c.options[k + 1]))
  BY ShortSeqs, Zenon DEF StartOf, ScriptOf, StdinOf, Asks
<1>2. IsSeq(RunsOf(c, k)) /\ RunsOf(c, 0) = << >>
      /\ RunsOf(c, k + 1) = RunsOf(c, k) \o Asks(c.options[k + 1])
  BY RunsNext
<1>3. IsSeq(UpTo(c, e, k))
  BY <1>1, <1>2, JoinIs DEF UpTo
<1>4. UpTo(c, e, 0) = StartOf(c, e)
  BY <1>1, <1>2, JoinNone DEF UpTo
<1>5. (StartOf(c, e) \o RunsOf(c, k)) \o Asks(c.options[k + 1])
        = StartOf(c, e) \o (RunsOf(c, k) \o Asks(c.options[k + 1]))
  <2>1. Associative(StartOf(c, e), RunsOf(c, k), Asks(c.options[k + 1]))
    BY <1>1, <1>2, JoinThree, Zenon
  <2> QED
    BY <2>1, Zenon DEF Associative
<1>6. UpTo(c, e, k + 1) = UpTo(c, e, k) \o Asks(c.options[k + 1])
  BY <1>2, <1>5, Zenon DEF UpTo
<1> QED
  BY <1>1, <1>2, <1>3, <1>4, <1>6

\* As much of it as is done is a prefix.
LEMMA PlanBegins ==
  ASSUME NEW c, NEW e, DOMAIN c.options = 1..Len(c.options), Len(c.options) \in Nat
  PROVE  /\ \A k \in 0..Len(c.options) : IsPrefix(UpTo(c, e, k), PlanOf(c, e))
         /\ IsSeq(UpToScript(c, e)) /\ IsPrefix(UpToScript(c, e), PlanOf(c, e))
         /\ IsPrefix(<< >>, PlanOf(c, e))
         /\ IsPrefix(PlanOf(c, e), PlanOf(c, e))
<1> DEFINE n == Len(c.options)
           z == StdinOf(c, e)
           s == ScriptOf(c)
           plan == PlanOf(c, e)
<1>1. plan = UpToScript(c, e) \o z
  BY PlanIs
<1>2. IsSeq(UpTo(c, e, n)) /\ IsSeq(s) /\ IsSeq(z) /\ IsSeq(StartOf(c, e))
  BY PartsAreSeqs
<1>3. IsSeq(UpToScript(c, e))
  BY <1>2, JoinIs DEF UpToScript
<1>4. IsSeq(plan)
  BY <1>1, <1>2, <1>3, JoinIs
<1>5. IsPrefix(UpToScript(c, e), plan)
  BY <1>1, <1>2, <1>3, PrefixOfJoin
<1>6. IsPrefix(<< >>, plan)
  <2>1. IsSeq(<< >>) /\ << >> \o plan = plan
    BY <1>4, ShortSeqs, JoinNone
  <2> HIDE DEF plan
  <2>2. IsPrefix(<< >>, << >> \o plan)
    BY <1>4, <2>1, PrefixOfJoin
  <2> QED
    BY <2>1, <2>2, Zenon
<1>7. IsPrefix(plan, plan)
  <2>1. IsSeq(<< >>) /\ plan \o << >> = plan
    BY <1>4, ShortSeqs, JoinNone
  <2> HIDE DEF plan
  <2>2. IsPrefix(plan, plan \o << >>)
    BY <1>4, <2>1, PrefixOfJoin
  <2> QED
    BY <2>1, <2>2, Zenon
<1>8. ASSUME NEW k \in 0..n
      PROVE  IsPrefix(UpTo(c, e, k), plan)
  <2>1. k \in Nat /\ k <= n
    OBVIOUS
  <2>2. PICK u : IsSeq(u) /\ RunsOf(c, n) = RunsOf(c, k) \o u
    BY <2>1, RunsFirst
  <2>3. IsSeq(RunsOf(c, k)) /\ IsSeq(UpTo(c, e, k))
    BY <2>1, PartsAreSeqs
  <2>4. StartOf(c, e) \o (RunsOf(c, k) \o u) = UpTo(c, e, k) \o u
    <3>1. PICK x, y : x = StartOf(c, e) /\ y = RunsOf(c, k)
      OBVIOUS
    <3>2. IsSeq(x) /\ IsSeq(y)
      BY <1>2, <2>3, <3>1, Zenon
    <3>3. (x \o y) \o u = x \o (y \o u)
      <4>1. IsSeq(u)
        BY <2>2
      <4> HIDE <2>2, <3>1
      <4> QED
        BY <3>2, <4>1, JoinAssoc
    <3> QED
      BY <3>1, <3>3, Zenon DEF UpTo
  <2>5. UpTo(c, e, n) = UpTo(c, e, k) \o u
    BY <2>2, <2>4, Zenon DEF UpTo
  <2>6. PICK w, y : w = UpTo(c, e, k) /\ y = ScriptOf(c)
    OBVIOUS
  <2>7. PICK x : x = StdinOf(c, e)
    OBVIOUS
  <2>8. IsSeq(w) /\ IsSeq(y) /\ IsSeq(x)
    BY <1>2, <2>3, <2>6, <2>7, Zenon
  <2>9. plan = ((w \o u) \o y) \o x
    BY <1>1, <2>5, <2>6, <2>7, Zenon DEF UpToScript
  <2>10. (w \o u) \o y = w \o (u \o y) /\ IsSeq(u \o y)
    <3>1. IsSeq(u)
      BY <2>2
    <3>2. (w \o u) \o y = w \o (u \o y)
      BY <2>8, <3>1, JoinAssoc
    <3> QED
      BY <2>8, <3>1, <3>2, JoinIs
  <2>11. PICK v : v = u \o y
    OBVIOUS
  <2>12. (w \o v) \o x = w \o (v \o x) /\ IsSeq(v \o x) /\ IsSeq(v)
    <3>1. IsSeq(v)
      BY <2>10, <2>11
    <3> QED
      BY <2>8, <3>1, JoinAssoc, JoinIs
  <2>13. IsPrefix(w, w \o (v \o x))
    BY <2>8, <2>12, PrefixOfJoin
  <2>14. plan = w \o (v \o x)
    BY <2>9, <2>10, <2>11, <2>12, Zenon
  <2> QED
    BY <2>6, <2>13, <2>14, Zenon
<1> QED
  BY <1>3, <1>5, <1>6, <1>7, <1>8
-------------------------------------------------------------------------------
\* What has been run of what was asked.
DoneOf(r) == FlattenSeq([k \in DOMAIN r |-> Asked(r[k])])
\* Nothing has been run at first.
LEMMA DoneNone == DoneOf(<< >>) = << >>
<1> DEFINE q == [k \in DOMAIN << >> |-> Asked(<< >>[k])]
<1>1. DOMAIN << >> = 1..0
  OBVIOUS
<1>2. Few(q, 0)
  BY <1>1 DEF Few
<1>3. FlattenSeq(q) = << >>
  <2> HIDE DEF q
  <2> QED
    BY <1>2, JoinedNone
<1> QED
  BY <1>3, Zenon DEF DoneOf

\* s is r and x after it.
Longer(r, s, x, n) == /\ n \in Nat /\ DOMAIN r = 1..n /\ DOMAIN s = 1..n + 1
                      /\ s[n + 1] = x /\ \A k \in 1..n : s[k] = r[k]
\* One more call that has been run.
LEMMA DoneNext ==
  ASSUME NEW r, NEW s, NEW x, NEW n, Longer(r, s, x, n)
  PROVE  IsSeq(DoneOf(r)) /\ DoneOf(s) = DoneOf(r) \o Asked(x)
<1> DEFINE q == [k \in DOMAIN r |-> Asked(r[k])]
           t == [k \in DOMAIN s |-> Asked(s[k])]
<1>0. /\ n \in Nat /\ DOMAIN r = 1..n /\ DOMAIN s = 1..n + 1
      /\ s[n + 1] = x /\ \A k \in 1..n : s[k] = r[k]
  BY Zenon DEF Longer
<1>1. Few(q, n)
  BY <1>0, Zenon DEF Few, Asked
<1>2. Few(t, n + 1)
  <2>1. n + 1 \in Nat
    BY <1>0
  <2> QED
    BY <1>0, <2>1, Zenon DEF Few, Asked
<1>3. \A k \in 1..n : t[k] = q[k]
  <2>1. \A k \in 1..n : k \in 1..n + 1
    BY <1>0
  <2> QED
    BY <1>0, <2>1, Zenon
<1>4. t[n + 1] = Asked(x)
  <2>1. n + 1 \in 1..n + 1
    BY <1>0
  <2> QED
    BY <1>0, <2>1, Zenon
<1> HIDE DEF q, t
<1>5. FlattenSeq(t) = FlattenSeq(q) \o t[n + 1]
  BY <1>0, <1>1, <1>2, <1>3, JoinedNext
<1>6. IsSeq(FlattenSeq(q))
  BY <1>1, JoinedSeq
<1> QED
  BY <1>4, <1>5, <1>6, Zenon DEF DoneOf, q, t
-------------------------------------------------------------------------------
\* Where main() is, after what has run, r: at an option j, after all of them, after
\* the script.
Input == cmd \in Commands /\ env \in Environments
AtOption(c, e, j, r, k) == /\ k \in 1..Len(c.options) /\ j = Place(c, k)
                           /\ DoneOf(r) = UpTo(c, e, k - 1)
AllOptions(c, e, r) == ~Has(c, "-b") /\ DoneOf(r) = UpTo(c, e, Len(c.options))
Ready(c, e, r) == ~Has(c, "-b") /\ (~DashBefore(c) => DoneOf(r) = UpToScript(c, e))
Consoles == {"loadline", "loadbuffer", "addline"}
AtIdle(c, e, p, j, r) ==
    /\ p \in {"start", "bundle", "arg", "init", "options", "script", "last"} \cup Consoles
    /\ p = "start" => r = << >>
    /\ p \in {"start", "bundle", "arg", "init"} => j = 1 /\ DoneOf(r) = << >>
    /\ p = "options" => \/ \E k : AtOption(c, e, j, r, k)
                        \/ /\ AllOptions(c, e, r)
                           /\ j \in {Place(c, Len(c.options) + 1), collectargs(Argv(c)).argn}
    /\ p = "script" => AllOptions(c, e, r) /\ c.script # Nothing
    /\ p \in {"last"} \cup Consoles => Ready(c, e, r)
    /\ p \in Consoles => StdinOf(c, e) = << >>
OfOption(o, w, op) ==
    \/ w = o.opt /\ op = o.operand /\ w \in {"-e", "-l", "-j", "-O", "-b"}
    \/ w = "add-on" /\ o.opt \in {"-j", "-b"}
AtOptionCall(c, e, p, j, r, w, op) ==
    p = "options" /\ \E k : AtOption(c, e, j, r, k) /\ OfOption(c.options[k], w, op)
AtCall(c, e, p, j, r, w, op) ==
    \/ w \in {"bundle_loader", "main"} /\ p = "bundle" /\ j = 1 /\ DoneOf(r) = << >>
    \/ /\ w = "init" /\ p = "init" /\ j = 1 /\ DoneOf(r) = << >>
       /\ StartOf(c, e) = << <<"init", op>> >>
    \/ w \in {"-e", "-l", "-j", "-O", "-b", "add-on"} /\ AtOptionCall(c, e, p, j, r, w, op)
    \/ /\ w = "script" /\ p = "script" /\ AllOptions(c, e, r) /\ c.script # Nothing
       /\ op = script_file(Argv(c), collectargs(Argv(c)).argn)
    \/ w = "status" /\ p = "last" /\ Ready(c, e, r) /\ StdinOf(c, e) = << >>
    \/ w = "stdin" /\ p = "last" /\ Ready(c, e, r) /\ StdinOf(c, e) = << <<"stdin", op>> >>
    \/ w = "line" /\ p = "loadbuffer" /\ Ready(c, e, r) /\ StdinOf(c, e) = << >>
    \/ w = "print" /\ p = "loadline" /\ Ready(c, e, r) /\ StdinOf(c, e) = << >>
At_(c, e, p, j, r, l) == IF l = Idle THEN AtIdle(c, e, p, j, r)
                         ELSE AtCall(c, e, p, j, r, l.what, l.operand)
Where == exit = "none" => At_(cmd, env, pc, i, ran, call)

\* How far the plan is.
Untouched(p, l, r, x) == p = "start" /\ l = Idle /\ r = << >> /\ x # "success"
OnPlan(c, e, r) == DashBefore(c) \/ IsPrefix(DoneOf(r), PlanOf(c, e))
Through(c, e, r) == DashBefore(c) \/ PlanOf(c, e) \in {DoneOf(r), Append(DoneOf(r), <<"stdin", Nothing>>)}
Fine == /\ Misused(cmd) => Untouched(pc, call, ran, exit)
        /\ ~Misused(cmd) => OnPlan(cmd, env, ran)
        /\ exit = "success" /\ pc # "bundle" => Through(cmd, env, ran)
WhereInv == SignalInv /\ Input /\ Where /\ Fine
-------------------------------------------------------------------------------
\* What every step of main() that goes on has to show.
LEMMA Moves ==
  ASSUME WhereInv, UNCHANGED <<cmd, env, ran, exit>>, exit = "none", ~Misused(cmd),
         At_(cmd, env, pc', i', ran, call')
  PROVE  Where' /\ Fine'
<1>1. Where'
  BY DEF Where
<1>2. Fine'
  BY Zenon DEF WhereInv, Fine
<1> QED
  BY <1>1, <1>2

\* What a step that ends in failure has to show.
LEMMA Fails ==
  ASSUME WhereInv, UNCHANGED <<cmd, env, ran>>, exit' = "failure",
         ~Misused(cmd) \/ (UNCHANGED <<pc, call>>)
  PROVE  Where' /\ Fine'
<1>1. Where'
  BY DEF Where
<1>2. exit' # "success"
  OBVIOUS
<1>3. Misused(cmd) => Untouched(pc', call', ran', exit')
  BY <1>2, Zenon DEF WhereInv, Fine, Untouched
<1>4. Fine'
  BY <1>2, <1>3, Zenon DEF WhereInv, Fine
<1> QED
  BY <1>1, <1>4

\* What a step that records a call has to show.
LEMMA Records ==
  ASSUME WhereInv, UNCHANGED <<cmd, env>>, ~Misused(cmd), OnPlan(cmd, env, ran'),
         exit' = "none" => At_(cmd, env, pc', i', ran', call'),
         exit' = "success" /\ pc' # "bundle" => Through(cmd, env, ran')
  PROVE  Where' /\ Fine'
<1>1. Where'
  BY Zenon DEF Where
<1>2. Fine'
  BY Zenon DEF Fine
<1> QED
  BY <1>1, <1>2

\* Steps that main() takes no part in.
LEMMA Stays ==
  ASSUME WhereInv, UNCHANGED <<cmd, env, pc, i, ran>>, call' = Idle <=> call = Idle,
         call # Idle => call'.what = call.what /\ call'.operand = call.operand,
         exit' = exit \/ exit' = "killed"
  PROVE  Where' /\ Fine'
<1>1. Where'
  <2> SUFFICES ASSUME exit' = "none" PROVE At_(cmd, env, pc, i, ran, call')
    BY Zenon DEF Where
  <2>1. exit = "none"
    OBVIOUS
  <2>2. At_(cmd, env, pc, i, ran, call)
    BY <2>1, Zenon DEF WhereInv, Where
  <2> QED
    BY <2>2, Zenon DEF At_
<1>2. exit' = "success" => exit = "success"
  OBVIOUS
<1>3. Misused(cmd) => Untouched(pc', call', ran', exit')
  BY <1>2, Zenon DEF WhereInv, Fine, Untouched
<1>4. Fine'
  BY <1>2, <1>3, Zenon DEF WhereInv, Fine
<1> QED
  BY <1>1, <1>4
-------------------------------------------------------------------------------
\* What is known of a command that is right.
Known ==
    /\ WellWritten(cmd) /\ Len(cmd.options) \in Nat /\ DOMAIN cmd.options = 1..Len(cmd.options)
    /\ Place(cmd, 1) = 1 /\ argn # 0
    /\ \A k \in 1..Len(cmd.options) : Place(cmd, k) < argn /\ ~Wrong(cmd, k)
    /\ \A k \in 1..Len(cmd.options) : cmd.options[k].opt = "-b" => k = Len(cmd.options)
\* A command that is right is known.
LEMMA KnownIs ==
  ASSUME WhereInv, ~Misused(cmd)
  PROVE  Known
<1>1. WellWritten(cmd)
  BY CommandsAssumption DEF WhereInv, Input
<1>2. /\ Place(cmd, 1) = 1 /\ Len(cmd.options) \in Nat /\ DOMAIN cmd.options = 1..Len(cmd.options)
      /\ collectargs(Argv(cmd)).argn # 0
      /\ \A k \in 1..Len(cmd.options) : Place(cmd, k) < collectargs(Argv(cmd)).argn /\ ~Wrong(cmd, k)
  BY <1>1, InFront
<1>3. \A k \in 1..Len(cmd.options) : cmd.options[k].opt = "-b" => k = Len(cmd.options)
  BY <1>1, MisusedIs
<1> QED
  BY <1>1, <1>2, <1>3, Zenon DEF Known, argn, argv

\* main() goes past its start with a right command only.
LEMMA RightIs == WhereInv /\ (pc # "start" \/ call # Idle) => ~Misused(cmd)
  BY DEF WhereInv, Fine, Untouched

\* A call begins or ends; a record is added.
LEMMA BeginsAs ==
  ASSUME NEW what, NEW op, NEW s, NEW narg, NEW guard, Begin(what, op, s, narg, guard)
  PROVE  call' # Idle /\ call'.what = what /\ call'.operand = op
<1>1. call' # Idle
  BY Begins
<1> QED
  BY <1>1 DEF Begin
\* A call that ends is still the same call.
LEMMA EndsAs ==
  ASSUME Shape, call # Idle, NEW outcome, NEW results, Leaves(outcome, results)
  PROVE  call' # Idle /\ call'.what = call.what /\ call'.operand = call.operand
<1>1. DOMAIN call = CallFields
  BY DEF Shape
<1>2. call'.what = call.what /\ call'.operand = call.operand
  BY <1>1 DEF Leaves, CallFields
<1> QED
  BY <1>2, Ends
\* GoOn records the call that is over.
LEMMA DoneGoesOn ==
  ASSUME WhereInv, GoOn
  PROVE  /\ IsSeq(DoneOf(ran))
         /\ DoneOf(ran') = DoneOf(ran) \o (IF call.what \in {"main", "status", "line", "print"} THEN << >>
                                           ELSE << <<call.what, call.operand>> >>)
<1>1. Added(CallRecord)
  BY GoesOn
<1>2. /\ Len(ran) \in Nat /\ DOMAIN ran = 1..Len(ran) /\ DOMAIN ran' = 1..(Len(ran) + 1)
      /\ ran'[Len(ran) + 1] = CallRecord
      /\ \A k \in 1..Len(ran) : ran'[k] = ran[k]
  BY <1>1, AddedIs DEF WhereInv, SignalInv
<1>3. IsSeq(DoneOf(ran)) /\ DoneOf(ran') = DoneOf(ran) \o Asked(CallRecord)
  <2>1. Longer(ran, ran', CallRecord, Len(ran))
    BY <1>2, Zenon DEF Longer
  <2> QED
    BY <2>1, DoneNext
<1>4. Asked(CallRecord) = IF call.what \in {"main", "status", "line", "print"} THEN << >>
                          ELSE << <<call.what, call.operand>> >>
  <2>1. CallRecord.what = call.what /\ CallRecord.operand = call.operand
    BY DEF CallRecord
  <2> QED
    BY <2>1, Zenon DEF Asked
<1> QED
  BY <1>3, <1>4, Zenon
\* Calls that no option asks for do not count.
LEMMA DoneSame ==
  ASSUME WhereInv, GoOn, call.what \in {"main", "status", "line", "print"}
  PROVE  DoneOf(ran') = DoneOf(ran)
<1>1. IsSeq(DoneOf(ran)) /\ DoneOf(ran') = DoneOf(ran) \o << >>
  BY DoneGoesOn, Zenon
<1> QED
  BY <1>1, JoinNone
-------------------------------------------------------------------------------
\* runargs() goes on to the option after k, or past all of them.
LEMMA Onward ==
  ASSUME Known, NEW k \in 0..Len(cmd.options), NEW j, j = Place(cmd, k + 1), NEW r,
         DoneOf(r) = UpTo(cmd, env, k), k = Len(cmd.options) => ~Has(cmd, "-b")
  PROVE  AtIdle(cmd, env, "options", j, r)
<1>1. AtIdle(cmd, env, "options", j, r) <=>
        \/ \E m : AtOption(cmd, env, j, r, m)
        \/ /\ AllOptions(cmd, env, r)
           /\ j \in {Place(cmd, Len(cmd.options) + 1), collectargs(Argv(cmd)).argn}
  BY Zenon DEF AtIdle, Consoles
<1>2. CASE k = Len(cmd.options)
  <2>1. AllOptions(cmd, env, r)
    BY <1>2, Zenon DEF AllOptions
  <2> QED
    BY <1>1, <1>2, <2>1, Zenon
<1>3. CASE k # Len(cmd.options)
  <2>1. k + 1 \in 1..Len(cmd.options) /\ (k + 1) - 1 = k
    BY <1>3 DEF Known
  <2>2. AtOption(cmd, env, j, r, k + 1)
    BY <2>1, Zenon DEF AtOption
  <2> QED
    BY <1>1, <2>2, Zenon
<1> QED
  BY <1>2, <1>3

\* the last option is -b, or none is
LEMMA LastOption ==
  ASSUME Known, NEW k \in 1..Len(cmd.options), cmd.options[k].opt # "-b"
  PROVE  k = Len(cmd.options) => ~Has(cmd, "-b")
  BY Zenon DEF Known, Has
\* The option -b is the last.
LEMMA BytecodeLast ==
  ASSUME Known, NEW k \in 1..Len(cmd.options), cmd.options[k].opt = "-b"
  PROVE  k = Len(cmd.options) /\ Has(cmd, "-b")
  BY Zenon DEF Known, Has

\* The option that runargs() is at, or --.
AtAnOption(k) == /\ AtOption(cmd, env, i, ran, k) /\ Read(cmd, k)
                 /\ argv[i].head = cmd.options[k].opt /\ k \in 1..Len(cmd.options)
AtDashes == AllOptions(cmd, env, ran) /\ i + 1 = argn /\ argv[i].head = "--"
\* runargs() reads the option that it is at.
LEMMA ReadAt ==
  ASSUME Known, NEW k, AtOption(cmd, env, i, ran, k)
  PROVE  AtAnOption(k)
<1>1. k \in 1..Len(cmd.options) /\ i = Place(cmd, k)
  BY Zenon DEF AtOption
<1>2. WellWritten(cmd) /\ ~Wrong(cmd, k)
  BY <1>1, Zenon DEF Known
<1>3. Read(cmd, k)
  BY <1>1, <1>2, OptionIsRead
<1>4. argv[i].head = cmd.options[k].opt
  BY <1>1, <1>3, Zenon DEF Read, argv
<1> QED
  BY <1>1, <1>3, <1>4, Zenon DEF AtAnOption
\* Short of the end, it is at an option or at --.
LEMMA AtHead ==
  ASSUME WhereInv, exit = "none", call = Idle, pc = "options", i < argn
  PROVE  Known /\ ~Misused(cmd) /\ ((\E k : AtAnOption(k)) \/ AtDashes)
<1>1. ~Misused(cmd) /\ Known
  BY RightIs, KnownIs
<1>2. AtIdle(cmd, env, pc, i, ran)
  BY Zenon DEF WhereInv, Where, At_
<1>3. CASE \E k : AtOption(cmd, env, i, ran, k)
  BY <1>1, <1>3, ReadAt
<1>4. CASE /\ AllOptions(cmd, env, ran)
           /\ i \in {Place(cmd, Len(cmd.options) + 1), collectargs(Argv(cmd)).argn}
  <2> DEFINE q == Place(cmd, Len(cmd.options) + 1)
  <2>1. Behind(cmd)
    BY <1>1, <1>4, BehindIs, Zenon DEF Known, AllOptions
  <2>2. q \in Nat /\ argn = (IF cmd.dashes THEN q + 1 ELSE q) /\ (cmd.dashes => argv[q] = Dashes)
    BY <2>1, Zenon DEF Behind, argn, argv
  <2>3. i = q \/ i = argn
    BY <1>4, Zenon DEF argn, argv
  <2> HIDE DEF q
  <2>4. CASE cmd.dashes
    <3>1. argn = q + 1 /\ argv[q] = Dashes
      BY <2>2, <2>4
    <3>2. i = q
      BY <2>2, <2>3, <3>1
    <3>3. argv[i].head = "--"
      <4>1. Dashes.head = "--"
        BY DEF Dashes, Arg
      <4> QED
        BY <3>1, <3>2, <4>1, Zenon
    <3> QED
      BY <1>1, <1>4, <3>1, <3>2, <3>3, Zenon DEF AtDashes
  <2>5. CASE ~cmd.dashes
    <3>1. argn = q
      BY <2>2, <2>5
    <3> QED
      BY <2>2, <2>3, <3>1
  <2> QED
    BY <2>4, <2>5
<1> QED
  BY <1>2, <1>3, <1>4, Zenon DEF AtIdle
\* What is known when it is at an option of the kinds in H.
LEMMA AtTheOption ==
  ASSUME WhereInv, NEW H, Option_at(H), "--" \notin H
  PROVE  /\ Known /\ ~Misused(cmd) /\ exit = "none" /\ call = Idle /\ pc = "options"
         /\ \E k : AtAnOption(k) /\ cmd.options[k].opt \in H
<1>1. exit = "none" /\ call = Idle /\ pc = "options" /\ i < argn /\ argv[i].head \in H
  BY DEF Option_at, Step
<1>2. Known /\ ~Misused(cmd) /\ ((\E k : AtAnOption(k)) \/ AtDashes)
  BY <1>1, AtHead
<1>3. ~AtDashes
  BY <1>1, Zenon DEF AtDashes
<1>4. PICK k : AtAnOption(k)
  BY <1>2, <1>3
<1>5. cmd.options[k].opt \in H
  BY <1>1, <1>4, Zenon DEF AtAnOption
<1> QED
  BY <1>1, <1>2, <1>4, <1>5, Zenon
-------------------------------------------------------------------------------
\* The steps before the options.
LEMMA MainWhere == WhereInv /\ main => Where' /\ Fine'
<1> SUFFICES ASSUME WhereInv, main PROVE Where' /\ Fine'
  OBVIOUS
<1>1. /\ pc = "start" /\ exit = "none" /\ call = Idle /\ call' = call /\ i' = i
      /\ UNCHANGED <<cmd, env, ran>>
      /\ IF argn = 0 THEN exit' = "failure" /\ pc' = pc ELSE pc' = "bundle" /\ exit' = exit
  BY DEF main, Step, Quiet, Exit, Goto, input
<1>2. AtIdle(cmd, env, "start", i, ran)
  BY <1>1, Zenon DEF WhereInv, Where, At_
<1>3. CASE argn = 0
  BY <1>1, <1>3, Fails
<1>4. CASE argn # 0
  <2>1. ~Misused(cmd)
    BY <1>4, WrongIsRefused, CommandsAssumption DEF WhereInv, Input, argn, argv
  <2>2. pc' = "bundle" /\ exit' = exit
    BY <1>1, <1>4
  <2>3. AtIdle(cmd, env, "bundle", i, ran)
    BY <1>2, Zenon DEF AtIdle, Consoles
  <2>4. At_(cmd, env, pc', i', ran, call')
    BY <1>1, <2>2, <2>3, Zenon DEF At_
  <2> QED
    BY <1>1, <2>1, <2>2, <2>4, Moves
<1> QED
  BY <1>3, <1>4

\* The main function of a bundle is asked for.
LEMMA BundleWhere == WhereInv /\ bundle_main => Where' /\ Fine'
<1> SUFFICES ASSUME WhereInv, bundle_main PROVE Where' /\ Fine'
  OBVIOUS
<1>1. /\ pc = "bundle" /\ exit = "none" /\ call = Idle /\ i' = i
      /\ UNCHANGED <<cmd, env, ran, exit>> /\ pc' = "bundle"
      /\ Begin("bundle_loader", Word("bundle_loader"),
               stack \o <<Value("require"), Word("bundle_loader")>>, 1, "pcall")
  BY DEF bundle_main, Step, Goto, input
<1>2. call' # Idle /\ call'.what = "bundle_loader"
  BY <1>1, BeginsAs
<1>3. AtIdle(cmd, env, "bundle", i, ran) /\ ~Misused(cmd)
  BY <1>1, RightIs, Zenon DEF WhereInv, Where, At_
<1>4. AtCall(cmd, env, pc', i', ran, call'.what, call'.operand)
  BY <1>1, <1>2, <1>3, Zenon DEF AtCall, AtIdle
<1>5. At_(cmd, env, pc', i', ran, call')
  BY <1>2, <1>4, Zenon DEF At_
<1> QED
  BY <1>1, <1>3, <1>5, Moves

\* It is loaded, or there is none.
LEMMA LoadedWhere == WhereInv /\ bundle_loaded => Where' /\ Fine'
<1> SUFFICES ASSUME WhereInv, bundle_loaded PROVE Where' /\ Fine'
  OBVIOUS
<1> DEFINE Begun == \E s, narg : Begin("main", Nothing, s, narg, "call")
<1>1. /\ exit = "none" /\ call # Idle /\ call.what = "bundle_loader" /\ i' = i
      /\ UNCHANGED <<cmd, env, ran>>
      /\ \/ pc' = "arg" /\ exit' = exit /\ call' = Idle
         \/ Begun /\ pc' = pc /\ exit' = exit
         \/ call' = Idle /\ pc' = pc /\ exit' \in {"success", "failure"}
  BY DEF bundle_loaded, Returned, Fallback, Goto, Exit, input
<1>2. ~Misused(cmd) /\ AtCall(cmd, env, pc, i, ran, call.what, call.operand)
  BY <1>1, RightIs, Zenon DEF WhereInv, Where, At_
<1>3. pc = "bundle" /\ i = 1 /\ DoneOf(ran) = << >>
  <2>1. /\ "bundle_loader" \notin {"-e", "-l", "-j", "-O", "-b", "add-on"}
        /\ "bundle_loader" \notin {"init", "script", "status", "stdin", "line", "print"}
    OBVIOUS
  <2> QED
    BY <1>1, <1>2, <2>1, Zenon DEF AtCall
<1>4. CASE pc' = "arg" /\ exit' = exit /\ call' = Idle
  <2>1. At_(cmd, env, pc', i', ran, call')
    BY <1>1, <1>3, <1>4 DEF At_, AtIdle, Consoles
  <2> QED
    BY <1>1, <1>2, <1>4, <2>1, Moves
<1>5. CASE Begun /\ pc' = pc /\ exit' = exit
  <2>1. call' # Idle /\ call'.what = "main"
    BY <1>5, BeginsAs
  <2>2. AtCall(cmd, env, pc', i', ran, call'.what, call'.operand)
    BY <1>1, <1>3, <1>5, <2>1, Zenon DEF AtCall
  <2>3. At_(cmd, env, pc', i', ran, call')
    BY <2>1, <2>2, Zenon DEF At_
  <2> QED
    BY <1>1, <1>2, <1>5, <2>3, Moves
<1>6. CASE call' = Idle /\ pc' = pc /\ exit' \in {"success", "failure"}
  <2>1. OnPlan(cmd, env, ran')
    BY <1>1, <1>2, Zenon DEF WhereInv, Fine
  <2>2. exit' # "none"
    BY <1>6
  <2> QED
    BY <1>1, <1>2, <1>3, <1>6, <2>1, <2>2, Records
<1> QED
  BY <1>1, <1>4, <1>5, <1>6

\* It returns.
LEMMA MainDoneWhere == WhereInv /\ main_returned => Where' /\ Fine'
<1> SUFFICES ASSUME WhereInv, main_returned PROVE Where' /\ Fine'
  OBVIOUS
<1>1. /\ call # Idle /\ call.what = "main" /\ i' = i /\ GoOn /\ call' = Idle
      /\ exit = "none" /\ UNCHANGED <<cmd, env>>
      /\ \/ exit' = "success" /\ pc' = pc
         \/ exit' = exit /\ pc' = "arg"
  BY DEF main_returned, Returned, GoOn, Over, Exit, Goto, input
<1>2. ~Misused(cmd) /\ AtCall(cmd, env, pc, i, ran, call.what, call.operand)
  BY <1>1, RightIs, Zenon DEF WhereInv, Where, At_
<1>3. pc = "bundle" /\ i = 1 /\ DoneOf(ran) = << >>
  <2>1. /\ "main" \notin {"-e", "-l", "-j", "-O", "-b", "add-on"}
        /\ "main" \notin {"init", "script", "status", "stdin", "line", "print"}
    OBVIOUS
  <2> QED
    BY <1>1, <1>2, <2>1, Zenon DEF AtCall
<1>4. DoneOf(ran') = << >>
  BY <1>1, <1>3, DoneSame
<1>5. OnPlan(cmd, env, ran')
  BY <1>2, <1>3, <1>4, Zenon DEF WhereInv, Fine, OnPlan
<1>6. pc' = "arg" => At_(cmd, env, pc', i', ran', call')
  BY <1>1, <1>3, <1>4 DEF At_, AtIdle, Consoles
<1>7. exit' = "none" => pc' = "arg"
  BY <1>1
<1>8. exit' = "success" => pc' = "bundle"
  BY <1>1, <1>3
<1> QED
  BY <1>1, <1>2, <1>5, <1>6, <1>7, <1>8, Records

\* The global arg is set.
LEMMA ArgWhere == WhereInv /\ arg_table => Where' /\ Fine'
<1> SUFFICES ASSUME WhereInv, arg_table PROVE Where' /\ Fine'
  OBVIOUS
<1>1. /\ pc = "arg" /\ exit = "none" /\ call = Idle /\ call' = call /\ i' = i
      /\ UNCHANGED <<cmd, env, ran, exit>> /\ pc' = "init"
  BY DEF arg_table, Step, Quiet, Goto, input
<1>2. AtIdle(cmd, env, "arg", i, ran) /\ ~Misused(cmd)
  BY <1>1, RightIs, Zenon DEF WhereInv, Where, At_
<1>3. i = 1 /\ DoneOf(ran) = << >>
  BY <1>2, Zenon DEF AtIdle
<1>4. At_(cmd, env, pc', i', ran, call')
  BY <1>1, <1>3 DEF At_, AtIdle, Consoles
<1> QED
  BY <1>1, <1>2, <1>4, Moves
-------------------------------------------------------------------------------
\* What LUA_INIT asks for.
LEMMA InitAsked ==
  ASSUME WhereInv, ~Misused(cmd)
  PROVE  StartOf(cmd, env) = IF env.init /\ "NOENV" \notin flags THEN << <<"init", Nothing>> >> ELSE << >>
<1>1. Known
  BY KnownIs
<1>2. Taken(cmd, collectargs(Argv(cmd)))
  BY <1>1, RightIsTaken DEF Known
<1>3. "NOENV" \in flags <=> Has2(cmd, {"-E"})
  BY <1>2, Zenon DEF Taken, flags, argv
<1>4. Has2(cmd, {"-E"}) <=> Has(cmd, "-E")
  BY <1>1, Zenon DEF Has, Has2, Known
<1> QED
  BY <1>3, <1>4, Zenon DEF StartOf

\* LUA_INIT begins, or is passed over.
LEMMA InitWhere == WhereInv /\ handle_luainit => Where' /\ Fine'
<1> SUFFICES ASSUME WhereInv, handle_luainit PROVE Where' /\ Fine'
  OBVIOUS
<1> DEFINE Begun == \E s, narg : Begin("init", Nothing, s, narg, "docall")
<1>1. /\ pc = "init" /\ exit = "none" /\ call = Idle /\ i' = i
      /\ UNCHANGED <<cmd, env, ran, exit>>
      /\ IF env.init /\ "NOENV" \notin flags THEN Begun /\ pc' = "init"
         ELSE pc' = "options" /\ call' = Idle
  BY DEF handle_luainit, Step, Quiet, Goto, input
<1>2. AtIdle(cmd, env, "init", i, ran) /\ ~Misused(cmd)
  BY <1>1, RightIs, Zenon DEF WhereInv, Where, At_
<1>3. i = 1 /\ DoneOf(ran) = << >> /\ Known
  BY <1>2, KnownIs, Zenon DEF AtIdle
<1>4. CASE env.init /\ "NOENV" \notin flags
  <2>1. StartOf(cmd, env) = << <<"init", Nothing>> >>
    BY <1>2, <1>4, InitAsked
  <2>2. Begun /\ pc' = "init"
    BY <1>1, <1>4
  <2>3. call' # Idle /\ call'.what = "init" /\ call'.operand = Nothing
    BY <2>2, BeginsAs
  <2>4. AtCall(cmd, env, pc', i', ran, call'.what, call'.operand)
    BY <1>1, <1>3, <2>1, <2>2, <2>3, Zenon DEF AtCall
  <2>5. At_(cmd, env, pc', i', ran, call')
    BY <2>3, <2>4, Zenon DEF At_
  <2> QED
    BY <1>1, <1>2, <2>5, Moves
<1>5. CASE ~(env.init /\ "NOENV" \notin flags)
  <2>1. StartOf(cmd, env) = << >>
    BY <1>2, <1>5, InitAsked
  <2>2. pc' = "options" /\ call' = Idle
    BY <1>1, <1>5
  <2>3. UpTo(cmd, env, 0) = << >>
    BY <2>1, PartsAreSeqs
  <2>4. 0 \in 0..Len(cmd.options) /\ 0 + 1 = 1 /\ i' = Place(cmd, 0 + 1)
        /\ (0 = Len(cmd.options) => ~Has(cmd, "-b"))
    BY <1>1, <1>3 DEF Known, Has
  <2>5. AtIdle(cmd, env, "options", i', ran)
    BY <1>3, <2>3, <2>4, Onward
  <2>6. At_(cmd, env, pc', i', ran, call')
    BY <2>2, <2>5, Zenon DEF At_
  <2> QED
    BY <1>1, <1>2, <2>6, Moves
<1> QED
  BY <1>4, <1>5

\* Chunks that do not compile.
LEMMA BadWhere == WhereInv /\ (init_bad \/ dostring_bad \/ script_bad) => Where' /\ Fine'
<1> SUFFICES ASSUME WhereInv, init_bad \/ dostring_bad \/ script_bad PROVE Where' /\ Fine'
  OBVIOUS
<1>1. /\ pc \in {"init", "options", "script"} /\ UNCHANGED <<cmd, env, ran, pc, call>>
      /\ exit' = "failure"
  BY DEF init_bad, dostring_bad, script_bad, NoChunk, Step, Quiet, Exit, input
<1> QED
  BY <1>1, Fails
-------------------------------------------------------------------------------
\* An option that asks for nothing, and the -- after the options.
LEMMA FlagWhere == WhereInv /\ flag_option => Where' /\ Fine'
<1> SUFFICES ASSUME WhereInv, flag_option PROVE Where' /\ Fine'
  OBVIOUS
<1>1. /\ pc = "options" /\ exit = "none" /\ call = Idle /\ call' = call /\ i' = i + 1 /\ i < argn
      /\ argv[i].head \in {"-i", "-v", "-E", "--"}
      /\ UNCHANGED <<cmd, env, ran, exit>> /\ pc' = "options"
  BY DEF flag_option, Option_at, Step, Quiet, Goto, input
<1>2. Known /\ ~Misused(cmd) /\ ((\E k : AtAnOption(k)) \/ AtDashes)
  BY <1>1, AtHead
<1>3. ASSUME NEW k, AtAnOption(k)
      PROVE  AtIdle(cmd, env, "options", i', ran)
  <2>1. /\ k \in 1..Len(cmd.options) /\ i = Place(cmd, k) /\ DoneOf(ran) = UpTo(cmd, env, k - 1)
        /\ Read(cmd, k) /\ argv[i].head = cmd.options[k].opt
    BY <1>3, Zenon DEF AtAnOption, AtOption
  <2>2. cmd.options[k].opt \in {"-i", "-v", "-E"}
    <3>1. cmd.options[k].opt # "--"
      BY <2>1 DEF Read, Opts, TakesNext
    <3> QED
      BY <1>1, <2>1, <3>1
  <2>3. Place(cmd, k + 1) = Place(cmd, k) + 1
    <3>1. cmd.options[k].opt \notin TakesNext
      BY <2>2 DEF TakesNext
    <3> QED
      BY <2>1, <3>1, Zenon DEF Read
  <2>4. i' = Place(cmd, k + 1)
    BY <1>1, <2>1, <2>3
  <2>5. k - 1 \in Nat /\ (k - 1) + 1 = k /\ k \in 0..Len(cmd.options)
    BY <1>2, <2>1 DEF Known
  <2>6. Asks(cmd.options[k]) = << >>
    BY <2>2 DEF Asks
  <2>7. IsSeq(UpTo(cmd, env, k - 1)) /\ UpTo(cmd, env, k) = UpTo(cmd, env, k - 1) \o << >>
    <3>1. /\ IsSeq(UpTo(cmd, env, k - 1))
          /\ UpTo(cmd, env, (k - 1) + 1) = UpTo(cmd, env, k - 1) \o Asks(cmd.options[(k - 1) + 1])
      BY <2>5, PartsAreSeqs
    <3> QED
      BY <2>5, <2>6, <3>1, Zenon
  <2>8. UpTo(cmd, env, k) = UpTo(cmd, env, k - 1)
    BY <2>7, JoinNone
  <2>9. k = Len(cmd.options) => ~Has(cmd, "-b")
    BY <1>2, <2>1, <2>2, LastOption
  <2> QED
    BY <1>2, <2>1, <2>4, <2>5, <2>8, <2>9, Onward
<1>4. ASSUME AtDashes
      PROVE  AtIdle(cmd, env, "options", i', ran)
  <2>1. AllOptions(cmd, env, ran) /\ i' = collectargs(Argv(cmd)).argn
    BY <1>1, <1>4, Zenon DEF AtDashes, argn, argv
  <2> QED
    BY <2>1, Zenon DEF AtIdle, Consoles
<1>5. At_(cmd, env, pc', i', ran, call')
  BY <1>1, <1>2, <1>3, <1>4, Zenon DEF At_
<1> QED
  BY <1>1, <1>2, <1>5, Moves

\* An option that runs something: -e, -l, -j and -O, and the add-on that -j or -b asks for.
LEMMA CallWhere ==
  ASSUME WhereInv, NEW H, Option_at(H), "--" \notin H, Goto("options"), UNCHANGED i,
         NEW what, NEW op, NEW s, NEW narg, NEW guard, Begin(what, op, s, narg, guard),
         \/ what = argv[i].head /\ what \in {"-e", "-l", "-j", "-O"} /\ op = Op
         \/ what = "add-on" /\ argv[i].head \in {"-j", "-b"}
  PROVE  Where' /\ Fine'
<1>1. /\ Known /\ ~Misused(cmd) /\ exit = "none" /\ call = Idle /\ pc = "options"
      /\ \E k : AtAnOption(k) /\ cmd.options[k].opt \in H
  BY AtTheOption
<1>2. PICK k : AtAnOption(k)
  BY <1>1
<1>3. /\ k \in 1..Len(cmd.options) /\ i = Place(cmd, k) /\ AtOption(cmd, env, i, ran, k)
      /\ operand(argv, i) = cmd.options[k].operand /\ argv[i].head = cmd.options[k].opt
  BY <1>2, Zenon DEF AtAnOption, AtOption, Read, argv
<1>4. UNCHANGED <<cmd, env, ran, exit>> /\ pc' = "options" /\ i' = i
  BY DEF Option_at, Step, Goto, input
<1>5. call' # Idle /\ call'.what = what /\ call'.operand = op
  BY BeginsAs
<1>6. OfOption(cmd.options[k], what, op)
  <2>1. Op = cmd.options[k].operand
    BY <1>3 DEF Op
  <2> QED
    BY <1>3, <2>1 DEF OfOption
<1>7. what \in {"-e", "-l", "-j", "-O", "-b", "add-on"}
  OBVIOUS
<1>8. AtOptionCall(cmd, env, pc', i', ran, call'.what, call'.operand)
  BY <1>3, <1>4, <1>5, <1>6, Zenon DEF AtOptionCall
<1>9. AtCall(cmd, env, pc', i', ran, call'.what, call'.operand)
  BY <1>5, <1>7, <1>8, Zenon DEF AtCall
<1>10. At_(cmd, env, pc', i', ran, call')
  BY <1>5, <1>9, Zenon DEF At_
<1> QED
  BY <1>1, <1>4, <1>10, Moves
\* The code of an option begins.
LEMMA OptionWhere ==
  WhereInv /\ (dostring \/ dolibrary \/ runcmdopt \/ loadjitmodule) => Where' /\ Fine'
<1>1. ASSUME WhereInv, dostring
      PROVE  Where' /\ Fine'
  <2>1. /\ Option_at({"-e"}) /\ Goto("options") /\ UNCHANGED i
        /\ Begin("-e", Op, Chunk("-e", Op), 0, "docall") /\ argv[i].head = "-e"
    BY <1>1 DEF dostring, Option_at
  <2>2. "--" \notin {"-e"}
    OBVIOUS
  <2> QED
    BY <1>1, <2>1, <2>2, CallWhere
<1>2. ASSUME WhereInv, dolibrary
      PROVE  Where' /\ Fine'
  <2>1. /\ Option_at({"-l"}) /\ Goto("options") /\ UNCHANGED i
        /\ Begin("-l", Op, stack \o <<Value("require"), Op>>, 1, "docall") /\ argv[i].head = "-l"
    BY <1>2 DEF dolibrary, Option_at
  <2>2. "--" \notin {"-l"}
    OBVIOUS
  <2> QED
    BY <1>2, <2>1, <2>2, CallWhere
<1>3. ASSUME WhereInv, runcmdopt
      PROVE  Where' /\ Fine'
  <2>1. /\ Option_at({"-j", "-O"}) /\ Goto("options") /\ UNCHANGED i
        /\ argv[i].head \in {"-j", "-O"}
        /\ \E s, n : Begin(argv[i].head, Op, s, n, "pcall")
    BY <1>3, Zenon DEF runcmdopt, Option_at
  <2>2. "--" \notin {"-j", "-O"}
    OBVIOUS
  <2> QED
    BY <1>3, <2>1, <2>2, CallWhere
<1>4. ASSUME WhereInv, loadjitmodule
      PROVE  Where' /\ Fine'
  <2>1. /\ Option_at({"-j", "-b"}) /\ Goto("options") /\ UNCHANGED i /\ argv[i].head \in {"-j", "-b"}
        /\ \E op, s : Begin("add-on", op, s, 1, "pcall")
    BY <1>4, Zenon DEF loadjitmodule, Option_at
  <2>2. "--" \notin {"-j", "-b"}
    OBVIOUS
  <2> QED
    BY <1>4, <2>1, <2>2, CallWhere
<1> QED
  BY <1>1, <1>2, <1>3, <1>4
-------------------------------------------------------------------------------
\* The option whose code has returned.
LEMMA AtOptionIs ==
  ASSUME WhereInv, exit = "none", call # Idle, call.what \in {"-e", "-l", "-j", "-O", "-b", "add-on"}
  PROVE  /\ Known /\ ~Misused(cmd) /\ pc = "options"
         /\ \E k : AtOption(cmd, env, i, ran, k) /\ AtAnOption(k)
                   /\ OfOption(cmd.options[k], call.what, call.operand)
<1>1. ~Misused(cmd) /\ AtCall(cmd, env, pc, i, ran, call.what, call.operand)
  BY RightIs, Zenon DEF WhereInv, Where, At_
<1>2. Known
  BY <1>1, KnownIs
<1>3. call.what \notin {"bundle_loader", "main", "init", "script", "status", "stdin", "line", "print"}
  OBVIOUS
<1>4. AtOptionCall(cmd, env, pc, i, ran, call.what, call.operand)
  BY <1>1, <1>3, Zenon DEF AtCall
<1>5. PICK k : AtOption(cmd, env, i, ran, k) /\ OfOption(cmd.options[k], call.what, call.operand)
  BY <1>4, Zenon DEF AtOptionCall
<1>6. AtAnOption(k)
  BY <1>2, <1>5, ReadAt
<1> QED
  BY <1>1, <1>2, <1>4, <1>5, <1>6, Zenon DEF AtOptionCall

\* An add-on module is loaded for -j or -b, or is not.
LEMMA AddOnWhere == WhereInv /\ add_on_loaded => Where' /\ Fine'
<1> SUFFICES ASSUME WhereInv, add_on_loaded PROVE Where' /\ Fine'
  OBVIOUS
<1> DEFINE Begun(w) == \E s, narg : Begin(w, Op, s, narg, "pcall")
<1>1. /\ exit = "none" /\ call # Idle /\ call.what = "add-on" /\ i' = i
      /\ UNCHANGED <<cmd, env, ran>>
      /\ \/ exit' = "failure" /\ call' = Idle /\ pc' = pc
         \/ exit' = exit /\ pc' = pc /\ argv[i].head = "-b" /\ Begun("-b")
         \/ exit' = exit /\ pc' = pc /\ argv[i].head # "-b" /\ Begun("-j")
  BY DEF add_on_loaded, Returned, Exit, input
<1>2. PICK k : /\ Known /\ ~Misused(cmd) /\ pc = "options"
               /\ AtOption(cmd, env, i, ran, k) /\ AtAnOption(k)
               /\ OfOption(cmd.options[k], call.what, call.operand)
  BY <1>1, AtOptionIs
<1>3. cmd.options[k].opt \in {"-j", "-b"}
  <2>1. "add-on" \notin {"-e", "-l", "-j", "-O", "-b"}
    OBVIOUS
  <2> QED
    BY <1>1, <1>2, <2>1, Zenon DEF OfOption
<1>4. /\ k \in 1..Len(cmd.options) /\ i = Place(cmd, k) /\ argv[i].head = cmd.options[k].opt
      /\ Op = cmd.options[k].operand
  BY <1>2, Zenon DEF AtAnOption, AtOption, Read, argv, Op
<1>5. CASE exit' = "failure"
  BY <1>1, <1>2, <1>5, Fails
<1>6. ASSUME NEW w, w \in {"-j", "-b"}, w = argv[i].head, exit' = exit, pc' = pc, Begun(w)
      PROVE  Where' /\ Fine'
  <2>1. call' # Idle /\ call'.what = w /\ call'.operand = Op
    BY <1>6, BeginsAs
  <2>2. OfOption(cmd.options[k], w, Op)
    BY <1>4, <1>6 DEF OfOption
  <2>3. AtOptionCall(cmd, env, pc', i', ran, call'.what, call'.operand)
    BY <1>1, <1>2, <1>6, <2>1, <2>2, Zenon DEF AtOptionCall
  <2>4. w \in {"-e", "-l", "-j", "-O", "-b", "add-on"}
    BY <1>6
  <2>5. AtCall(cmd, env, pc', i', ran, call'.what, call'.operand)
    BY <2>1, <2>3, <2>4, Zenon DEF AtCall
  <2>6. At_(cmd, env, pc', i', ran, call')
    BY <2>1, <2>5, Zenon DEF At_
  <2> QED
    BY <1>1, <1>2, <1>6, <2>6, Moves
<1>7. CASE exit' = exit /\ pc' = pc /\ argv[i].head = "-b" /\ Begun("-b")
  BY <1>6, <1>7
<1>8. CASE exit' = exit /\ pc' = pc /\ argv[i].head # "-b" /\ Begun("-j")
  <2>1. argv[i].head = "-j"
    BY <1>3, <1>4, <1>8
  <2> QED
    BY <1>6, <1>8, <2>1
<1> QED
  BY <1>1, <1>5, <1>7, <1>8

\* -b is the end of the plan.
LEMMA BytecodeEnds ==
  ASSUME Known, Has(cmd, "-b")
  PROVE  PlanOf(cmd, env) = UpTo(cmd, env, Len(cmd.options))
<1>1. ScriptOf(cmd) = << >> /\ StdinOf(cmd, env) = << >>
  BY Zenon DEF ScriptOf, StdinOf
<1>2. IsSeq(UpTo(cmd, env, Len(cmd.options)))
  BY PartsAreSeqs DEF Known
<1>3. UpToScript(cmd, env) = UpTo(cmd, env, Len(cmd.options))
  BY <1>1, <1>2, JoinNone DEF UpToScript
<1>4. PlanOf(cmd, env) = UpToScript(cmd, env) \o << >>
  <2>1. PlanOf(cmd, env) = UpToScript(cmd, env) \o StdinOf(cmd, env)
    BY PlanIs DEF Known
  <2> QED
    BY <1>1, <2>1
<1> QED
  BY <1>2, <1>3, <1>4, JoinNone

\* When the code of LUA_INIT or of an option is over, one more is done.
LEMMA OptionDoneWhere == WhereInv /\ option_done => Where' /\ Fine'
<1> SUFFICES ASSUME WhereInv, option_done PROVE Where' /\ Fine'
  OBVIOUS
<1>1. /\ exit = "none" /\ call # Idle /\ GoOn /\ call' = Idle /\ UNCHANGED <<cmd, env>>
      /\ call.what \in {"init", "-e", "-l", "-j", "-O", "-b"}
      /\ \/ call.what = "-b" /\ exit' = "success" /\ pc' = pc /\ i' = i
         \/ exit' = "failure"
         \/ call.what = "init" /\ exit' = exit /\ pc' = "options" /\ i' = i
         \/ call.what \notin {"init", "-b"} /\ exit' = exit /\ pc' = "options"
            /\ i' = next_option(argv, i)
  <2>1. /\ exit = "none" /\ call # Idle /\ GoOn /\ call' = Idle /\ UNCHANGED <<cmd, env>>
        /\ call.what \in {"init", "-e", "-l", "-j", "-O", "-b"}
    BY DEF option_done, Returned, GoOn, Over, input
  <2>2. CASE call.what = "-b"
    BY <2>1, <2>2 DEF option_done, Exit
  <2>3. CASE call.what # "-b" /\ Stops
    BY <2>1, <2>3 DEF option_done, Exit
  <2>4. CASE call.what # "-b" /\ ~Stops
    BY <2>1, <2>4 DEF option_done, Goto
  <2> QED
    BY <2>2, <2>3, <2>4
<1>2. ~Misused(cmd) /\ Known
  BY <1>1, RightIs, KnownIs
<1>3. /\ IsSeq(DoneOf(ran))
      /\ DoneOf(ran') = DoneOf(ran) \o << <<call.what, call.operand>> >>
  <2>1. call.what \notin {"main", "status", "line", "print"}
    BY <1>1
  <2> QED
    BY <1>1, <2>1, DoneGoesOn, Zenon
<1>4. CASE call.what = "init"
  <2>1. AtCall(cmd, env, pc, i, ran, call.what, call.operand)
    BY <1>1, Zenon DEF WhereInv, Where, At_
  <2>2. i = 1 /\ DoneOf(ran) = << >> /\ StartOf(cmd, env) = << <<"init", call.operand>> >>
    <3>1. "init" \notin {"bundle_loader", "main", "-e", "-l", "-j", "-O", "-b", "add-on"}
          /\ "init" \notin {"script", "status", "stdin", "line", "print"}
      OBVIOUS
    <3> QED
      BY <1>4, <2>1, <3>1, Zenon DEF AtCall
  <2>3. DoneOf(ran') = UpTo(cmd, env, 0)
    <3>1. << >> \o << <<"init", call.operand>> >> = << <<"init", call.operand>> >>
      BY ShortSeqs, JoinNone
    <3>2. UpTo(cmd, env, 0) = StartOf(cmd, env)
      BY PartsAreSeqs
    <3> QED
      BY <1>3, <1>4, <2>2, <3>1, <3>2, Zenon
  <2>4. OnPlan(cmd, env, ran')
    <3>1. 0 \in 0..Len(cmd.options)
      BY <1>2 DEF Known
    <3>2. IsPrefix(UpTo(cmd, env, 0), PlanOf(cmd, env))
      BY <1>2, <3>1, PlanBegins DEF Known
    <3> QED
      BY <2>3, <3>2, Zenon DEF OnPlan
  <2>5. exit' = "none" => At_(cmd, env, pc', i', ran', call')
    <3> SUFFICES ASSUME exit' = "none" PROVE At_(cmd, env, pc', i', ran', call')
      OBVIOUS
    <3>1. pc' = "options" /\ i' = i
      BY <1>1, <1>4
    <3>2. 0 \in 0..Len(cmd.options) /\ 0 + 1 = 1 /\ i' = Place(cmd, 0 + 1)
          /\ (0 = Len(cmd.options) => ~Has(cmd, "-b"))
      BY <1>2, <2>2, <3>1 DEF Known, Has
    <3>3. AtIdle(cmd, env, "options", i', ran')
      BY <1>2, <2>3, <3>2, Onward
    <3> QED
      BY <1>1, <3>1, <3>3, Zenon DEF At_
  <2>6. exit' # "success"
    BY <1>1, <1>4
  <2> QED
    BY <1>1, <1>2, <2>4, <2>5, <2>6, Records
<1>5. CASE call.what # "init"
  <2>0. call.what \in {"-e", "-l", "-j", "-O", "-b"}
    BY <1>1, <1>5
  <2>1. PICK k : /\ AtOption(cmd, env, i, ran, k) /\ AtAnOption(k)
                 /\ OfOption(cmd.options[k], call.what, call.operand)
    <3>1. call.what \in {"-e", "-l", "-j", "-O", "-b", "add-on"}
      BY <2>0
    <3> QED
      BY <1>1, <3>1, AtOptionIs
  <2>2. cmd.options[k].opt = call.what /\ cmd.options[k].operand = call.operand
    <3>1. call.what # "add-on"
      BY <2>0
    <3> QED
      BY <2>1, <3>1, Zenon DEF OfOption
  <2>3. /\ k \in 1..Len(cmd.options) /\ i = Place(cmd, k) /\ DoneOf(ran) = UpTo(cmd, env, k - 1)
        /\ next_option(argv, i) = Place(cmd, k + 1)
    BY <2>1, Zenon DEF AtOption, AtAnOption, Read, argv
  <2>4. k - 1 \in Nat /\ (k - 1) + 1 = k /\ k \in 0..Len(cmd.options)
    BY <1>2, <2>3 DEF Known
  <2>5. Asks(cmd.options[k]) = << <<call.what, call.operand>> >>
    BY <2>0, <2>2, Zenon DEF Asks
  <2>6. DoneOf(ran') = UpTo(cmd, env, k)
    <3>1. UpTo(cmd, env, (k - 1) + 1) = UpTo(cmd, env, k - 1) \o Asks(cmd.options[(k - 1) + 1])
      BY <2>4, PartsAreSeqs
    <3> QED
      BY <1>3, <2>3, <2>4, <2>5, <3>1, Zenon
  <2>7. OnPlan(cmd, env, ran')
    <3>1. IsPrefix(UpTo(cmd, env, k), PlanOf(cmd, env))
      BY <1>2, <2>4, PlanBegins DEF Known
    <3> QED
      BY <2>6, <3>1, Zenon DEF OnPlan
  <2>8. exit' = "none" => At_(cmd, env, pc', i', ran', call')
    <3> SUFFICES ASSUME exit' = "none" PROVE At_(cmd, env, pc', i', ran', call')
      OBVIOUS
    <3>1. pc' = "options" /\ i' = Place(cmd, k + 1) /\ call.what # "-b"
      BY <1>1, <1>5, <2>3
    <3>2. k = Len(cmd.options) => ~Has(cmd, "-b")
      BY <1>2, <2>2, <2>3, <3>1, LastOption
    <3>3. AtIdle(cmd, env, "options", i', ran')
      BY <1>2, <2>4, <2>6, <3>1, <3>2, Onward
    <3> QED
      BY <1>1, <3>1, <3>3, Zenon DEF At_
  <2>9. exit' = "success" => Through(cmd, env, ran')
    <3> SUFFICES ASSUME exit' = "success" PROVE Through(cmd, env, ran')
      OBVIOUS
    <3>1. call.what = "-b"
      BY <1>1
    <3>2. k = Len(cmd.options) /\ Has(cmd, "-b")
      BY <1>2, <2>2, <2>3, <3>1, BytecodeLast
    <3>3. PlanOf(cmd, env) = DoneOf(ran')
      BY <1>2, <2>6, <3>2, BytecodeEnds
    <3> QED
      BY <3>3, Zenon DEF Through
  <2> QED
    BY <1>1, <1>2, <2>7, <2>8, <2>9, Records
<1> QED
  BY <1>4, <1>5
-------------------------------------------------------------------------------
\* The arguments go on behind argn if there is a script.
LEMMA ScriptBehind ==
  ASSUME Known, ~Misused(cmd), ~Has(cmd, "-b")
  PROVE  Behind(cmd) /\ argn \in Nat /\ Len(argv) \in Nat
         /\ (Len(argv) >= argn <=> cmd.script # Nothing)
         /\ (Len(argv) < argn <=> cmd.script = Nothing)
<1>1. Behind(cmd)
  BY BehindIs DEF Known
<1> DEFINE q == Place(cmd, Len(cmd.options) + 1)
           z == cmd.rest
<1>2. /\ q \in Nat /\ argn = (IF cmd.dashes THEN q + 1 ELSE q) /\ IsSeq(argv) /\ IsSeq(z)
      /\ cmd.script = Nothing => Len(argv) = argn - 1
      /\ cmd.script # Nothing => Len(argv) = argn + Len(z)
  BY <1>1, Zenon DEF Behind, argn, argv
<1>3. Len(argv) \in Nat /\ Len(z) \in Nat
  BY <1>2, SeqIs
<1> HIDE DEF q, z
<1>4. argn \in Nat
  BY <1>2
<1>5. CASE cmd.script = Nothing
  <2>1. Len(argv) = argn - 1
    BY <1>2, <1>5
  <2>2. ~(Len(argv) >= argn) /\ Len(argv) < argn
    BY <1>3, <1>4, <2>1
  <2> QED
    BY <1>1, <1>3, <1>4, <1>5, <2>2, Zenon
<1>6. CASE cmd.script # Nothing
  <2>1. Len(argv) = argn + Len(z)
    BY <1>2, <1>6
  <2>2. Len(argv) >= argn /\ ~(Len(argv) < argn)
    BY <1>3, <1>4, <2>1
  <2> QED
    BY <1>1, <1>3, <1>4, <1>6, <2>2, Zenon
<1> QED
  BY <1>5, <1>6

\* The options are over.
LEMMA OptionsDoneWhere == WhereInv /\ options_done => Where' /\ Fine'
<1> SUFFICES ASSUME WhereInv, options_done PROVE Where' /\ Fine'
  OBVIOUS
<1>1. /\ pc = "options" /\ exit = "none" /\ call = Idle /\ call' = call /\ i' = i /\ i >= argn
      /\ UNCHANGED <<cmd, env, ran, exit>> /\ pc' = (IF Len(argv) >= argn THEN "script" ELSE "last")
  BY DEF options_done, Step, Quiet, Goto, input
<1>2. ~Misused(cmd) /\ Known /\ AtIdle(cmd, env, "options", i, ran)
  BY <1>1, RightIs, KnownIs, Zenon DEF WhereInv, Where, At_
<1>3. ~ \E k : AtOption(cmd, env, i, ran, k)
  <2> SUFFICES ASSUME NEW k, AtOption(cmd, env, i, ran, k) PROVE FALSE
    OBVIOUS
  <2>1. k \in 1..Len(cmd.options) /\ i = Place(cmd, k)
    BY Zenon DEF AtOption
  <2>2. i < argn
    BY <1>2, <2>1, Zenon DEF Known
  <2>3. i \in Nat /\ argn \in Int
    <3>1. Read(cmd, k)
      BY <1>2, ReadAt, Zenon DEF AtAnOption
    <3>2. i \in 1..Len(argv)
      BY <2>1, <3>1, Zenon DEF Read, argv
    <3>3. Taken(cmd, collectargs(argv))
      BY <1>2, RightIsTaken DEF Known, argv
    <3>4. argn = EndsOf(cmd)[Len(cmd.options)] + 1 \/ argn = EndsOf(cmd)[Len(cmd.options)] + 2
      BY <3>3, Zenon DEF Taken, argn
    <3>5. EndsOf(cmd)[Len(cmd.options)] \in Nat
      <4>1. Laid(cmd, EndsOf(cmd), Argv(cmd))
        BY <1>2, ArgvIsLaid DEF Known
      <4>2. EndsOf(cmd) \in [0..Len(cmd.options) -> Nat]
        BY <4>1, Zenon DEF Laid
      <4>3. Len(cmd.options) \in 0..Len(cmd.options)
        BY <1>2 DEF Known
      <4> QED
        BY <4>2, <4>3
    <3> QED
      BY <3>2, <3>4, <3>5
  <2> QED
    BY <1>1, <2>2, <2>3
<1>4. AllOptions(cmd, env, ran)
  BY <1>2, <1>3, Zenon DEF AtIdle
<1>5. (Len(argv) >= argn <=> cmd.script # Nothing) /\ ~Has(cmd, "-b")
  BY <1>2, <1>4, ScriptBehind DEF AllOptions
<1>6. CASE Len(argv) >= argn
  <2>1. pc' = "script" /\ cmd.script # Nothing
    BY <1>1, <1>5, <1>6
  <2>2. AtIdle(cmd, env, pc', i', ran)
    BY <1>4, <2>1 DEF AtIdle, Consoles
  <2>3. At_(cmd, env, pc', i', ran, call')
    BY <1>1, <2>2, Zenon DEF At_
  <2> QED
    BY <1>1, <1>2, <2>3, Moves
<1>7. CASE ~(Len(argv) >= argn)
  <2>1. pc' = "last" /\ cmd.script = Nothing
    BY <1>1, <1>5, <1>7
  <2>2. ScriptOf(cmd) = << >>
    BY <2>1, Zenon DEF ScriptOf
  <2>3. IsSeq(UpTo(cmd, env, Len(cmd.options)))
    BY <1>2, PartsAreSeqs DEF Known
  <2>4. UpToScript(cmd, env) = UpTo(cmd, env, Len(cmd.options))
    BY <2>2, <2>3, JoinNone DEF UpToScript
  <2>5. Ready(cmd, env, ran)
    BY <1>4, <2>4, Zenon DEF AllOptions, Ready
  <2>6. AtIdle(cmd, env, pc', i', ran)
    BY <2>1, <2>5 DEF AtIdle, Consoles
  <2>7. At_(cmd, env, pc', i', ran, call')
    BY <1>1, <2>6, Zenon DEF At_
  <2> QED
    BY <1>1, <1>2, <2>7, Moves
<1> QED
  BY <1>6, <1>7

\* The script.
LEMMA ScriptWhere == WhereInv /\ handle_script => Where' /\ Fine'
<1> SUFFICES ASSUME WhereInv, handle_script PROVE Where' /\ Fine'
  OBVIOUS
<1>1. /\ pc = "script" /\ exit = "none" /\ call = Idle /\ i' = i
      /\ UNCHANGED <<cmd, env, ran, exit>> /\ pc' = "script"
      /\ \E s, narg : Begin("script", script_file(argv, argn), s, narg, "docall")
  BY Zenon DEF handle_script, Step, Goto, input
<1>2. call' # Idle /\ call'.what = "script" /\ call'.operand = script_file(argv, argn)
  BY <1>1, BeginsAs
<1>3. AtIdle(cmd, env, "script", i, ran) /\ ~Misused(cmd)
  BY <1>1, RightIs, Zenon DEF WhereInv, Where, At_
<1>4. AtCall(cmd, env, pc', i', ran, call'.what, call'.operand)
  BY <1>1, <1>2, <1>3, Zenon DEF AtCall, AtIdle, argv, argn
<1>5. At_(cmd, env, pc', i', ran, call')
  BY <1>2, <1>4, Zenon DEF At_
<1> QED
  BY <1>1, <1>3, <1>5, Moves

\* The script returns.
LEMMA ScriptDoneWhere == WhereInv /\ script_done => Where' /\ Fine'
<1> SUFFICES ASSUME WhereInv, script_done PROVE Where' /\ Fine'
  OBVIOUS
<1>1. /\ call # Idle /\ call.what = "script" /\ i' = i /\ GoOn /\ call' = Idle
      /\ exit = "none" /\ UNCHANGED <<cmd, env>>
      /\ exit' = "failure" \/ (exit' = exit /\ pc' = "last")
  BY DEF script_done, Returned, GoOn, Over, Exit, Goto, input
<1>2. ~Misused(cmd) /\ Known /\ AtCall(cmd, env, pc, i, ran, call.what, call.operand)
  BY <1>1, RightIs, KnownIs, Zenon DEF WhereInv, Where, At_
<1>3. AllOptions(cmd, env, ran) /\ cmd.script # Nothing
      /\ call.operand = script_file(Argv(cmd), collectargs(Argv(cmd)).argn)
  <2>1. "script" \notin {"bundle_loader", "main", "-e", "-l", "-j", "-O", "-b", "add-on"}
        /\ "script" \notin {"init", "status", "stdin", "line", "print"}
    OBVIOUS
  <2> QED
    BY <1>1, <1>2, <2>1, Zenon DEF AtCall
<1>4. DoneOf(ran') = DoneOf(ran) \o << <<"script", call.operand>> >>
  <2>1. "script" \notin {"main", "status", "line", "print"}
    OBVIOUS
  <2> QED
    BY <1>1, <2>1, DoneGoesOn, Zenon
<1>5. ~DashBefore(cmd) => DoneOf(ran') = UpToScript(cmd, env)
  <2> SUFFICES ASSUME ~DashBefore(cmd) PROVE DoneOf(ran') = UpToScript(cmd, env)
    OBVIOUS
  <2>1. call.operand = IF cmd.script = Stdin /\ cmd.dashes THEN Word("-") ELSE cmd.script
    BY <1>2, <1>3, ScriptIs DEF Known, AllOptions
  <2>2. ScriptOf(cmd) = << <<"script", call.operand>> >>
    BY <1>3, <2>1, Zenon DEF ScriptOf, AllOptions
  <2> QED
    BY <1>3, <1>4, <2>2, Zenon DEF UpToScript, AllOptions
<1>6. Ready(cmd, env, ran')
  BY <1>3, <1>5, Zenon DEF Ready, AllOptions
<1>7. OnPlan(cmd, env, ran')
  <2>1. IsPrefix(UpToScript(cmd, env), PlanOf(cmd, env))
    BY <1>2, PlanBegins DEF Known
  <2> QED
    BY <1>5, <2>1, Zenon DEF OnPlan
<1>8. exit' = "none" => At_(cmd, env, pc', i', ran', call')
  <2>1. pc' = "last" => AtIdle(cmd, env, pc', i', ran')
    BY <1>6 DEF AtIdle, Consoles
  <2>2. exit' = "none" => pc' = "last"
    BY <1>1
  <2> QED
    BY <1>1, <2>1, <2>2, Zenon DEF At_
<1>9. exit' # "success"
  BY <1>1
<1> QED
  BY <1>1, <1>2, <1>7, <1>8, <1>9, Records
-------------------------------------------------------------------------------
\* The flags say when the standard input is to be run.
LEMMA FlagsMean ==
  ASSUME Known, ~Misused(cmd), ~Has(cmd, "-b")
  PROVE  /\ "INTERACTIVE" \in flags <=> Has(cmd, "-i")
         /\ "VERSION" \in flags <=> Has(cmd, "-i") \/ Has(cmd, "-v")
         /\ "EXEC" \in flags <=> Has(cmd, "-e")
<1>1. Taken(cmd, collectargs(argv))
  BY RightIsTaken DEF Known, argv
<1>2. /\ "INTERACTIVE" \in flags <=> Has2(cmd, {"-i"})
      /\ "VERSION" \in flags <=> Has2(cmd, {"-i", "-v"})
      /\ "EXEC" \in flags <=> Has2(cmd, {"-e", "-b"})
  BY <1>1, Zenon DEF Taken, flags
<1>3. /\ Has2(cmd, {"-i"}) <=> Has(cmd, "-i")
      /\ Has2(cmd, {"-i", "-v"}) <=> Has(cmd, "-i") \/ Has(cmd, "-v")
      /\ Has2(cmd, {"-e", "-b"}) <=> Has(cmd, "-e") \/ Has(cmd, "-b")
  BY Zenon DEF Has, Has2, Known
<1> QED
  BY <1>2, <1>3, Zenon
\* The flags tell whether the standard input is asked for.
LEMMA StdinAsked ==
  ASSUME Known, ~Misused(cmd), ~Has(cmd, "-b")
  PROVE  /\ Console => StdinOf(cmd, env) = << >>
         /\ Len(argv) >= argn \/ flags \cap {"EXEC", "VERSION"} # {} => StdinOf(cmd, env) = << >>
         /\ ~Console /\ ~(Len(argv) >= argn \/ flags \cap {"EXEC", "VERSION"} # {}) =>
              StdinOf(cmd, env) = << <<"stdin", Nothing>> >>
<1>1. /\ "INTERACTIVE" \in flags <=> Has(cmd, "-i")
      /\ "VERSION" \in flags <=> Has(cmd, "-i") \/ Has(cmd, "-v")
      /\ "EXEC" \in flags <=> Has(cmd, "-e")
  BY FlagsMean
<1>2. /\ Len(argv) >= argn <=> cmd.script # Nothing
      /\ Len(argv) < argn <=> cmd.script = Nothing
  BY ScriptBehind
<1>3. flags \cap {"EXEC", "VERSION"} # {} <=> "EXEC" \in flags \/ "VERSION" \in flags
  OBVIOUS
<1>4. NoCode(cmd) <=> cmd.script = Nothing /\ ~Has(cmd, "-e") /\ ~Has(cmd, "-i") /\ ~Has(cmd, "-v")
  BY Zenon DEF NoCode
<1>5. Console <=> "INTERACTIVE" \in flags
                  \/ (cmd.script = Nothing /\ flags \cap {"EXEC", "VERSION"} = {} /\ env.tty)
  BY <1>2, Zenon DEF Console
<1>6. StdinOf(cmd, env) = IF NoCode(cmd) /\ ~env.tty THEN << <<"stdin", Nothing>> >> ELSE << >>
  BY Zenon DEF StdinOf
<1>7. Console => ~(NoCode(cmd) /\ ~env.tty)
  BY <1>1, <1>4, <1>5, Zenon
<1>8. Len(argv) >= argn \/ flags \cap {"EXEC", "VERSION"} # {} => ~NoCode(cmd)
  BY <1>1, <1>2, <1>3, <1>4, Zenon
<1>9. ~Console /\ ~(Len(argv) >= argn \/ flags \cap {"EXEC", "VERSION"} # {}) => NoCode(cmd) /\ ~env.tty
  BY <1>1, <1>2, <1>3, <1>4, <1>5, Zenon
<1> QED
  BY <1>6, <1>7, <1>8, <1>9, Zenon

\* What is left when all is done but the standard input.
LEMMA LastOfPlan ==
  ASSUME Known, NEW r, Ready(cmd, env, r)
  PROVE  /\ IsSeq(DoneOf(r)) => DashBefore(cmd) \/ PlanOf(cmd, env) = DoneOf(r) \o StdinOf(cmd, env)
         /\ OnPlan(cmd, env, r)
         /\ StdinOf(cmd, env) = << >> => Through(cmd, env, r)
         /\ StdinOf(cmd, env) = << <<"stdin", Nothing>> >> => Through(cmd, env, r)
<1>1. PlanOf(cmd, env) = UpToScript(cmd, env) \o StdinOf(cmd, env)
  BY PlanIs DEF Known
<1>2. IsSeq(UpToScript(cmd, env)) /\ IsPrefix(UpToScript(cmd, env), PlanOf(cmd, env))
  BY PlanBegins DEF Known
<1>3. CASE DashBefore(cmd)
  BY <1>3, Zenon DEF OnPlan, Through
<1>4. CASE ~DashBefore(cmd)
  <2>1. DoneOf(r) = UpToScript(cmd, env)
    BY <1>4, Zenon DEF Ready
  <2>2. OnPlan(cmd, env, r)
    BY <1>2, <2>1, Zenon DEF OnPlan
  <2>3. StdinOf(cmd, env) = << >> => PlanOf(cmd, env) = DoneOf(r)
    <3>1. UpToScript(cmd, env) \o << >> = UpToScript(cmd, env)
      BY <1>2, JoinNone
    <3> QED
      BY <1>1, <2>1, <3>1, Zenon
  <2>4. StdinOf(cmd, env) = << <<"stdin", Nothing>> >> =>
          PlanOf(cmd, env) = Append(DoneOf(r), <<"stdin", Nothing>>)
    <3>1. Append(UpToScript(cmd, env), <<"stdin", Nothing>>) = UpToScript(cmd, env) \o << <<"stdin", Nothing>> >>
      BY <1>2, AppendIs
    <3> QED
      BY <1>1, <2>1, <3>1, Zenon
  <2> QED
    BY <1>1, <2>1, <2>2, <2>3, <2>4, Zenon DEF Through
<1> QED
  BY <1>3, <1>4

\* The console, the standard input as a script, or the end.
LEMMA AtLast ==
  ASSUME WhereInv, pc = "last", exit = "none", call = Idle
  PROVE  ~Misused(cmd) /\ Known /\ Ready(cmd, env, ran) /\ ~Has(cmd, "-b")
<1>1. ~Misused(cmd) /\ Known /\ AtIdle(cmd, env, "last", i, ran)
  BY RightIs, KnownIs, Zenon DEF WhereInv, Where, At_
<1>2. Ready(cmd, env, ran)
  BY <1>1, Zenon DEF AtIdle
<1> QED
  BY <1>1, <1>2, Zenon DEF Ready

\* The console begins with the status of the compiler.
LEMMA StatusWhere == WhereInv /\ print_jit_status => Where' /\ Fine'
<1> SUFFICES ASSUME WhereInv, print_jit_status PROVE Where' /\ Fine'
  OBVIOUS
<1>1. /\ pc = "last" /\ exit = "none" /\ call = Idle /\ i' = i /\ Console
      /\ UNCHANGED <<cmd, env, ran, exit>> /\ pc' = "last"
      /\ Begin("status", Nothing, Append(stack, Value("status")), 0, "call")
  BY Zenon DEF print_jit_status, Step, Goto, input
<1>2. call' # Idle /\ call'.what = "status"
  BY <1>1, BeginsAs
<1>3. ~Misused(cmd) /\ Known /\ Ready(cmd, env, ran) /\ ~Has(cmd, "-b")
  BY <1>1, AtLast
<1>4. StdinOf(cmd, env) = << >>
  BY <1>1, <1>3, StdinAsked
<1>5. AtCall(cmd, env, pc', i', ran, call'.what, call'.operand)
  BY <1>1, <1>2, <1>3, <1>4, Zenon DEF AtCall
<1>6. At_(cmd, env, pc', i', ran, call')
  BY <1>2, <1>5, Zenon DEF At_
<1> QED
  BY <1>1, <1>3, <1>6, Moves

\* The standard input is run as a script, or nothing is.
LEMMA StdinWhere == WhereInv /\ dofile => Where' /\ Fine'
<1> SUFFICES ASSUME WhereInv, dofile PROVE Where' /\ Fine'
  OBVIOUS
<1> DEFINE over == Len(argv) >= argn \/ flags \cap {"EXEC", "VERSION"} # {}
<1>1. /\ pc = "last" /\ exit = "none" /\ call = Idle /\ i' = i /\ ~Console
      /\ UNCHANGED <<cmd, env, ran>>
      /\ \/ exit' = "success"
         \/ /\ ~over /\ exit' = exit /\ pc' = "last"
            /\ Begin("stdin", Nothing, Chunk("stdin", Nothing), 0, "docall")
  <2>1. /\ pc = "last" /\ exit = "none" /\ call = Idle /\ i' = i /\ ~Console
        /\ UNCHANGED <<cmd, env, ran>>
    BY DEF dofile, Step, input
  <2>2. CASE over
    BY <2>1, <2>2 DEF dofile, Exit
  <2>3. CASE ~over
    BY <2>1, <2>3, Zenon DEF dofile, Exit, Goto
  <2> QED
    BY <2>2, <2>3
<1>2. ~Misused(cmd) /\ Known /\ Ready(cmd, env, ran) /\ ~Has(cmd, "-b")
  BY <1>1, AtLast
<1>3. StdinOf(cmd, env) = << >> \/ StdinOf(cmd, env) = << <<"stdin", Nothing>> >>
  BY Zenon DEF StdinOf
<1>4. OnPlan(cmd, env, ran) /\ Through(cmd, env, ran)
  BY <1>2, <1>3, LastOfPlan
<1>5. CASE exit' = "success"
  <2>1. exit' # "none"
    BY <1>5
  <2>2. OnPlan(cmd, env, ran') /\ Through(cmd, env, ran')
    BY <1>1, <1>4
  <2> QED
    BY <1>1, <1>2, <1>5, <2>1, <2>2, Records
<1>6. CASE /\ ~over /\ exit' = exit /\ pc' = "last"
           /\ Begin("stdin", Nothing, Chunk("stdin", Nothing), 0, "docall")
  <2>1. call' # Idle /\ call'.what = "stdin" /\ call'.operand = Nothing
    BY <1>6, BeginsAs
  <2>2. StdinOf(cmd, env) = << <<"stdin", Nothing>> >>
    BY <1>1, <1>2, <1>6, StdinAsked
  <2>3. AtCall(cmd, env, pc', i', ran, call'.what, call'.operand)
    BY <1>1, <1>2, <1>6, <2>1, <2>2, Zenon DEF AtCall
  <2>4. At_(cmd, env, pc', i', ran, call')
    BY <2>1, <2>3, Zenon DEF At_
  <2> QED
    BY <1>1, <1>2, <1>6, <2>4, Moves
<1> QED
  BY <1>1, <1>5, <1>6

\* It returns.
LEMMA StdinDoneWhere == WhereInv /\ stdin_done => Where' /\ Fine'
<1> SUFFICES ASSUME WhereInv, stdin_done PROVE Where' /\ Fine'
  OBVIOUS
<1>1. /\ call # Idle /\ call.what = "stdin" /\ GoOn /\ call' = Idle
      /\ exit = "none" /\ UNCHANGED <<cmd, env>> /\ exit' = "success"
  BY DEF stdin_done, Returned, GoOn, Over, Exit, input
<1>2. ~Misused(cmd) /\ Known /\ AtCall(cmd, env, pc, i, ran, call.what, call.operand)
  BY <1>1, RightIs, KnownIs, Zenon DEF WhereInv, Where, At_
<1>3. Ready(cmd, env, ran) /\ StdinOf(cmd, env) = << <<"stdin", call.operand>> >>
  <2>1. "stdin" \notin {"bundle_loader", "main", "-e", "-l", "-j", "-O", "-b", "add-on"}
        /\ "stdin" \notin {"init", "status", "script", "line", "print"}
    OBVIOUS
  <2> QED
    BY <1>1, <1>2, <2>1, Zenon DEF AtCall
<1>4. IsSeq(DoneOf(ran)) /\ DoneOf(ran') = DoneOf(ran) \o << <<"stdin", call.operand>> >>
  <2>1. "stdin" \notin {"main", "status", "line", "print"}
    OBVIOUS
  <2> QED
    BY <1>1, <2>1, DoneGoesOn, Zenon
<1>5. DashBefore(cmd) \/ PlanOf(cmd, env) = DoneOf(ran')
  <2>1. DashBefore(cmd) \/ PlanOf(cmd, env) = DoneOf(ran) \o StdinOf(cmd, env)
    BY <1>2, <1>3, <1>4, LastOfPlan
  <2> QED
    BY <1>3, <1>4, <2>1, Zenon
<1>6. OnPlan(cmd, env, ran') /\ Through(cmd, env, ran')
  <2>1. IsPrefix(PlanOf(cmd, env), PlanOf(cmd, env))
    BY <1>2, PlanBegins DEF Known
  <2> QED
    BY <1>5, <2>1, Zenon DEF OnPlan, Through
<1>7. exit' # "none"
  BY <1>1
<1> QED
  BY <1>1, <1>2, <1>6, <1>7, Records
-------------------------------------------------------------------------------
\* The console, and the call of what says so.
InConsole(c, e, r) == Ready(c, e, r) /\ StdinOf(c, e) = << >>
\* What is known while the console calls something.
LEMMA CallInConsole ==
  ASSUME WhereInv, call # Idle, exit = "none", call.what \in {"status", "line", "print"}
  PROVE  ~Misused(cmd) /\ Known /\ InConsole(cmd, env, ran)
<1>1. ~Misused(cmd) /\ Known /\ AtCall(cmd, env, pc, i, ran, call.what, call.operand)
  BY RightIs, KnownIs, Zenon DEF WhereInv, Where, At_
<1>2. call.what \notin {"bundle_loader", "main", "-e", "-l", "-j", "-O", "-b", "add-on", "init", "script", "stdin"}
  OBVIOUS
<1>3. InConsole(cmd, env, ran)
  BY <1>1, <1>2, Zenon DEF AtCall, InConsole
<1> QED
  BY <1>1, <1>3

\* An error ends the interpreter.
LEMMA EscapesWhere == WhereInv /\ Escapes => Where' /\ Fine'
<1> SUFFICES ASSUME WhereInv, Escapes PROVE Where' /\ Fine'
  OBVIOUS
<1>1. /\ call # Idle /\ call.what \in {"main", "status"} /\ GoOn
      /\ exit = "none" /\ UNCHANGED <<cmd, env>> /\ exit' = "failure"
  BY DEF Escapes, Returned, GoOn, Exit, input
<1>2. ~Misused(cmd)
  BY <1>1, RightIs
<1>3. DoneOf(ran') = DoneOf(ran)
  <2>1. call.what \in {"main", "status", "line", "print"}
    BY <1>1
  <2> QED
    BY <1>1, <2>1, DoneSame
<1>4. OnPlan(cmd, env, ran')
  BY <1>2, <1>3, Zenon DEF WhereInv, Fine, OnPlan
<1>5. exit' # "none" /\ exit' # "success"
  BY <1>1
<1> QED
  BY <1>1, <1>2, <1>4, <1>5, Records

\* The calls that the console makes are not asked for.
LEMMA ConsoleDoneWhere ==
  WhereInv /\ (status_done \/ line_done \/ print_done) => Where' /\ Fine'
<1> SUFFICES ASSUME WhereInv, status_done \/ line_done \/ print_done PROVE Where' /\ Fine'
  OBVIOUS
<1> DEFINE Begun == \E s, narg : Begin("print", Nothing, s, narg, "pcall")
<1>1. /\ call # Idle /\ call.what \in {"status", "line", "print"} /\ i' = i /\ GoOn
      /\ exit = "none" /\ UNCHANGED <<cmd, env>> /\ exit' = exit /\ pc' = "loadline"
      /\ call' = Idle \/ Begun
  <2>1. CASE status_done
    BY <2>1 DEF status_done, Returned, GoOn, Over, Goto, input
  <2>2. CASE print_done
    BY <2>2 DEF print_done, Returned, GoOn, Over, Goto, input
  <2>3. CASE line_done
    <3>1. Begun \/ Over
      BY <2>3, Zenon DEF line_done
    <3> QED
      BY <2>3, <3>1 DEF line_done, Returned, GoOn, Over, Goto, input
  <2> QED
    BY <2>1, <2>2, <2>3
<1>2. ~Misused(cmd) /\ Known /\ InConsole(cmd, env, ran)
  BY <1>1, CallInConsole
<1>3. DoneOf(ran') = DoneOf(ran)
  <2>1. call.what \in {"main", "status", "line", "print"}
    BY <1>1
  <2> QED
    BY <1>1, <2>1, DoneSame
<1>4. InConsole(cmd, env, ran')
  BY <1>2, <1>3, Zenon DEF InConsole, Ready
<1>5. OnPlan(cmd, env, ran')
  BY <1>2, <1>4, LastOfPlan, Zenon DEF InConsole
<1>6. CASE call' = Idle
  <2>1. AtIdle(cmd, env, pc', i', ran')
    BY <1>1, <1>4 DEF AtIdle, Consoles, InConsole
  <2>2. At_(cmd, env, pc', i', ran', call')
    BY <1>6, <2>1, Zenon DEF At_
  <2>3. exit' # "success"
    BY <1>1
  <2> QED
    BY <1>1, <1>2, <1>5, <2>2, <2>3, Records
<1>7. CASE Begun
  <2>1. call' # Idle /\ call'.what = "print"
    BY <1>7, BeginsAs
  <2>2. AtCall(cmd, env, pc', i', ran', call'.what, call'.operand)
    BY <1>1, <1>4, <2>1, Zenon DEF AtCall, InConsole
  <2>3. At_(cmd, env, pc', i', ran', call')
    BY <2>1, <2>2, Zenon DEF At_
  <2>4. exit' # "success"
    BY <1>1
  <2> QED
    BY <1>1, <1>2, <1>5, <2>3, <2>4, Records
<1> QED
  BY <1>1, <1>6, <1>7

\* A statement is read and run.
LEMMA ConsoleWhere ==
  WhereInv /\ (end_of_input \/ pushline \/ incomplete \/ addline \/ line_bad \/ line_loaded)
    => Where' /\ Fine'
<1> SUFFICES ASSUME WhereInv, end_of_input \/ pushline \/ incomplete \/ addline \/ line_bad \/ line_loaded
             PROVE  Where' /\ Fine'
  OBVIOUS
<1> DEFINE Begun == \E s : Begin("line", typed, s, 0, "docall")
<1>1. /\ pc \in Consoles /\ exit = "none" /\ call = Idle /\ i' = i
      /\ UNCHANGED <<cmd, env, ran>>
      /\ \/ exit' = "success"
         \/ exit' = exit /\ pc' \in Consoles /\ call' = Idle
         \/ exit' = exit /\ pc' = "loadbuffer" /\ Begun
  <2>1. CASE end_of_input
    BY <2>1 DEF end_of_input, Step, Quiet, Exit, input, Consoles
  <2>2. CASE pushline
    BY <2>2 DEF pushline, Step, Quiet, Goto, input, Consoles
  <2>3. CASE incomplete
    BY <2>3 DEF incomplete, Step, Quiet, Goto, input, Consoles
  <2>4. CASE addline
    BY <2>4 DEF addline, Step, Quiet, Goto, input, Consoles
  <2>5. CASE line_bad
    BY <2>5 DEF line_bad, Step, Quiet, Goto, input, Consoles
  <2>6. CASE line_loaded
    <3>1. Begun
      BY <2>6, Zenon DEF line_loaded
    <3> QED
      BY <2>6, <3>1 DEF line_loaded, Step, Goto, input, Consoles
  <2> QED
    BY <2>1, <2>2, <2>3, <2>4, <2>5, <2>6
<1>2. ~Misused(cmd) /\ Known /\ AtIdle(cmd, env, pc, i, ran)
  <2>1. pc # "start"
    BY <1>1 DEF Consoles
  <2> QED
    BY <1>1, <2>1, RightIs, KnownIs, Zenon DEF WhereInv, Where, At_
<1>3. InConsole(cmd, env, ran)
  <2>1. pc \in {"last"} \cup Consoles
    BY <1>1
  <2> QED
    BY <1>1, <1>2, <2>1, Zenon DEF AtIdle, InConsole
<1>4. CASE exit' = "success"
  <2>1. OnPlan(cmd, env, ran') /\ Through(cmd, env, ran')
    BY <1>1, <1>2, <1>3, LastOfPlan, Zenon DEF InConsole
  <2>2. exit' # "none"
    BY <1>4
  <2> QED
    BY <1>1, <1>2, <2>1, <2>2, Records
<1>5. CASE exit' = exit /\ pc' \in Consoles /\ call' = Idle
  <2>1. AtIdle(cmd, env, pc', i', ran)
    BY <1>3, <1>5 DEF AtIdle, Consoles, InConsole
  <2>2. At_(cmd, env, pc', i', ran, call')
    BY <1>5, <2>1, Zenon DEF At_
  <2> QED
    BY <1>1, <1>2, <1>5, <2>2, Moves
<1>6. CASE exit' = exit /\ pc' = "loadbuffer" /\ Begun
  <2>1. call' # Idle /\ call'.what = "line"
    BY <1>6, BeginsAs
  <2>2. AtCall(cmd, env, pc', i', ran, call'.what, call'.operand)
    BY <1>3, <1>6, <2>1, Zenon DEF AtCall, InConsole
  <2>3. At_(cmd, env, pc', i', ran, call')
    BY <2>1, <2>2, Zenon DEF At_
  <2> QED
    BY <1>1, <1>2, <1>6, <2>3, Moves
<1> QED
  BY <1>1, <1>4, <1>5, <1>6
-------------------------------------------------------------------------------
\* The code that runs, and Ctrl-C.
LEMMA OthersWhere ==
  WhereInv /\ (Return \/ Throw \/ Sigint \/ lstop \/ UNCHANGED vars) => Where' /\ Fine'
<1> SUFFICES ASSUME WhereInv, Return \/ Throw \/ Sigint \/ lstop \/ UNCHANGED vars
             PROVE  Where' /\ Fine'
  OBVIOUS
<1>1. Shape
  BY DEF WhereInv, SignalInv
<1> DEFINE Ended == call # Idle /\ \E o, r : Leaves(o, r)
<1>2. /\ UNCHANGED <<cmd, env, pc, i, ran>> /\ (exit' = exit \/ exit' = "killed")
      /\ call' = call \/ Ended
  <2>1. CASE Return
    <3>1. Ended
      BY <2>1, Zenon DEF Return, CanEnd
    <3> QED
      BY <2>1, <3>1 DEF Return, input
  <2>2. CASE Throw
    <3>1. Ended
      BY <2>2, Zenon DEF Throw, CanEnd
    <3> QED
      BY <2>2, <3>1 DEF Throw, input
  <2>3. CASE Sigint
    BY <2>3 DEF Sigint, input
  <2>4. CASE lstop
    <3>1. call' = call \/ Ended
      BY <2>4, Zenon DEF lstop
    <3> QED
      BY <2>4, <3>1 DEF lstop, input
  <2>5. CASE UNCHANGED vars
    BY <2>5 DEF vars, input
  <2> QED
    BY <2>1, <2>2, <2>3, <2>4, <2>5
<1>3. CASE call' = call
  BY <1>2, <1>3, Stays
<1>4. CASE Ended
  <2>1. call # Idle /\ call' # Idle /\ call'.what = call.what /\ call'.operand = call.operand
    BY <1>1, <1>4, EndsAs
  <2> QED
    BY <1>2, <2>1, Stays
<1> QED
  BY <1>2, <1>3, <1>4

\* The invariant is kept by every step.
LEMMA WhereStep == WhereInv /\ [Next]_vars => WhereInv'
<1> SUFFICES ASSUME WhereInv, [Next]_vars PROVE WhereInv'
  OBVIOUS
<1>1. SignalInv'
  BY SignalStep DEF WhereInv
<1>2. UNCHANGED <<cmd, env>>
  <2>1. CASE UNCHANGED vars
    BY <2>1 DEF vars, input
  <2>2. CASE Next
    BY <2>2 DEF Next, Return, Throw, Sigint, lstop, Escapes, main, bundle_main, bundle_loaded,
      main_returned, arg_table, handle_luainit, init_bad, flag_option, dostring, dostring_bad,
      dolibrary, runcmdopt, loadjitmodule, add_on_loaded, option_done, options_done, handle_script,
      script_bad, script_done, print_jit_status, status_done, dofile, stdin_done, end_of_input,
      pushline, incomplete, addline, line_bad, line_loaded, line_done, print_done,
      Step, GoOn, NoChunk, Option_at, input
  <2> QED
    BY <2>1, <2>2
<1>3. Input'
  BY <1>2 DEF WhereInv, Input
<1>4. Where' /\ Fine'
  <2>1. CASE UNCHANGED vars
    BY <2>1, OthersWhere
  <2>2. CASE Next
    BY <2>2, OthersWhere, EscapesWhere, MainWhere, BundleWhere, LoadedWhere, MainDoneWhere, ArgWhere,
       InitWhere, BadWhere, FlagWhere, OptionWhere, AddOnWhere, OptionDoneWhere, OptionsDoneWhere,
       ScriptWhere, ScriptDoneWhere, StatusWhere, StdinWhere, StdinDoneWhere, ConsoleDoneWhere,
       ConsoleWhere, Zenon DEF Next
  <2> QED
    BY <2>1, <2>2
<1> QED
  BY <1>1, <1>3, <1>4, Zenon DEF WhereInv

\* It holds at first.
LEMMA WhereStart == Init => WhereInv
<1> SUFFICES ASSUME Init PROVE WhereInv
  OBVIOUS
<1>1. SignalInv
  BY SignalStart
<1>2. Input
  BY DEF Init, Input
<1>3. pc = "start" /\ i = 1 /\ ran = << >> /\ call = Idle /\ exit = "none"
  BY DEF Init
<1>4. DoneOf(ran) = << >>
  BY <1>3, DoneNone
<1>5. Where
  <2>1. AtIdle(cmd, env, pc, i, ran)
    BY <1>3, <1>4 DEF AtIdle, Consoles
  <2> QED
    BY <1>3, <2>1, Zenon DEF Where, At_
<1>6. ~Misused(cmd) => OnPlan(cmd, env, ran)
  <2> SUFFICES ASSUME ~Misused(cmd) PROVE OnPlan(cmd, env, ran)
    OBVIOUS
  <2>1. WellWritten(cmd)
    BY <1>2, CommandsAssumption DEF Input
  <2>2. DOMAIN cmd.options = 1..Len(cmd.options) /\ Len(cmd.options) \in Nat
    BY <2>1, MisusedIs
  <2>3. IsPrefix(<< >>, PlanOf(cmd, env))
    BY <2>2, PlanBegins
  <2> QED
    BY <1>4, <2>3, Zenon DEF OnPlan
<1>7. exit # "success"
  BY <1>3
<1>8. Fine
  BY <1>3, <1>6, <1>7, Zenon DEF Fine, Untouched
<1> QED
  BY <1>1, <1>2, <1>5, <1>8, Zenon DEF WhereInv

\* It says what was meant.
LEMMA WhereAsked == WhereInv => RunsWhatIsAsked
<1> SUFFICES ASSUME WhereInv PROVE RunsWhatIsAsked
  OBVIOUS
<1>1. /\ Misused(cmd) => ran = << >> /\ exit # "success" /\ pc = "start"
      /\ ~Misused(cmd) => OnPlan(cmd, env, ran)
      /\ exit = "success" /\ pc # "bundle" => Through(cmd, env, ran)
  BY Zenon DEF WhereInv, Fine, Untouched
<1> QED
  BY <1>1, Zenon DEF RunsWhatIsAsked, OnPlan, Through, DashBefore, DoneOf, PlanOf

\* What the command line asks for is run, in its order, each option with its own
\* operand, and all of it when the interpreter ends well.
THEOREM PlanIsRun == Spec => []RunsWhatIsAsked
<1>1. Spec => []WhereInv
  BY WhereStart, WhereStep, PTL DEF Spec
<1> QED
  BY <1>1, WhereAsked, PTL
-------------------------------------------------------------------------------
\* Two values are one joined to another.
LEMMA PairIs ==
  ASSUME NEW a, NEW b
  PROVE  <<a, b>> = <<a>> \o <<b>>
<1>1. <<a>> \in Seq({a, b}) /\ <<b>> \in Seq({a, b}) /\ <<a, b>> \in Seq({a, b})
  OBVIOUS
<1> DEFINE r == <<a>> \o <<b>>
<1>2. /\ IsSeq(r) /\ Len(r) = Len(<<a>>) + Len(<<b>>)
      /\ \A j \in 1..Len(<<a>>) : r[j] = <<a>>[j]
      /\ \A j \in 1..Len(<<b>>) : r[Len(<<a>>) + j] = <<b>>[j]
  <2>1. IsSeq(<<a>>) /\ IsSeq(<<b>>)
    BY ShortSeqs
  <2> QED
    BY <2>1, JoinIs
<1>3. Len(<<a>>) = 1 /\ Len(<<b>>) = 1 /\ Len(<<a, b>>) = 2 /\ <<a>>[1] = a /\ <<b>>[1] = b
      /\ <<a, b>>[1] = a /\ <<a, b>>[2] = b
  OBVIOUS
<1> HIDE DEF r
<1>4. Len(r) = 2 /\ r[1] = a /\ r[2] = b
  <2>1. Len(r) = 2
    BY <1>2, <1>3
  <2>2. 1 \in 1..Len(<<a>>) /\ 1 \in 1..Len(<<b>>)
    BY <1>3
  <2>3. r[1] = <<a>>[1] /\ r[Len(<<a>>) + 1] = <<b>>[1]
    BY <1>2, <2>2
  <2>4. Len(<<a>>) + 1 = 2
    BY <1>3
  <2> QED
    BY <1>3, <2>1, <2>3, <2>4
<1>5. \A j \in 1..2 : r[j] = <<a, b>>[j]
  <2> SUFFICES ASSUME NEW j \in 1..2 PROVE r[j] = <<a, b>>[j]
    OBVIOUS
  <2>1. j = 1 \/ j = 2
    OBVIOUS
  <2> QED
    BY <1>3, <1>4, <2>1
<1>6. IsSeq(<<a, b>>)
  BY <1>1 DEF IsSeq
<1>7. \A j \in 1..Len(r) : r[j] = <<a, b>>[j]
  BY <1>4, <1>5
<1>8. Len(r) = Len(<<a, b>>)
  BY <1>3, <1>4
<1>9. r = <<a, b>>
  BY <1>2, <1>6, <1>7, <1>8, SameSeq
<1> QED
  BY <1>9 DEF r

\* A sequence of one value.
LEMMA OneIs ==
  ASSUME NEW s, IsSeq(s), Len(s) = 1
  PROVE  s = <<s[1]>>
<1>1. IsSeq(<<s[1]>>) /\ Len(<<s[1]>>) = 1 /\ <<s[1]>>[1] = s[1]
  BY ShortSeqs
<1>2. \A j \in 1..Len(s) : s[j] = <<s[1]>>[j]
  BY <1>1
<1> QED
  BY <1>1, <1>2, SameSeq

\* A value is put in, or taken out.
LEMMA PutIn ==
  ASSUME NEW s, IsSeq(s), NEW p \in Nat, 1 <= p, p <= Len(s) + 1, NEW x
  PROVE  IsSeq(InsertAt(s, p, x)) /\ Len(InsertAt(s, p, x)) = Len(s) + 1
<1> DEFINE u == SubSeq(s, 1, p - 1)
           v == SubSeq(s, p, Len(s))
<1>1. Len(s) \in Nat
  BY SeqIs
<1>2. IsSeq(u) /\ Len(u) = ((p - 1) - 1) + 1
  <2>1. 1 <= (p - 1) + 1 /\ p - 1 <= Len(s) /\ 1 \in Int /\ p - 1 \in Int
    BY <1>1
  <2> QED
    BY <2>1, PartIs
<1>3. IsSeq(v) /\ Len(v) = (Len(s) - p) + 1
  <2>1. p <= Len(s) + 1 /\ Len(s) <= Len(s) /\ Len(s) \in Int
    BY <1>1
  <2> QED
    BY <2>1, PartIs
<1>4. InsertAt(s, p, x) = (u \o <<x>>) \o v
  BY Zenon DEF InsertAt
<1> HIDE DEF u, v
<1>5. IsSeq(<<x>>) /\ Len(<<x>>) = 1
  BY ShortSeqs
<1>6. IsSeq(u \o <<x>>) /\ Len(u \o <<x>>) = Len(u) + 1
  BY <1>2, <1>5, JoinIs
<1>7. IsSeq((u \o <<x>>) \o v) /\ Len((u \o <<x>>) \o v) = Len(u \o <<x>>) + Len(v)
  BY <1>3, <1>6, JoinIs
<1>8. Len((u \o <<x>>) \o v) = Len(s) + 1
  BY <1>1, <1>2, <1>3, <1>6, <1>7
<1> QED
  BY <1>4, <1>7, <1>8
LEMMA TakeOut ==
  ASSUME NEW s, IsSeq(s), NEW p \in Nat, 1 <= p, p <= Len(s)
  PROVE  IsSeq(RemoveAt(s, p)) /\ Len(RemoveAt(s, p)) = Len(s) - 1
<1> DEFINE u == SubSeq(s, 1, p - 1)
           v == SubSeq(s, p + 1, Len(s))
<1>1. Len(s) \in Nat
  BY SeqIs
<1>2. IsSeq(u) /\ Len(u) = ((p - 1) - 1) + 1
  <2>1. 1 <= (p - 1) + 1 /\ p - 1 <= Len(s) /\ 1 \in Int /\ p - 1 \in Int
    BY <1>1
  <2> QED
    BY <2>1, PartIs
<1>3. IsSeq(v) /\ Len(v) = (Len(s) - (p + 1)) + 1
  <2>1. p + 1 <= Len(s) + 1 /\ Len(s) <= Len(s) /\ Len(s) \in Int /\ 1 <= p + 1 /\ p + 1 \in Int
    BY <1>1
  <2> QED
    BY <2>1, PartIs
<1>4. RemoveAt(s, p) = u \o v
  BY Zenon DEF RemoveAt
<1> HIDE DEF u, v
<1>5. IsSeq(u \o v) /\ Len(u \o v) = Len(u) + Len(v)
  BY <1>2, <1>3, JoinIs
<1>6. Len(u \o v) = Len(s) - 1
  BY <1>1, <1>2, <1>3, <1>5
<1> QED
  BY <1>4, <1>5, <1>6
\* The last value is left away.
LEMMA FrontIs ==
  ASSUME NEW s, IsSeq(s), Len(s) >= 1
  PROVE  IsSeq(Front(s))
<1>1. Len(s) \in Nat
  BY SeqIs
<1>2. 1 <= (Len(s) - 1) + 1 /\ Len(s) - 1 <= Len(s) /\ 1 \in Int /\ Len(s) - 1 \in Int
  BY <1>1
<1>3. IsSeq(SubSeq(s, 1, Len(s) - 1))
  BY <1>2, PartIs
<1> QED
  BY <1>3, Zenon DEF Front
-------------------------------------------------------------------------------
\* A stack with a function f on it and its arguments xs.
On(s, below, f, xs) == IsSeq(below) /\ IsSeq(xs) /\ s = (below \o <<f>>) \o xs
\* The function and its arguments are found there.
LEMMA OnIs ==
  ASSUME NEW s, NEW below, NEW f, NEW xs, On(s, below, f, xs)
  PROVE  /\ IsSeq(s) /\ Len(below) \in Nat /\ Len(xs) \in Nat
         /\ Len(s) = (Len(below) + 1) + Len(xs)
         /\ s[Len(below) + 1] = f
         /\ SubSeq(s, (Len(below) + 1) + 1, Len(s)) = xs
<1>1. IsSeq(below) /\ IsSeq(xs) /\ s = (below \o <<f>>) \o xs
  BY Zenon DEF On
<1>2. PICK t : t = below \o <<f>>
  OBVIOUS
<1>3. IsSeq(<<f>>) /\ Len(<<f>>) = 1 /\ <<f>>[1] = f
  BY ShortSeqs
<1>4. /\ IsSeq(t) /\ Len(below) \in Nat /\ Len(t) = Len(below) + 1
      /\ \A j \in 1..1 : t[Len(below) + j] = <<f>>[j]
  BY <1>1, <1>2, <1>3, JoinIs
<1>5. t[Len(below) + 1] = f
  BY <1>3, <1>4
<1>6. s = t \o xs
  BY <1>1, <1>2, Zenon
<1>7. /\ IsSeq(s) /\ Len(xs) \in Nat /\ Len(s) = Len(t) + Len(xs)
      /\ \A j \in 1..Len(t) : s[j] = t[j]
  <2>1. IsSeq(t) /\ IsSeq(xs)
    BY <1>1, <1>4
  <2>2. /\ IsSeq(t \o xs) /\ Len(xs) \in Nat /\ Len(t \o xs) = Len(t) + Len(xs)
        /\ \A j \in 1..Len(t) : (t \o xs)[j] = t[j]
    BY <2>1, JoinIs
  <2> QED
    BY <1>6, <2>2
<1>8. SubSeq(s, Len(t) + 1, Len(t) + Len(xs)) = xs
  BY <1>1, <1>4, <1>6, PartsOfJoin
<1>9. Len(below) + 1 \in 1..Len(t)
  BY <1>4
<1>10. s[Len(below) + 1] = f
  BY <1>5, <1>7, <1>9
<1> QED
  BY <1>4, <1>7, <1>8, <1>10
\* A function with no argument.
LEMMA OnTop ==
  ASSUME NEW s, NEW f, IsSeq(s)
  PROVE  On(Append(s, f), s, f, << >>)
<1>1. IsSeq(<< >>) /\ IsSeq(<<f>>)
  BY ShortSeqs
<1>2. Append(s, f) = s \o <<f>>
  BY AppendIs
<1>3. IsSeq(s \o <<f>>)
  BY <1>1, JoinIs
<1>4. (s \o <<f>>) \o << >> = s \o <<f>>
  BY <1>3, JoinNone
<1> QED
  BY <1>1, <1>2, <1>4, Zenon DEF On
\* A function with one.
LEMMA OnPair ==
  ASSUME NEW s, NEW f, NEW x, IsSeq(s)
  PROVE  On(s \o <<f, x>>, s, f, <<x>>)
<1>1. IsSeq(<<x>>) /\ IsSeq(<<f>>)
  BY ShortSeqs
<1>2. PICK u, v : u = <<f>> /\ v = <<x>>
  OBVIOUS
<1>3. (s \o u) \o v = s \o (u \o v)
  <2>1. IsSeq(u) /\ IsSeq(v)
    BY <1>1, <1>2, Zenon
  <2> QED
    BY <2>1, JoinAssoc
<1>4. <<f, x>> = <<f>> \o <<x>>
  BY PairIs
<1> QED
  BY <1>1, <1>2, <1>3, <1>4, Zenon DEF On
\* A function at the bottom of the stack.
LEMMA OnNothing ==
  ASSUME NEW f, NEW xs, IsSeq(xs)
  PROVE  On(<<f>> \o xs, << >>, f, xs)
<1>1. IsSeq(<< >>) /\ IsSeq(<<f>>)
  BY ShortSeqs
<1>2. << >> \o <<f>> = <<f>>
  BY <1>1, JoinNone
<1> QED
  BY <1>1, <1>2, Zenon DEF On
-------------------------------------------------------------------------------
\* The Lua stack s while l is called, and when it has returned.
FnOf(l) == IF l.guard = "docall" THEN l.base + 1 ELSE l.base
Returns(s, l) ==
    /\ IsSeq(l.results)
    /\ l.outcome # "ok" \/ l.what \in {"bundle_loader", "add-on"} => Len(l.results) = 1
    /\ \E b : IsSeq(b) /\ Len(b) = FnOf(l) - 1 /\ s = b \o l.results
CallOn(s, l) ==
    /\ l.base \in Nat \ {0}
    /\ l.what = "add-on" => l.base >= 2
    /\ l.what = "line" => l.base = 1 /\ l.guard = "docall"
    /\ l.outcome = "running" => FnOf(l) <= Len(s)
    /\ l.outcome # "running" => Returns(s, l)
StackOf(s, l) == IsSeq(s) /\ (l # Idle => CallOn(s, l))

\* A call begins.
LEMMA BeginFields ==
  ASSUME NEW what, NEW op, NEW s, NEW narg, NEW guard, Begin(what, op, s, narg, guard)
  PROVE  /\ call'.base = Len(s) - narg /\ call'.guard = guard /\ call'.what = what
         /\ call'.operand = op /\ call'.outcome = "running"
         /\ call'.fn = s[Len(s) - narg] /\ call'.args = SubSeq(s, (Len(s) - narg) + 1, Len(s))
         /\ stack' = IF guard = "docall" THEN InsertAt(s, Len(s) - narg, <<"traceback">>) ELSE s
  BY DEF Begin
\* The stack is in order for the call that begins.
LEMMA BeginStack ==
  ASSUME NEW what, NEW op, NEW s, NEW narg, NEW guard, Begin(what, op, s, narg, guard),
         IsSeq(s), narg \in Nat, narg < Len(s),
         what = "add-on" => Len(s) - narg >= 2,
         what = "line" => Len(s) - narg = 1 /\ guard = "docall"
  PROVE  call' # Idle /\ StackOf(stack', call')
<1>1. /\ call'.base = Len(s) - narg /\ call'.guard = guard /\ call'.what = what
      /\ call'.outcome = "running"
      /\ stack' = IF guard = "docall" THEN InsertAt(s, Len(s) - narg, <<"traceback">>) ELSE s
  BY BeginFields
<1>2. call' # Idle
  BY Begins
<1> DEFINE p == Len(s) - narg
<1>3. Len(s) \in Nat /\ p \in Nat \ {0} /\ 1 <= p /\ p <= Len(s) /\ p <= Len(s) + 1
  <2>1. Len(s) \in Nat
    BY SeqIs
  <2> QED
    BY <2>1
<1> HIDE DEF p
<1>4. IsSeq(stack') /\ FnOf(call') <= Len(stack')
  <2>1. CASE guard = "docall"
    <3>1. stack' = InsertAt(s, p, <<"traceback">>)
      BY <1>1, <2>1 DEF p
    <3>2. IsSeq(InsertAt(s, p, <<"traceback">>)) /\ Len(InsertAt(s, p, <<"traceback">>)) = Len(s) + 1
      BY <1>3, PutIn
    <3>3. FnOf(call') = p + 1
      BY <1>1, <2>1 DEF p, FnOf
    <3> QED
      BY <1>3, <3>1, <3>2, <3>3
  <2>2. CASE guard # "docall"
    <3>1. stack' = s /\ FnOf(call') = p
      BY <1>1, <2>2 DEF p, FnOf
    <3> QED
      BY <1>3, <3>1
  <2> QED
    BY <2>1, <2>2
<1>5. CallOn(stack', call')
  <2>1. call'.base = p /\ call'.outcome = "running"
    BY <1>1 DEF p
  <2>2. call'.what = "add-on" => call'.base >= 2
    BY <1>1
  <2>3. call'.what = "line" => call'.base = 1 /\ call'.guard = "docall"
    BY <1>1
  <2> QED
    BY <1>3, <1>4, <2>1, <2>2, <2>3, Zenon DEF CallOn
<1> QED
  BY <1>2, <1>4, <1>5, Zenon DEF StackOf

\* It ends.
LEMMA EndFields ==
  ASSUME Shape, call # Idle, NEW outcome, NEW results, Leaves(outcome, results)
  PROVE  /\ call' # Idle /\ call'.base = call.base /\ call'.guard = call.guard /\ call'.what = call.what
         /\ call'.operand = call.operand /\ call'.fn = call.fn /\ call'.args = call.args
         /\ call'.outcome = outcome /\ call'.results = results
         /\ stack' = SubSeq(stack, 1, FnOf(call) - 1) \o results
<1>1. DOMAIN call = CallFields
  BY DEF Shape
<1>2. call' = [call EXCEPT !.outcome = outcome, !.results = results]
  BY DEF Leaves
<1>3. /\ call'.base = call.base /\ call'.guard = call.guard /\ call'.what = call.what
      /\ call'.operand = call.operand /\ call'.fn = call.fn /\ call'.args = call.args
      /\ call'.outcome = outcome /\ call'.results = results
  BY <1>1, <1>2 DEF CallFields
<1>4. stack' = SubSeq(stack, 1, FnOf(call) - 1) \o results
  BY Zenon DEF Leaves, FnOf
<1> QED
  BY <1>3, <1>4, Ends
\* And for the one that ends.
LEMMA EndStack ==
  ASSUME Shape, call # Idle, StackOf(stack, call), call.outcome = "running",
         NEW outcome, outcome # "running", NEW results, Leaves(outcome, results), IsSeq(results),
         outcome # "ok" \/ call.what \in {"bundle_loader", "add-on"} => Len(results) = 1
  PROVE  call' # Idle /\ StackOf(stack', call')
<1> DEFINE n == FnOf(call) - 1
           b == SubSeq(stack, 1, n)
<1>1. /\ call' # Idle /\ call'.base = call.base /\ call'.guard = call.guard /\ call'.what = call.what
      /\ call'.outcome = outcome /\ call'.results = results
      /\ stack' = b \o results
  BY EndFields
<1>2. FnOf(call') = FnOf(call)
  BY <1>1 DEF FnOf
<1>3. IsSeq(stack) /\ CallOn(stack, call)
  BY Zenon DEF StackOf
<1>4. /\ call.base \in Nat \ {0} /\ FnOf(call) <= Len(stack)
      /\ call.what = "add-on" => call.base >= 2
      /\ call.what = "line" => call.base = 1 /\ call.guard = "docall"
  BY <1>3, Zenon DEF CallOn
<1>5. n \in Nat /\ n <= Len(stack)
  <2>1. FnOf(call) = call.base \/ FnOf(call) = call.base + 1
    BY DEF FnOf
  <2>2. Len(stack) \in Nat
    BY <1>3, SeqIs
  <2> QED
    BY <1>4, <2>1, <2>2
<1>6. IsSeq(b) /\ Len(b) = n
  <2> HIDE DEF n
  <2>1. 1 <= n + 1 /\ n \in Int /\ 1 \in Int /\ 1 <= 1
    BY <1>5
  <2>2. IsSeq(b) /\ Len(b) = (n - 1) + 1
    BY <1>3, <1>5, <2>1, PartIs
  <2> QED
    BY <1>5, <2>2
<1> HIDE DEF b
<1>7. IsSeq(stack')
  <2>1. IsSeq(b \o results)
    BY <1>6, JoinIs
  <2> QED
    BY <1>1, <2>1
<1>8. Returns(stack', call')
  <2>1. IsSeq(call'.results)
    BY <1>1
  <2>2. call'.outcome # "ok" \/ call'.what \in {"bundle_loader", "add-on"} => Len(call'.results) = 1
    BY <1>1
  <2>3. IsSeq(b) /\ Len(b) = FnOf(call') - 1 /\ stack' = b \o call'.results
    BY <1>1, <1>2, <1>6
  <2> QED
    BY <2>1, <2>2, <2>3, Zenon DEF Returns
<1>9. CallOn(stack', call')
  <2>1. call'.outcome # "running"
    BY <1>1
  <2> QED
    BY <1>1, <1>4, <1>8, <2>1, Zenon DEF CallOn
<1> QED
  BY <1>1, <1>7, <1>9, Zenon DEF StackOf
-------------------------------------------------------------------------------
\* What is left of the stack when the call is over, with the handler of errors taken away.
LEMMA AfterIs ==
  ASSUME call # Idle, call.outcome # "running", StackOf(stack, call)
  PROVE  IsSeq(AfterCall) /\ IsSeq(stack) /\ (Failed => Len(AfterCall) >= 1)
<1>1. IsSeq(stack) /\ call.base \in Nat \ {0} /\ Returns(stack, call)
  BY Zenon DEF StackOf, CallOn
<1>2. PICK b : IsSeq(b) /\ Len(b) = FnOf(call) - 1 /\ stack = b \o call.results
  BY <1>1, Zenon DEF Returns
<1>3. IsSeq(call.results) /\ (Failed => Len(call.results) = 1)
  BY <1>1, Zenon DEF Returns, Failed
<1>4. PICK r : r = call.results
  OBVIOUS
<1>5. IsSeq(r) /\ (Failed => Len(r) = 1)
  BY <1>3, <1>4
<1>6. Len(stack) = Len(b) + Len(r) /\ Len(b) \in Nat /\ Len(r) \in Nat
  <2>1. Len(b \o r) = Len(b) + Len(r) /\ Len(b) \in Nat /\ Len(r) \in Nat
    BY <1>2, <1>5, JoinIs
  <2> QED
    BY <1>2, <1>4, <2>1
<1>7. CASE call.guard = "docall"
  <2>1. AfterCall = RemoveAt(stack, call.base)
    BY <1>7 DEF AfterCall
  <2>2. Len(b) = call.base
    BY <1>1, <1>2, <1>7 DEF FnOf
  <2>3. call.base <= Len(stack) /\ 1 <= call.base /\ call.base \in Nat
    BY <1>1, <1>6, <2>2
  <2>4. IsSeq(RemoveAt(stack, call.base)) /\ Len(RemoveAt(stack, call.base)) = Len(stack) - 1
    BY <1>1, <2>3, TakeOut
  <2>5. Failed => Len(stack) - 1 >= 1
    <3>1. Len(b) >= 1
      BY <2>2, <2>3
    <3>2. Failed => Len(r) >= 1
      BY <1>5
    <3>3. Len(stack) - 1 >= Len(r)
      BY <1>6, <3>1
    <3>4. Len(r) >= 1 => Len(stack) - 1 >= 1
      BY <1>6, <3>3
    <3> QED
      BY <3>2, <3>4
  <2> QED
    BY <1>1, <2>1, <2>4, <2>5
<1>8. CASE call.guard # "docall"
  <2>1. AfterCall = stack
    BY <1>8 DEF AfterCall
  <2>2. Failed => Len(stack) >= 1
    <3>2. Failed => Len(r) >= 1
      BY <1>5
    <3>3. Len(stack) >= Len(r)
      BY <1>6
    <3>4. Len(r) >= 1 => Len(stack) >= 1
      BY <1>6, <3>3
    <3> QED
      BY <3>2, <3>4
  <2> QED
    BY <1>1, <2>1, <2>2
<1> QED
  BY <1>7, <1>8
\* What report() leaves is a stack.
LEMMA ReportSeq ==
  ASSUME NEW failed, NEW s, IsSeq(s), failed => Len(s) >= 1
  PROVE  IsSeq(report(failed, s))
<1>1. CASE failed /\ Last(s) # Nil
  BY <1>1, FrontIs DEF report
<1>2. CASE ~(failed /\ Last(s) # Nil)
  BY <1>2 DEF report
<1> QED
  BY <1>1, <1>2
\* So it is after a call.
LEMMA ReportIs ==
  ASSUME call # Idle, call.outcome # "running", StackOf(stack, call)
  PROVE  IsSeq(report(Failed, AfterCall))
<1>1. IsSeq(AfterCall) /\ (Failed => Len(AfterCall) >= 1)
  BY AfterIs
<1> HIDE DEF AfterCall, Failed
<1> QED
  BY <1>1, ReportSeq

\* The line that is read is all there is on the stack.
TextOK == exit = "none" /\ call = Idle /\ pc \in {"loadbuffer", "addline"} =>
            stack = << <<"text", typed>> >>
\* The stack is in order for the call.
Stacked == StackOf(stack, call)
StackInv == WhereInv /\ Stacked /\ TextOK
ReadingLine == exit = "none" /\ call = Idle /\ pc \in {"loadbuffer", "addline"}
\* What is left to show when no call is on, when no line is being read, after a call begins,
\* and after one is over.
LEMMA IdleStack ==
  ASSUME call' = Idle, IsSeq(stack')
  PROVE  Stacked'
  BY Zenon DEF Stacked, StackOf
LEMMA AwayFromText ==
  ASSUME exit' # "none" \/ call' # Idle \/ pc' \notin {"loadbuffer", "addline"}
  PROVE  TextOK'
  BY Zenon DEF TextOK
LEMMA NowCalled ==
  ASSUME call' # Idle /\ StackOf(stack', call')
  PROVE  Stacked' /\ TextOK'
  BY Zenon DEF Stacked, TextOK
LEMMA NowIdle ==
  ASSUME call' = Idle, IsSeq(stack'), exit' # "none" \/ pc' \notin {"loadbuffer", "addline"}
  PROVE  Stacked' /\ TextOK'
<1>1. Stacked'
  BY IdleStack
<1>2. TextOK'
  BY AwayFromText
<1> QED
  BY <1>1, <1>2
-------------------------------------------------------------------------------
\* Steps that leave the stack and the call alone.
LEMMA SameStack ==
  StackInv /\ (main \/ arg_table \/ flag_option \/ options_done \/ incomplete \/ Sigint \/ UNCHANGED vars)
    => Stacked' /\ TextOK'
<1> SUFFICES ASSUME StackInv,
                    main \/ arg_table \/ flag_option \/ options_done \/ incomplete \/ Sigint \/ UNCHANGED vars
             PROVE  Stacked' /\ TextOK'
  OBVIOUS
<1>1. UNCHANGED <<stack, call, typed>>
  BY DEF main, arg_table, flag_option, options_done, incomplete, Sigint, Quiet, vars, lua, console
<1>2. Stacked'
  BY <1>1 DEF StackInv, Stacked
<1>3. ReadingLine' => ReadingLine
  <2>1. CASE main
    BY <2>1 DEF main, Exit, Goto, ReadingLine
  <2>2. CASE arg_table
    BY <2>2 DEF arg_table, Goto, ReadingLine
  <2>3. CASE flag_option
    BY <2>3 DEF flag_option, Goto, ReadingLine
  <2>4. CASE options_done
    BY <2>4 DEF options_done, Goto, ReadingLine
  <2>5. CASE incomplete
    BY <2>5 DEF incomplete, Step, Goto, ReadingLine
  <2>6. CASE Sigint
    BY <2>6 DEF Sigint, ReadingLine
  <2>7. CASE UNCHANGED vars
    BY <2>7 DEF vars, ReadingLine
  <2> QED
    BY <2>1, <2>2, <2>3, <2>4, <2>5, <2>6, <2>7
<1>4. TextOK'
  BY <1>1, <1>3, Zenon DEF StackInv, TextOK, ReadingLine
<1> QED
  BY <1>2, <1>4

\* Lua code that ends.
LEMMA ResultSeqs ==
  ASSUME NEW what, NEW r \in Results(what)
  PROVE  IsSeq(r) /\ (what \in {"bundle_loader", "add-on"} => Len(r) = 1)
<1>1. \A x : IsSeq(<<x>>) /\ Len(<<x>>) = 1
  BY ShortSeqs
<1>2. IsSeq(<< >>)
  BY ShortSeqs
<1>3. IsSeq(<<Value(1), Nil>>)
  <2>1. <<Value(1), Nil>> \in Seq({Value(1), Nil})
    OBVIOUS
  <2> QED
    BY <2>1, Zenon DEF IsSeq
<1>4. CASE what \in {"bundle_loader", "main"}
  <2>1. Results(what) = {<<Value("function")>>, <<Value("true")>>, <<Nil>>}
    <3>1. what # "add-on" /\ what \notin Many
      BY <1>4 DEF Many
    <3> QED
      BY <1>4, <3>1, Zenon DEF Results
  <2> QED
    BY <1>1, <2>1, Zenon
<1>5. CASE what = "add-on"
  <2>1. Results(what) = {<<Value("module")>>, <<Value("other")>>}
    <3>1. what \notin {"bundle_loader", "main"} /\ what \notin Many
      BY <1>5 DEF Many
    <3> QED
      BY <1>5, <3>1, Zenon DEF Results
  <2> QED
    BY <1>1, <2>1, Zenon
<1>6. CASE what \in Many
  <2>1. what \notin {"bundle_loader", "main", "add-on"}
    BY <1>6 DEF Many
  <2>2. Results(what) = {<< >>, <<Value(1), Nil>>}
    BY <1>6, <2>1, Zenon DEF Results
  <2> QED
    BY <1>2, <1>3, <2>1, <2>2, Zenon
<1>7. CASE what \notin {"bundle_loader", "main", "add-on"} /\ what \notin Many
  <2>1. Results(what) = {<< >>}
    BY <1>7, Zenon DEF Results
  <2> QED
    BY <1>2, <1>7, <2>1, Zenon
<1> QED
  BY <1>4, <1>5, <1>6, <1>7
\* An error leaves its message, or a nil.
LEMMA OneResult == IsSeq(<<Message>>) /\ Len(<<Message>>) = 1 /\ IsSeq(<<Nil>>) /\ Len(<<Nil>>) = 1
  BY ShortSeqs
\* The stack when it ends.
LEMMA LeaveStack ==
  StackInv /\ (Return \/ Throw \/ lstop) => Stacked' /\ TextOK'
<1> SUFFICES ASSUME StackInv, Return \/ Throw \/ lstop PROVE Stacked' /\ TextOK'
  OBVIOUS
<1>1. Shape /\ StackOf(stack, call) /\ call # Idle /\ call.outcome = "running"
  BY DEF StackInv, WhereInv, SignalInv, Stacked, Return, Throw, lstop, CanEnd
<1>2. CASE Return
  <2>1. PICK r \in Results(call.what) : Leaves("ok", r)
    BY <1>2, Zenon DEF Return
  <2>2. IsSeq(r) /\ (call.what \in {"bundle_loader", "add-on"} => Len(r) = 1)
    BY ResultSeqs
  <2>3. call' # Idle /\ StackOf(stack', call')
    BY <1>1, <2>1, <2>2, EndStack
  <2> QED
    BY <2>3, NowCalled
<1>3. ASSUME NEW o \in {"error", "absent", "interrupted"}, NEW m \in {Message, Nil}, Leaves(o, <<m>>)
      PROVE  Stacked' /\ TextOK'
  <2>1. o # "running" /\ IsSeq(<<m>>) /\ Len(<<m>>) = 1
    BY OneResult
  <2>2. call' # Idle /\ StackOf(stack', call')
    BY <1>1, <1>3, <2>1, EndStack
  <2> QED
    BY <2>2, NowCalled
<1>4. CASE Throw
  <2>1. \E o \in {"error", "absent", "interrupted"} : \E m \in {Message, Nil} : Leaves(o, <<m>>)
    BY <1>4, Zenon DEF Throw
  <2> QED
    BY <1>3, <2>1
<1>5. CASE lstop
  <2>1. Leaves("interrupted", <<Message>>) \/ UNCHANGED <<call, stack>>
    BY <1>5, Zenon DEF lstop
  <2>2. CASE Leaves("interrupted", <<Message>>)
    BY <1>3, <2>2
  <2>3. CASE UNCHANGED <<call, stack>>
    <3>1. call' # Idle /\ StackOf(stack', call')
      BY <1>1, <2>3
    <3> QED
      BY <3>1, NowCalled
  <2> QED
    BY <2>1, <2>2, <2>3
<1> QED
  BY <1>2, <1>4, <1>5
-------------------------------------------------------------------------------
\* The call that a step begins: of the function f with the arguments xs.
Calls(w, op, f, xs) ==
    /\ call' # Idle /\ StackOf(stack', call')
    /\ call'.what = w /\ call'.operand = op /\ call'.fn = f /\ call'.args = xs
\* It is begun on a stack that has them on top.
LEMMA BeginOn ==
  ASSUME NEW what, NEW op, NEW s, NEW narg, NEW guard, Begin(what, op, s, narg, guard),
         NEW below, NEW f, NEW xs, On(s, below, f, xs), narg = Len(xs),
         what = "add-on" => Len(below) >= 1,
         what = "line" => Len(below) = 0 /\ guard = "docall"
  PROVE  Calls(what, op, f, xs)
<1>1. /\ IsSeq(s) /\ Len(below) \in Nat /\ Len(xs) \in Nat
      /\ Len(s) = (Len(below) + 1) + Len(xs)
      /\ s[Len(below) + 1] = f
      /\ SubSeq(s, (Len(below) + 1) + 1, Len(s)) = xs
  BY OnIs
<1>2. Len(s) - narg = Len(below) + 1 /\ narg \in Nat /\ narg < Len(s)
  BY <1>1
<1>3. /\ what = "add-on" => Len(s) - narg >= 2
      /\ what = "line" => Len(s) - narg = 1 /\ guard = "docall"
  BY <1>1, <1>2
<1>4. call' # Idle /\ StackOf(stack', call')
  BY <1>1, <1>2, <1>3, BeginStack
<1>5. call'.what = what /\ call'.operand = op
      /\ call'.fn = s[Len(s) - narg] /\ call'.args = SubSeq(s, (Len(s) - narg) + 1, Len(s))
  BY BeginFields
<1>6. call'.fn = f /\ call'.args = xs
  BY <1>1, <1>2, <1>5
<1> QED
  BY <1>4, <1>5, <1>6, Zenon DEF Calls
\* No value and one value are sequences.
LEMMA NoneSeq == IsSeq(<< >>) /\ Len(<< >>) = 0
  BY ShortSeqs
LEMMA OneSeq == \A x : IsSeq(<<x>>) /\ Len(<<x>>) = 1
  BY ShortSeqs
\* The function alone is on top.
LEMMA BeginTop ==
  ASSUME NEW what, NEW op, NEW s, NEW f, NEW guard, Begin(what, op, Append(s, f), 0, guard), IsSeq(s),
         what # "add-on", what # "line"
  PROVE  Calls(what, op, f, << >>)
<1>1. On(Append(s, f), s, f, << >>)
  BY OnTop
<1> QED
  BY <1>1, NoneSeq, BeginOn
\* The function and one argument are.
LEMMA BeginPair ==
  ASSUME NEW what, NEW op, NEW s, NEW f, NEW x, NEW guard, Begin(what, op, s \o <<f, x>>, 1, guard), IsSeq(s),
         what # "add-on", what # "line"
  PROVE  Calls(what, op, f, <<x>>)
<1>1. On(s \o <<f, x>>, s, f, <<x>>)
  BY OnPair
<1> QED
  BY <1>1, OneSeq, BeginOn
\* Three values put on a stack; the second is a function, the third its argument.
LEMMA OnThree ==
  ASSUME NEW s, NEW x, NEW f, NEW y, IsSeq(s)
  PROVE  \E below : On(s \o <<x, f, y>>, below, f, <<y>>) /\ Len(below) >= 1
<1>1. PICK u, v : u = <<x>> /\ v = <<f, y>>
  OBVIOUS
<1>2. IsSeq(u) /\ Len(u) = 1 /\ u[1] = x
  BY <1>1, ShortSeqs
<1>3. v = <<f>> \o <<y>>
  BY <1>1, PairIs
<1>4. IsSeq(v) /\ Len(v) = 2 /\ v[1] = f /\ v[2] = y
  <2>1. v \in Seq({f, y}) /\ Len(v) = 2 /\ v[1] = f /\ v[2] = y
    BY <1>1
  <2> QED
    BY <2>1, Zenon DEF IsSeq
<1>5. <<x, f, y>> = u \o v
  <2> DEFINE t == <<x, f, y>>
  <2>1. t \in Seq({x, f, y}) /\ Len(t) = 3 /\ t[1] = x /\ t[2] = f /\ t[3] = y
    OBVIOUS
  <2> HIDE DEF t
  <2>2. IsSeq(t)
    BY <2>1, Zenon DEF IsSeq
  <2>3. /\ IsSeq(u \o v) /\ Len(u \o v) = Len(u) + Len(v)
        /\ \A j \in 1..Len(u) : (u \o v)[j] = u[j]
        /\ \A j \in 1..Len(v) : (u \o v)[Len(u) + j] = v[j]
    BY <1>2, <1>4, JoinIs
  <2>4. (u \o v)[1] = x
    BY <1>2, <2>3
  <2>5. (u \o v)[2] = f
    <3>1. 1 \in 1..Len(v) /\ Len(u) + 1 = 2
      BY <1>2, <1>4
    <3> QED
      BY <1>4, <2>3, <3>1
  <2>6. (u \o v)[3] = y
    <3>1. 2 \in 1..Len(v) /\ Len(u) + 2 = 3
      BY <1>2, <1>4
    <3> QED
      BY <1>4, <2>3, <3>1
  <2>7. Len(u \o v) = 3
    BY <1>2, <1>4, <2>3
  <2>8. \A j \in 1..Len(t) : t[j] = (u \o v)[j]
    <3> SUFFICES ASSUME NEW j \in 1..Len(t) PROVE t[j] = (u \o v)[j]
      OBVIOUS
    <3>1. j = 1 \/ j = 2 \/ j = 3
      BY <2>1
    <3> QED
      BY <2>1, <2>4, <2>5, <2>6, <3>1
  <2>9. t = u \o v
    BY <2>1, <2>2, <2>3, <2>7, <2>8, SameSeq
  <2> QED
    BY <2>9 DEF t
<1>6. (s \o u) \o v = s \o (u \o v)
  BY <1>2, <1>4, JoinAssoc
<1>7. IsSeq(s \o u) /\ Len(s \o u) >= 1
  <2>1. IsSeq(s \o u) /\ Len(s \o u) = Len(s) + Len(u) /\ Len(s) \in Nat
    BY <1>2, JoinIs
  <2> QED
    BY <1>2, <2>1
<1>8. On((s \o u) \o <<f, y>>, s \o u, f, <<y>>)
  BY <1>7, OnPair
<1>9. s \o <<x, f, y>> = (s \o u) \o <<f, y>>
  BY <1>1, <1>5, <1>6, Zenon
<1> QED
  BY <1>7, <1>8, <1>9, Zenon
-------------------------------------------------------------------------------
\* What each step of main() calls.
LEMMA StackSeq == StackInv => IsSeq(stack)
  BY Zenon DEF StackInv, Stacked, StackOf
\* The chunk compiled for w and its operand.
ChunkOf(w, op) == <<"chunk", w, op>>
\* require() loads the main function of a bundle.
LEMMA BundleCalls == StackInv /\ bundle_main =>
  Calls("bundle_loader", Word("bundle_loader"), Value("require"), <<Word("bundle_loader")>>)
<1> SUFFICES ASSUME StackInv, bundle_main
             PROVE  Calls("bundle_loader", Word("bundle_loader"), Value("require"), <<Word("bundle_loader")>>)
  OBVIOUS
<1>1. Begin("bundle_loader", Word("bundle_loader"),
            stack \o <<Value("require"), Word("bundle_loader")>>, 1, "pcall")
  BY Zenon DEF bundle_main
<1>2. IsSeq(stack)
  BY StackSeq
<1> QED
  BY <1>1, <1>2, BeginPair
\* The chunk of LUA_INIT is called.
LEMMA InitCalls == StackInv /\ handle_luainit =>
  Calls("init", Nothing, ChunkOf("init", Nothing), << >>) \/ (Quiet /\ UNCHANGED stack /\ pc' = "options")
<1> SUFFICES ASSUME StackInv, handle_luainit
             PROVE  Calls("init", Nothing, ChunkOf("init", Nothing), << >>)
                    \/ (Quiet /\ UNCHANGED stack /\ pc' = "options")
  OBVIOUS
<1>1. Begin("init", Nothing, Append(stack, ChunkOf("init", Nothing)), 0, "docall")
      \/ (Quiet /\ UNCHANGED stack /\ pc' = "options")
  BY Zenon DEF handle_luainit, Goto, Chunk, ChunkOf
<1>2. IsSeq(stack)
  BY StackSeq
<1> QED
  BY <1>1, <1>2, BeginTop
\* The chunk of -e.
LEMMA StringCalls == StackInv /\ dostring => Calls("-e", Op, ChunkOf("-e", Op), << >>)
<1> SUFFICES ASSUME StackInv, dostring PROVE Calls("-e", Op, ChunkOf("-e", Op), << >>)
  OBVIOUS
<1>1. Begin("-e", Op, Append(stack, ChunkOf("-e", Op)), 0, "docall")
  BY Zenon DEF dostring, Chunk, ChunkOf
<1>2. IsSeq(stack)
  BY StackSeq
<1> QED
  BY <1>1, <1>2, BeginTop
\* require() loads the library of -l.
LEMMA LibraryCalls == StackInv /\ dolibrary => Calls("-l", Op, Value("require"), <<Op>>)
<1> SUFFICES ASSUME StackInv, dolibrary PROVE Calls("-l", Op, Value("require"), <<Op>>)
  OBVIOUS
<1>1. Begin("-l", Op, stack \o <<Value("require"), Op>>, 1, "docall")
  BY Zenon DEF dolibrary
<1>2. IsSeq(stack)
  BY StackSeq
<1> QED
  BY <1>1, <1>2, BeginPair
\* The pieces of an operand are a sequence, of one argument when it has no comma.
LEMMA OptionsSeq == \A text : IsSeq(Options(text))
<1> SUFFICES ASSUME NEW text, text # Nothing PROVE IsSeq(Options(text))
  BY NoneSeq, Zenon DEF Options
<1> DEFINE pieces == IF text \in DOMAIN Pieces THEN Pieces[text] ELSE <<text>>
           t == [k \in 1..Len(pieces) |-> IF pieces[k] = Nothing THEN Nil ELSE pieces[k]]
<1>1. Len(pieces) \in Nat
  <2>1. CASE text \in DOMAIN Pieces
    <3>1. pieces \in Seq(Argument)
      BY <2>1, SpellingAssumption
    <3> QED
      BY <3>1, LenProperties
  <2>2. CASE text \notin DOMAIN Pieces
    BY <2>2, OneSeq
  <2> QED
    BY <2>1, <2>2
<1>2. Options(text) = t
  BY Zenon DEF Options
<1> HIDE DEF pieces
<1>3. t \in [1..Len(pieces) -> {t[k] : k \in 1..Len(pieces)}]
  OBVIOUS
<1> HIDE DEF t
<1>4. t \in Seq({t[k] : k \in 1..Len(pieces)})
  BY <1>1, <1>3, SeqDef
<1> QED
  BY <1>2, <1>4, Zenon DEF IsSeq
\* So is what is pushed for an option, and what is pushed of -bx.
LEMMA OperandsSeq ==
  /\ \A opt, op : IsSeq(OptionsOf(opt, op))
  /\ \A op : IsSeq(hyphenated(op))
<1>1. \A opt, op : IsSeq(OptionsOf(opt, op))
  BY OptionsSeq, Zenon DEF OptionsOf
<1>2. \A op : IsSeq(hyphenated(op))
  BY NoneSeq, OneSeq, Zenon DEF hyphenated
<1> QED
  BY <1>1, <1>2
\* A function is put on a stack, then its arguments.
LEMMA OnArgs ==
  ASSUME NEW s, NEW f, NEW xs, IsSeq(s), IsSeq(xs)
  PROVE  On(Append(s, f) \o xs, s, f, xs)
<1>1. Append(s, f) = s \o <<f>>
  BY AppendIs
<1> QED
  BY <1>1, Zenon DEF On
\* A function of the jit library gets the pieces of the operand.
LEMMA OptCalls == StackInv /\ runcmdopt =>
  argv[i].head \in {"-j", "-O"}
  /\ Calls(argv[i].head, Op, Function(argv[i].head, Op), OptionsOf(argv[i].head, Op))
<1> SUFFICES ASSUME StackInv, runcmdopt
             PROVE  argv[i].head \in {"-j", "-O"}
                    /\ Calls(argv[i].head, Op, Function(argv[i].head, Op), OptionsOf(argv[i].head, Op))
  OBVIOUS
<1> DEFINE h == argv[i].head
           f == Function(h, Op)
           xs == OptionsOf(h, Op)
<1>1. Begin(h, Op, Append(stack, f) \o xs, Len(xs), "pcall") /\ h \in {"-j", "-O"}
  BY Zenon DEF runcmdopt, Option_at
<1>2. IsSeq(stack) /\ IsSeq(xs)
  BY StackSeq, OperandsSeq
<1> HIDE DEF h, f, xs
<1>3. On(Append(stack, f) \o xs, stack, f, xs)
  BY <1>2, OnArgs
<1>4. h # "add-on" /\ h # "line"
  BY <1>1
<1>5. Calls(h, Op, f, xs)
  BY <1>1, <1>3, <1>4, BeginOn
<1> QED
  BY <1>1, <1>5 DEF h, f, xs
\* require() loads an add-on module.
LEMMA ModuleCalls == StackInv /\ loadjitmodule =>
  \E name : Calls("add-on", name, Value("require"), <<name>>)
<1> SUFFICES ASSUME StackInv, loadjitmodule
             PROVE  \E name : Calls("add-on", name, Value("require"), <<name>>)
  OBVIOUS
<1>1. PICK name : Begin("add-on", name, stack \o <<name, Value("require"), name>>, 1, "pcall")
  BY Zenon DEF loadjitmodule
<1>2. IsSeq(stack)
  BY StackSeq
<1>3. PICK below : On(stack \o <<name, Value("require"), name>>, below, Value("require"), <<name>>)
                   /\ Len(below) >= 1
  BY <1>2, OnThree
<1>4. 1 = Len(<<name>>) /\ "add-on" # "line"
  BY OneSeq
<1>5. Calls("add-on", name, Value("require"), <<name>>)
  BY <1>1, <1>3, <1>4, BeginOn
<1> QED
  BY <1>5
\* The console says its status.
LEMMA StatusCalls == StackInv /\ print_jit_status => Calls("status", Nothing, Value("status"), << >>)
<1> SUFFICES ASSUME StackInv, print_jit_status PROVE Calls("status", Nothing, Value("status"), << >>)
  OBVIOUS
<1>1. Begin("status", Nothing, Append(stack, Value("status")), 0, "call")
  BY Zenon DEF print_jit_status
<1>2. IsSeq(stack)
  BY StackSeq
<1> QED
  BY <1>1, <1>2, BeginTop
\* The chunk of the standard input.
LEMMA StdinCalls == StackInv /\ dofile =>
  Calls("stdin", Nothing, ChunkOf("stdin", Nothing), << >>)
  \/ (Quiet /\ UNCHANGED stack /\ exit' = "success")
<1> SUFFICES ASSUME StackInv, dofile
             PROVE  Calls("stdin", Nothing, ChunkOf("stdin", Nothing), << >>)
                    \/ (Quiet /\ UNCHANGED stack /\ exit' = "success")
  OBVIOUS
<1>1. Begin("stdin", Nothing, Append(stack, ChunkOf("stdin", Nothing)), 0, "docall")
      \/ (Quiet /\ UNCHANGED stack /\ exit' = "success")
  BY Zenon DEF dofile, Exit, Chunk, ChunkOf
<1>2. IsSeq(stack)
  BY StackSeq
<1> QED
  BY <1>1, <1>2, BeginTop
\* The chunk of the line that was read.
LEMMA LineCalls == StackInv /\ line_loaded =>
  Calls("line", typed, <<"line", <<"text", typed>>>>, << >>)
<1> SUFFICES ASSUME StackInv, line_loaded
             PROVE  Calls("line", typed, <<"line", <<"text", typed>>>>, << >>)
  OBVIOUS
<1> DEFINE x == <<"text", typed>>
           y == <<"line", x>>
<1>1. stack = <<x>>
  BY DEF line_loaded, Step, StackInv, TextOK
<1>2. Begin("line", typed, RemoveAt(Append(stack, <<"line", stack[1]>>), 1), 0, "docall")
  BY Zenon DEF line_loaded
<1> HIDE DEF x
<1>3. IsSeq(stack) /\ stack[1] = x
  BY <1>1, ShortSeqs
<1>4. Append(stack, <<"line", stack[1]>>) = <<x>> \o <<y>>
  <2>1. Append(stack, y) = stack \o <<y>>
    BY <1>3, AppendIs
  <2> QED
    BY <1>1, <1>3, <2>1, Zenon
<1> HIDE DEF y
<1>5. RemoveAt(<<x>> \o <<y>>, 1) = <<y>>
  <2>1. IsSeq(<<y>>)
    BY ShortSeqs
  <2> QED
    BY <2>1, FirstOut
<1>6. Append(<< >>, y) = <<y>>
  OBVIOUS
<1>7. Begin("line", typed, Append(<< >>, y), 0, "docall")
  BY <1>2, <1>4, <1>5, <1>6, Zenon
<1>8. On(Append(<< >>, y), << >>, y, << >>) /\ Len(<< >>) = 0
  BY NoneSeq, OnTop
<1>9. Calls("line", typed, y, << >>)
  BY <1>7, <1>8, BeginOn
<1> QED
  BY <1>9 DEF x, y
-------------------------------------------------------------------------------
\* Steps after a call that may begin another.
LEMMA ArgvSeq ==
  ASSUME NEW c, WellWritten(c)
  PROVE  IsSeq(Argv(c))
<1>1. Laid(c, EndsOf(c), Argv(c))
  BY ArgvIsLaid
<1>2. Argv(c) \in Seq(Words(c))
  BY <1>1, Zenon DEF Laid
<1> QED
  BY <1>2, Zenon DEF IsSeq
\* What is on the stack when a call has returned.
LEMMA ReturnedIs ==
  ASSUME StackInv, call # Idle, call.outcome # "running"
  PROVE  /\ call.base \in Nat \ {0} /\ IsSeq(call.results) /\ IsSeq(stack)
         /\ call.what = "add-on" => call.base >= 2
         /\ call.what = "line" => call.base = 1 /\ call.guard = "docall"
         /\ Failed \/ call.what \in {"bundle_loader", "add-on"} => Len(call.results) = 1
         /\ \E b : IsSeq(b) /\ Len(b) = FnOf(call) - 1 /\ stack = b \o call.results
  BY Zenon DEF StackInv, Stacked, StackOf, CallOn, Returns, Failed
\* The main function gets all the arguments.
LEMMA LoadedCalls == StackInv /\ bundle_loaded =>
  \/ \E f : Calls("main", Nothing, f, argv)
  \/ call' = Idle /\ IsSeq(stack') /\ (exit' # "none" \/ pc' = "arg")
<1> SUFFICES ASSUME StackInv, bundle_loaded
             PROVE  \/ \E f : Calls("main", Nothing, f, argv)
                    \/ call' = Idle /\ IsSeq(stack') /\ (exit' # "none" \/ pc' = "arg")
  OBVIOUS
<1>1. call # Idle /\ call.outcome # "running" /\ call.what = "bundle_loader"
  BY DEF bundle_loaded, Returned
<1>2. IsSeq(stack) /\ IsSeq(<< >>)
  BY StackSeq, ShortSeqs
<1>3. \/ call' = Idle /\ stack' \in {stack, << >>} /\ (exit' # "none" \/ pc' = "arg")
      \/ Begin("main", Nothing, stack \o argv, Len(argv), "call")
  BY Zenon DEF bundle_loaded, Fallback, Goto, Exit
<1>4. CASE call' = Idle /\ stack' \in {stack, << >>} /\ (exit' # "none" \/ pc' = "arg")
  BY <1>2, <1>4
<1>5. CASE Begin("main", Nothing, stack \o argv, Len(argv), "call")
  <2>1. PICK b : IsSeq(b) /\ stack = b \o call.results
    BY <1>1, ReturnedIs
  <2>2. IsSeq(call.results) /\ Len(call.results) = 1
    BY <1>1, ReturnedIs
  <2>3. PICK r : r = call.results
    OBVIOUS
  <2>4. r = <<r[1]>>
    BY <2>2, <2>3, OneIs
  <2>5. stack = b \o <<r[1]>>
    BY <2>1, <2>3, <2>4, Zenon
  <2>6. IsSeq(argv)
    <3>1. ~Misused(cmd)
      BY <1>1, RightIs DEF StackInv
    <3>2. WellWritten(cmd)
      BY <3>1, KnownIs, Zenon DEF StackInv, Known
    <3> QED
      BY <3>2, ArgvSeq DEF argv
  <2>7. On(stack \o argv, b, r[1], argv)
    BY <2>1, <2>5, <2>6, Zenon DEF On
  <2>8. Calls("main", Nothing, r[1], argv)
    <3>1. "main" # "add-on" /\ "main" # "line"
      OBVIOUS
    <3> HIDE DEF argv
    <3> QED
      BY <1>5, <2>7, <3>1, BeginOn
  <2> QED
    BY <2>8
<1> QED
  BY <1>3, <1>4, <1>5

\* A line returned: what it left is printed.
LEMMA LineLeaves ==
  ASSUME StackInv, call # Idle, call.outcome # "running", call.what = "line", ~Failed
  PROVE  report(Failed, AfterCall) = call.results
<1>1. call.base = 1 /\ call.guard = "docall" /\ IsSeq(call.results)
  BY ReturnedIs
<1>2. PICK b : IsSeq(b) /\ Len(b) = FnOf(call) - 1 /\ stack = b \o call.results
  BY ReturnedIs
<1>3. Len(b) = 1
  BY <1>1, <1>2 DEF FnOf
<1>4. b = <<b[1]>>
  BY <1>2, <1>3, OneIs
<1>5. PICK r, x : r = call.results /\ x = b[1]
  OBVIOUS
<1>6. IsSeq(r)
  BY <1>1, <1>5
<1>7. RemoveAt(<<x>> \o r, 1) = r
  BY <1>6, FirstOut
<1>8. stack = <<x>> \o r
  BY <1>2, <1>4, <1>5, Zenon
<1>9. AfterCall = r
  BY <1>1, <1>7, <1>8, Zenon DEF AfterCall
<1> QED
  BY <1>5, <1>9, Zenon DEF report
\* print gets what the line returned.
LEMMA LineDoneCalls == StackInv /\ line_done =>
  \/ Calls("print", Nothing, Value("print"), call.results)
  \/ call' = Idle /\ IsSeq(stack')
<1> SUFFICES ASSUME StackInv, line_done
             PROVE  \/ Calls("print", Nothing, Value("print"), call.results)
                    \/ call' = Idle /\ IsSeq(stack')
  OBVIOUS
<1> DEFINE s == report(Failed, AfterCall)
<1>1. call # Idle /\ call.outcome # "running" /\ call.what = "line"
  BY DEF line_done, Returned
<1>2. \/ call' = Idle /\ stack' = s
      \/ ~Failed /\ Begin("print", Nothing, <<Value("print")>> \o s, Len(s), "pcall")
  BY Zenon DEF line_done, Over
<1>3. IsSeq(s)
  BY <1>1, ReportIs DEF StackInv, Stacked
<1> HIDE DEF s
<1>4. CASE call' = Idle /\ stack' = s
  BY <1>3, <1>4
<1>5. CASE ~Failed /\ Begin("print", Nothing, <<Value("print")>> \o s, Len(s), "pcall")
  <2>1. s = call.results
    BY <1>1, <1>5, LineLeaves DEF s
  <2>2. On(<<Value("print")>> \o s, << >>, Value("print"), s)
    BY <1>3, OnNothing
  <2>3. Calls("print", Nothing, Value("print"), s)
    BY <1>5, <2>2, BeginOn
  <2> QED
    BY <2>1, <2>3
<1> QED
  BY <1>2, <1>4, <1>5
-------------------------------------------------------------------------------
\* The option that an add-on module was loaded for.
LEMMA AddOnIsFor ==
  ASSUME WhereInv, exit = "none", call # Idle, call.what = "add-on"
  PROVE  argv[i].head \in {"-j", "-b"} /\ (argv[i].head = "-b" => BytecodeArgs = hyphenated(Op) \o Trailing(cmd))
<1>1. PICK k : /\ Known /\ AtOption(cmd, env, i, ran, k) /\ AtAnOption(k)
               /\ OfOption(cmd.options[k], call.what, call.operand)
  BY AtOptionIs
<1>2. cmd.options[k].opt \in {"-j", "-b"}
  <2>1. "add-on" \notin {"-e", "-l", "-j", "-O", "-b"}
    OBVIOUS
  <2> QED
    BY <1>1, <2>1, Zenon DEF OfOption
<1>3. /\ k \in 1..Len(cmd.options) /\ i = Place(cmd, k) /\ argv[i].head = cmd.options[k].opt
  BY <1>1, Zenon DEF AtAnOption, AtOption
<1>4. ASSUME argv[i].head = "-b"
      PROVE  BytecodeArgs = hyphenated(Op) \o Trailing(cmd)
  <2>1. WellWritten(cmd) /\ cmd.options[k].opt = "-b"
    BY <1>1, <1>3, <1>4, Zenon DEF Known
  <2>2. SubSeq(argv, i + 1, Len(argv)) = Trailing(cmd)
    BY <1>3, <2>1, BytecodeIs DEF argv
  <2> QED
    BY <2>2, Zenon DEF BytecodeArgs
<1> QED
  BY <1>2, <1>3, <1>4
\* What comes after the options is a sequence.
LEMMA TrailingSeq ==
  ASSUME NEW c, WellWritten(c)
  PROVE  IsSeq(Trailing(c))
<1>1. Ending(c, IF c.dashes THEN 1 ELSE 0)
  BY EndingIs
<1> QED
  BY <1>1, Zenon DEF Ending
\* The function of an add-on module gets the pieces of the operand; that of -b all that follows.
LEMMA AddOnCalls == StackInv /\ add_on_loaded =>
  \/ call' = Idle /\ IsSeq(stack') /\ exit' # "none"
  \/ Calls("-b", Op, Function("-b", Op), hyphenated(Op) \o Trailing(cmd))
  \/ Calls("-j", Op, Function("-j", Op), OptionsOf("-j", Op))
<1> SUFFICES ASSUME StackInv, add_on_loaded
             PROVE  \/ call' = Idle /\ IsSeq(stack') /\ exit' # "none"
                    \/ Calls("-b", Op, Function("-b", Op), hyphenated(Op) \o Trailing(cmd))
                    \/ Calls("-j", Op, Function("-j", Op), OptionsOf("-j", Op))
  OBVIOUS
<1>1. call # Idle /\ call.outcome # "running" /\ call.what = "add-on" /\ exit = "none"
  BY DEF add_on_loaded, Returned
<1> DEFINE below == SubSeq(stack, 1, Len(stack) - 2)
           name == stack[Len(stack) - 1]
           h == argv[i].head
<1>2. /\ IsSeq(stack) /\ Len(stack) \in Nat /\ Len(stack) >= 2
  <2>1. /\ call.base >= 2 /\ call.base \in Nat /\ Len(call.results) = 1 /\ IsSeq(call.results)
        /\ \E b : IsSeq(b) /\ Len(b) = FnOf(call) - 1 /\ stack = b \o call.results
    BY <1>1, ReturnedIs
  <2>2. PICK b : IsSeq(b) /\ Len(b) = FnOf(call) - 1 /\ stack = b \o call.results
    BY <2>1
  <2>3. PICK r : r = call.results
    OBVIOUS
  <2>4. IsSeq(b \o r) /\ Len(b \o r) = Len(b) + Len(r) /\ Len(b) \in Nat
    <3>1. IsSeq(r)
      BY <2>1, <2>3
    <3> QED
      BY <2>2, <3>1, JoinIs
  <2>5. Len(b) >= 1
    <3>1. Len(b) = call.base - 1 \/ Len(b) = (call.base + 1) - 1
      BY <2>2 DEF FnOf
    <3> QED
      BY <2>1, <3>1
  <2>6. Len(r) = 1 /\ stack = b \o r
    BY <2>1, <2>2, <2>3, Zenon
  <2> QED
    BY <2>4, <2>5, <2>6
<1>3. \/ /\ call' = Idle /\ exit' = "failure"
         /\ stack' = report(TRUE, stack) \/ stack' = stack
      \/ /\ h = "-b"
         /\ Begin("-b", Op, below \o <<name, Function(h, Op)>> \o BytecodeArgs, Len(BytecodeArgs), "pcall")
      \/ /\ h # "-b"
         /\ Begin("-j", Op, below \o <<Function(h, Op)>> \o OptionsOf("-j", Op),
               Len(OptionsOf("-j", Op)), "pcall")
  BY Zenon DEF add_on_loaded, Exit
<1>4. h \in {"-j", "-b"} /\ (h = "-b" => BytecodeArgs = hyphenated(Op) \o Trailing(cmd))
  BY <1>1, AddOnIsFor DEF StackInv
<1>5. IsSeq(below)
  <2>1. 1 <= (Len(stack) - 2) + 1 /\ Len(stack) - 2 <= Len(stack) /\ 1 \in Int /\ Len(stack) - 2 \in Int
    BY <1>2
  <2> QED
    BY <1>2, <2>1, PartIs
<1>6. IsSeq(OptionsOf("-j", Op)) /\ IsSeq(hyphenated(Op))
  BY OperandsSeq, Zenon
<1>7. IsSeq(hyphenated(Op) \o Trailing(cmd))
  <2>1. WellWritten(cmd)
    BY CommandsAssumption DEF StackInv, WhereInv, Input
  <2>2. IsSeq(Trailing(cmd))
    BY <2>1, TrailingSeq
  <2> QED
    BY <1>6, <2>2, JoinIs
<1> HIDE DEF below, name, h
<1>8. CASE call' = Idle /\ exit' = "failure" /\ (stack' = report(TRUE, stack) \/ stack' = stack)
  <2>1. IsSeq(report(TRUE, stack))
    <3>1. Len(stack) >= 1
      BY <1>2
    <3> QED
      BY <1>2, <3>1, ReportSeq
  <2> QED
    BY <1>2, <1>8, <2>1
<1>9. ASSUME h = "-b",
             Begin("-b", Op, below \o <<name, Function(h, Op)>> \o BytecodeArgs, Len(BytecodeArgs), "pcall")
      PROVE  Calls("-b", Op, Function("-b", Op), hyphenated(Op) \o Trailing(cmd))
  <2>1. PICK xs : xs = BytecodeArgs
    OBVIOUS
  <2>2. IsSeq(xs) /\ xs = hyphenated(Op) \o Trailing(cmd)
    BY <1>4, <1>7, <1>9, <2>1, Zenon
  <2>3. PICK f : f = Function("-b", Op)
    OBVIOUS
  <2>4. Begin("-b", Op, (below \o <<name, f>>) \o xs, Len(xs), "pcall")
    BY <1>9, <2>1, <2>3, Zenon
  <2>5. PICK u, v : u = <<name>> /\ v = <<f>>
    OBVIOUS
  <2>6. IsSeq(u) /\ IsSeq(v)
    BY <2>5, ShortSeqs
  <2>7. (below \o u) \o v = below \o (u \o v)
    BY <1>5, <2>6, JoinAssoc
  <2>8. <<name, f>> = <<name>> \o <<f>>
    BY PairIs
  <2>9. below \o <<name, f>> = (below \o u) \o <<f>>
    BY <2>5, <2>7, <2>8, Zenon
  <2>10. IsSeq(below \o u)
    BY <1>5, <2>6, JoinIs
  <2>11. On((below \o <<name, f>>) \o xs, below \o u, f, xs)
    BY <2>2, <2>9, <2>10, Zenon DEF On
  <2>12. "-b" # "add-on" /\ "-b" # "line"
    OBVIOUS
  <2>13. Calls("-b", Op, f, xs)
    BY <2>4, <2>11, <2>12, BeginOn
  <2> QED
    BY <2>2, <2>3, <2>13, Zenon
<1>10. ASSUME h # "-b",
              Begin("-j", Op, below \o <<Function(h, Op)>> \o OptionsOf("-j", Op),
               Len(OptionsOf("-j", Op)), "pcall")
       PROVE  Calls("-j", Op, Function("-j", Op), OptionsOf("-j", Op))
  <2>1. h = "-j"
    BY <1>4, <1>10
  <2>2. PICK f : f = Function("-j", Op)
    OBVIOUS
  <2>7. PICK xs : xs = OptionsOf("-j", Op)
    OBVIOUS
  <2>3. Begin("-j", Op, (below \o <<f>>) \o xs, Len(xs), "pcall")
    BY <1>10, <2>1, <2>2, <2>7, Zenon
  <2>4. On((below \o <<f>>) \o xs, below, f, xs)
    BY <1>5, <1>6, <2>7, Zenon DEF On
  <2>5. "-j" # "add-on" /\ "-j" # "line"
    OBVIOUS
  <2>6. Calls("-j", Op, f, xs)
    BY <2>3, <2>4, <2>5, BeginOn
  <2> QED
    BY <2>2, <2>6, <2>7, Zenon
<1> QED
  BY <1>3, <1>8, <1>9, <1>10
-------------------------------------------------------------------------------
\* The elements of a table, up to a nil.
UpToNil(t, n) == n \in Nat /\ n + 1 \notin DOMAIN t /\ \A m \in 1..n : m \in DOMAIN t
\* There is a first nil in a finite table.
LEMMA NilIsFound ==
  ASSUME NEW t, IsFiniteSet(DOMAIN t)
  PROVE  \E n \in 0..Cardinality(DOMAIN t) : UpToNil(t, n)
<1> DEFINE D == DOMAIN t
           T == {n \in Nat : n + 1 \notin D}
           c == Cardinality(D)
<1> HIDE DEF D
<1>1. c \in Nat /\ IsFiniteSet(D)
  BY FS_CardinalityType DEF D
<1>2. T # {}
  <2> SUFFICES ASSUME T = {} PROVE FALSE
    OBVIOUS
  <2>1. 1..c + 1 \subseteq D
    <3> SUFFICES ASSUME NEW m \in 1..c + 1 PROVE m \in D
      OBVIOUS
    <3>1. m - 1 \in Nat /\ (m - 1) + 1 = m
      BY <1>1
    <3> QED
      BY <3>1
  <2>2. Cardinality(1..c + 1) <= Cardinality(D)
    BY <1>1, <2>1, FS_Subset
  <2>3. Cardinality(1..c + 1) = c + 1
    <3>1. c + 1 \in Int /\ 1 \in Int /\ 1 <= c + 1
      BY <1>1
    <3>2. Cardinality(1..c + 1) = ((c + 1) - 1) + 1
      BY <3>1, FS_Interval
    <3> QED
      BY <1>1, <3>2
  <2> QED
    BY <1>1, <2>2, <2>3
<1>3. PICK n \in T : \A m \in T : n <= m
  <2>1. T \in SUBSET Nat
    OBVIOUS
  <2> QED
    BY <1>2, <2>1, LeastNumber
<1>4. 1..n \subseteq D
  <2> SUFFICES ASSUME NEW m \in 1..n PROVE m \in D
    OBVIOUS
  <2>1. m - 1 \in Nat /\ (m - 1) + 1 = m /\ ~(n <= m - 1)
    OBVIOUS
  <2> QED
    BY <1>3, <2>1
<1>5. n <= c
  <2>1. Cardinality(1..n) <= Cardinality(D)
    BY <1>1, <1>4, FS_Subset
  <2>2. Cardinality(1..n) = n
    <3>1. CASE n = 0
      <4>1. 1..n = {}
        BY <3>1
      <4> QED
        BY <3>1, <4>1, FS_EmptySet
    <3>2. CASE n # 0
      <4>1. n \in Int /\ 1 \in Int /\ 1 <= n
        BY <3>2
      <4>2. Cardinality(1..n) = (n - 1) + 1
        BY <4>1, FS_Interval
      <4> QED
        BY <4>2
    <3> QED
      BY <3>1, <3>2
  <2> QED
    BY <2>1, <2>2
<1>6. UpToNil(t, n) /\ n \in 0..c
  BY <1>1, <1>4, <1>5 DEF UpToNil, D
<1> QED
  BY <1>6 DEF D
\* And only one.
LEMMA NilIsOne ==
  ASSUME NEW t, NEW n, NEW m, UpToNil(t, n), UpToNil(t, m)
  PROVE  n = m
<1> SUFFICES ASSUME n # m PROVE FALSE
  OBVIOUS
<1>1. n \in Nat /\ m \in Nat /\ n + 1 \notin DOMAIN t /\ m + 1 \notin DOMAIN t
  BY DEF UpToNil
<1>2. n + 1 \in 1..m \/ m + 1 \in 1..n
  BY <1>1
<1> QED
  BY <1>1, <1>2 DEF UpToNil
\* The elements before it.
Elements(t, n) == [k \in 1..n |-> t[k]]
LEMMA ElementsSeq ==
  ASSUME NEW t, NEW n \in Nat
  PROVE  IsSeq(Elements(t, n)) /\ Len(Elements(t, n)) = n /\ \A j \in 1..n : Elements(t, n)[j] = t[j]
<1> DEFINE S == {t[k] : k \in 1..n}
<1>1. Elements(t, n) \in [1..n -> S]
  BY DEF Elements
<1>2. Elements(t, n) \in Seq(S)
  BY <1>1, SeqDef
<1>3. Len(Elements(t, n)) = n
  <2>1. DOMAIN Elements(t, n) = 1..n
    BY DEF Elements
  <2> QED
    BY <1>2, <2>1, LenProperties
<1>4. IsSeq(Elements(t, n))
  BY <1>2, Zenon DEF IsSeq
<1> QED
  BY <1>3, <1>4 DEF Elements

\* The two ways of the arguments of a script.
LEMMA PositionalIs ==
  ASSUME NEW a, NEW n, UpToNil(a.at, n)
  PROVE  Positional(a) = Elements(a.at, n)
<1> DEFINE t == a.at
           D == DOMAIN t
           S == {m \in D \cap Nat : m > 0 /\ 1..m \subseteq D}
<1> HIDE DEF t, D
<1>1. n \in Nat /\ n + 1 \notin D /\ 1..n \subseteq D
  BY DEF UpToNil, t, D
<1>2. S = 1..n
  <2>1. ASSUME NEW m \in S
        PROVE  m \in 1..n
    <3>1. n + 1 \in 1..m \/ m <= n
      BY <1>1
    <3> QED
      BY <1>1, <3>1
  <2>2. ASSUME NEW m \in 1..n
        PROVE  m \in S
    <3>1. 1..m \subseteq 1..n /\ m \in Nat /\ m > 0
      BY <1>1
    <3> QED
      BY <1>1, <3>1
  <2> QED
    BY <2>1, <2>2
<1>3. Positional(a) = [k \in S |-> a.at[k]]
  BY Zenon DEF Positional, S, D, t
<1> QED
  BY <1>2, <1>3, Zenon DEF Elements
\* In the table that main() makes they are the words after the script.
LEMMA RestOfTable ==
  ASSUME Behind(cmd), cmd.script # Nothing, argn \in Nat \ {0}
  PROVE  /\ UpToNil(createargtable(argv, argn).at, Len(cmd.rest))
         /\ Elements(createargtable(argv, argn).at, Len(cmd.rest)) = cmd.rest
<1>1. PICK z, s, n, v : z = cmd.rest /\ s = createargtable(argv, argn).at /\ n = argn /\ v = argv
  OBVIOUS
<1>2. IsSeq(z) /\ Len(v) = n + Len(z) /\ \A j \in 1..Len(z) : v[n + j] = z[j]
  BY <1>1, Zenon DEF Behind, argv, argn
<1>3. PICK u : s = [k \in -n..Len(v) - n |-> IF k = -n THEN u ELSE v[k + n]]
  BY <1>1 DEF createargtable
<1>4. Len(z) \in Nat /\ n \in Nat \ {0}
  BY <1>1, <1>2, SeqIs
<1>5. DOMAIN s = -n..Len(z)
  <2>1. Len(v) - n = Len(z)
    BY <1>2, <1>4
  <2> QED
    BY <1>3, <2>1
<1>6. UpToNil(s, Len(z))
  BY <1>4, <1>5 DEF UpToNil
<1>7. \A j \in 1..Len(z) : s[j] = z[j]
  <2> SUFFICES ASSUME NEW j \in 1..Len(z) PROVE s[j] = z[j]
    OBVIOUS
  <2>1. j \in -n..Len(v) - n /\ j # -n /\ j + n = n + j
    BY <1>2, <1>4
  <2>2. s[j] = v[j + n]
    BY <1>3, <2>1
  <2> QED
    BY <1>2, <2>1, <2>2
<1>8. Elements(s, Len(z)) = z
  <2>1. /\ IsSeq(Elements(s, Len(z))) /\ Len(Elements(s, Len(z))) = Len(z)
        /\ \A j \in 1..Len(z) : Elements(s, Len(z))[j] = s[j]
    BY <1>4, ElementsSeq
  <2>2. \A j \in 1..Len(z) : Elements(s, Len(z))[j] = z[j]
    BY <1>7, <2>1
  <2> QED
    BY <1>2, <2>1, <2>2, SameSeq
<1> QED
  BY <1>1, <1>6, <1>8
-------------------------------------------------------------------------------
\* A value is taken out from under the values above it.
LEMMA TableOut ==
  ASSUME NEW u, NEW x, NEW xs, IsSeq(u), IsSeq(xs)
  PROVE  remove_table((u \o <<x>>) \o xs, Len(xs)) = u \o xs
<1>1. PICK t, r : t = u \o <<x>> /\ r = t \o xs
  OBVIOUS
<1>2. IsSeq(<<x>>) /\ Len(<<x>>) = 1
  BY OneSeq
<1>3. IsSeq(t) /\ Len(t) = Len(u) + 1 /\ Len(u) \in Nat
  <2>1. IsSeq(u \o <<x>>) /\ Len(u \o <<x>>) = Len(u) + Len(<<x>>) /\ Len(u) \in Nat
    BY <1>2, JoinIs
  <2> QED
    BY <1>1, <1>2, <2>1
<1>4. IsSeq(r) /\ Len(r) = Len(t) + Len(xs) /\ Len(xs) \in Nat
  BY <1>1, <1>3, JoinIs
<1>5. Len(r) - Len(xs) = Len(t)
  BY <1>3, <1>4
<1>6. SubSeq(r, Len(t) + 1, Len(r)) = xs
  <2>1. SubSeq(t \o xs, Len(t) + 1, Len(t) + Len(xs)) = xs
    BY <1>3, PartsOfJoin
  <2> QED
    BY <1>1, <1>4, <2>1
<1>7. SubSeq(r, 1, Len(u)) = u
  <2>1. r = u \o (<<x>> \o xs)
    <3>1. (u \o <<x>>) \o xs = u \o (<<x>> \o xs)
      BY <1>2, JoinAssoc
    <3> QED
      BY <1>1, <3>1, Zenon
  <2>2. IsSeq(<<x>> \o xs)
    BY <1>2, JoinIs
  <2>3. PICK v : v = <<x>> \o xs
    OBVIOUS
  <2>4. SubSeq(u \o v, 1, Len(u)) = u
    BY <2>2, <2>3, PartsOfJoin
  <2> QED
    BY <2>1, <2>3, <2>4, Zenon
<1>8. Len(t) - 1 = Len(u)
  BY <1>3
<1>9. RemoveAt(r, Len(t)) = u \o xs
  BY <1>6, <1>7, <1>8, Zenon DEF RemoveAt
<1> QED
  BY <1>1, <1>5, <1>9, Zenon DEF remove_table
-------------------------------------------------------------------------------
\* The global arg, until the script is called.
Rewritten(r, n) == \E m \in 1..n : r[m].what \in Rewriters
Given(e, a, r, l) == a \in e.args /\ (Rewritten(r, Len(r)) \/ (l # Idle /\ l.what \in Rewriters))
ArgOK == exit = "none" /\ pc \in {"init", "options", "script"} =>
            arg = createargtable(argv, argn) \/ Given(env, arg, ran, call)
\* What a script may be given; before says whether code that may change the table has been run.
ScriptArgs(c, e, before) ==
    {c.rest} \cup (IF before THEN {IF a.table THEN Positional(a) ELSE << >> : a \in e.args} ELSE {})
\* handle_script() puts the elements of the table on the stack, and the table away.
LEMMA StackOfScript ==
  ASSUME IsSeq(stack), IsFiniteSet(DOMAIN arg.at), arg.table
  PROVE  \E n : UpToNil(arg.at, n) /\
           ScriptStack = Chunk("script", script_file(argv, argn)) \o Elements(arg.at, n)
<1> DEFINE t == arg.at
           s == Chunk("script", script_file(argv, argn))
           K == 0..Cardinality(DOMAIN t)
<1>1. PICK n : n = CHOOSE k \in K : k + 1 \notin DOMAIN t /\ \A m \in 1..k : m \in DOMAIN t
  OBVIOUS
<1>2. UpToNil(t, n)
  <2>1. \E k \in K : UpToNil(t, k)
    <3> HIDE DEF t
    <3> QED
      BY NilIsFound DEF t
  <2>2. \E k \in K : k + 1 \notin DOMAIN t /\ \A m \in 1..k : m \in DOMAIN t
    BY <2>1, Zenon DEF UpToNil
  <2>3. n \in K /\ n + 1 \notin DOMAIN t /\ \A m \in 1..n : m \in DOMAIN t
    BY <1>1, <2>2, Zenon
  <2>4. n \in Nat
    <3> HIDE DEF t
    <3>1. n \in 0..Cardinality(DOMAIN t)
      BY <2>3
    <3> QED
      BY <3>1
  <2> QED
    BY <2>3, <2>4, Zenon DEF UpToNil
<1>3. IsSeq(Elements(t, n)) /\ Len(Elements(t, n)) = n
  <2>1. n \in Nat
    BY <1>2, Zenon DEF UpToNil
  <2> HIDE DEF t
  <2> QED
    BY <2>1, ElementsSeq
<1>4. IsSeq(s)
  <2>1. \A x : Append(stack, x) = stack \o <<x>> /\ IsSeq(stack \o <<x>>)
    BY AppendIs, OneSeq, JoinIs
  <2> QED
    BY <2>1, Zenon DEF Chunk
<1>5. ScriptStack = remove_table((s \o <<Value("arg")>>) \o Elements(t, n), n)
  BY <1>1, Zenon DEF ScriptStack, Elements
<1> HIDE DEF s, t
<1>6. remove_table((s \o <<Value("arg")>>) \o Elements(t, n), Len(Elements(t, n))) = s \o Elements(t, n)
  BY <1>3, <1>4, TableOut
<1>7. ScriptStack = s \o Elements(t, n)
  BY <1>3, <1>5, <1>6, Zenon
<1> QED
  BY <1>2, <1>7 DEF s, t
-------------------------------------------------------------------------------
\* What the script is given.
LEMMA FirstTable ==
  ASSUME Behind(cmd), cmd.script # Nothing, argn \in Nat \ {0}, arg = createargtable(argv, argn)
  PROVE  /\ IsFiniteSet(DOMAIN arg.at) /\ arg.table
         /\ \A n : UpToNil(arg.at, n) => Elements(arg.at, n) = cmd.rest
<1>1. IsFiniteSet(DOMAIN arg.at)
  <2>1. DOMAIN arg.at = -argn..Len(argv) - argn
    BY DEF createargtable
  <2>2. PICK n, m : n = -argn /\ m = Len(argv) - argn /\ DOMAIN arg.at = n..m
    BY <2>1
  <2>3. n \in Int /\ m \in Int
    <3>1. IsSeq(Argv(cmd))
      BY Zenon DEF Behind
    <3>2. Len(argv) \in Nat
      BY <3>1, SeqIs DEF argv
    <3> QED
      BY <2>2, <3>2
  <2>4. IsFiniteSet(n..m)
    BY <2>3, FS_Interval
  <2> QED
    BY <2>2, <2>4
<1>2. arg.table
  BY DEF createargtable
<1>3. UpToNil(arg.at, Len(cmd.rest)) /\ Elements(arg.at, Len(cmd.rest)) = cmd.rest
  BY RestOfTable
<1>4. ASSUME NEW n, UpToNil(arg.at, n)
      PROVE  Elements(arg.at, n) = cmd.rest
  <2>1. n = Len(cmd.rest)
    BY <1>3, <1>4, NilIsOne
  <2> QED
    BY <1>3, <2>1
<1> QED
  BY <1>1, <1>2, <1>4
\* They are among what it may be given.
LEMMA ScriptIsGiven ==
  ASSUME StackInv, ArgOK, exit = "none", call = Idle, pc = "script"
  PROVE  \E xs : /\ IsSeq(xs) /\ xs \in ScriptArgs(cmd, env, Rewritten(ran, Len(ran)))
                 /\ ScriptStack = (IF arg.table THEN Chunk("script", script_file(argv, argn)) \o xs
                                   ELSE Chunk("script", script_file(argv, argn)))
                 /\ ~arg.table => xs = << >>
<1>1. IsSeq(stack)
  BY StackSeq
<1>2. arg = createargtable(argv, argn) \/ (arg \in env.args /\ Rewritten(ran, Len(ran)))
  BY DEF ArgOK, Given
<1>3. CASE arg = createargtable(argv, argn)
  <2>1. ~Misused(cmd)
    BY RightIs DEF StackInv
  <2>2. Known
    BY <2>1, KnownIs DEF StackInv
  <2>3. ~Has(cmd, "-b") /\ cmd.script # Nothing
    <3>1. At_(cmd, env, pc, i, ran, call)
      BY Zenon DEF StackInv, WhereInv, Where
    <3>2. AtIdle(cmd, env, pc, i, ran)
      BY <3>1, Zenon DEF At_
    <3> QED
      BY <3>2, Zenon DEF AtIdle, AllOptions
  <2>4. Behind(cmd) /\ argn \in Nat
    BY <2>1, <2>2, <2>3, ScriptBehind
  <2>5. argn \in Nat \ {0}
    BY <2>2, <2>4 DEF Known
  <2>6. /\ IsFiniteSet(DOMAIN arg.at) /\ arg.table
        /\ \A n : UpToNil(arg.at, n) => Elements(arg.at, n) = cmd.rest
    BY <1>3, <2>3, <2>4, <2>5, FirstTable
  <2>7. PICK n : UpToNil(arg.at, n) /\
             ScriptStack = Chunk("script", script_file(argv, argn)) \o Elements(arg.at, n)
    BY <1>1, <2>6, StackOfScript
  <2>8. Elements(arg.at, n) = cmd.rest
    BY <2>6, <2>7
  <2>9. cmd.rest \in ScriptArgs(cmd, env, Rewritten(ran, Len(ran)))
    BY Zenon DEF ScriptArgs
  <2>10. IsSeq(cmd.rest)
    BY <2>4, Zenon DEF Behind
  <2> QED
    BY <2>6, <2>7, <2>8, <2>9, <2>10, Zenon
<1>4. CASE arg \in env.args /\ Rewritten(ran, Len(ran)) /\ arg.table
  <2>1. env \in Environments
    BY DEF StackInv, WhereInv, Input
  <2>2. IsFiniteSet(DOMAIN arg.at)
    BY <1>4, <2>1, EnvironmentsAssumption
  <2>3. PICK n : UpToNil(arg.at, n) /\
             ScriptStack = Chunk("script", script_file(argv, argn)) \o Elements(arg.at, n)
    BY <1>1, <1>4, <2>2, StackOfScript
  <2>4. Positional(arg) = Elements(arg.at, n)
    BY <2>3, PositionalIs
  <2>5. Positional(arg) \in ScriptArgs(cmd, env, Rewritten(ran, Len(ran)))
    BY <1>4, Zenon DEF ScriptArgs
  <2>6. IsSeq(Elements(arg.at, n))
    <3>1. n \in Nat
      BY <2>3, Zenon DEF UpToNil
    <3> QED
      BY <3>1, ElementsSeq
  <2> QED
    BY <1>4, <2>3, <2>4, <2>5, <2>6, Zenon
<1>5. CASE arg \in env.args /\ Rewritten(ran, Len(ran)) /\ ~arg.table
  <2>1. << >> \in ScriptArgs(cmd, env, Rewritten(ran, Len(ran)))
    BY <1>5, Zenon DEF ScriptArgs
  <2>2. ScriptStack = Chunk("script", script_file(argv, argn))
    BY <1>5, Zenon DEF ScriptStack
  <2> QED
    BY <1>5, <2>1, <2>2, NoneSeq, Zenon
<1> QED
  BY <1>2, <1>3, <1>4, <1>5, Zenon
\* The chunk of the script is called with them.
LEMMA ScriptCalls == StackInv /\ ArgOK /\ handle_script =>
  \E xs : /\ xs \in ScriptArgs(cmd, env, Rewritten(ran, Len(ran)))
          /\ Calls("script", script_file(argv, argn), ChunkOf("script", script_file(argv, argn)), xs)
<1> SUFFICES ASSUME StackInv, ArgOK, handle_script
             PROVE  \E xs : /\ xs \in ScriptArgs(cmd, env, Rewritten(ran, Len(ran)))
                            /\ Calls("script", script_file(argv, argn),
                                     ChunkOf("script", script_file(argv, argn)), xs)
  OBVIOUS
<1> DEFINE op == script_file(argv, argn)
           f == ChunkOf("script", op)
<1>1. /\ exit = "none" /\ call = Idle /\ pc = "script"
      /\ Begin("script", op, ScriptStack, (Len(ScriptStack) - Len(stack)) - 1, "docall")
  BY Zenon DEF handle_script, Step
<1>2. PICK xs : /\ IsSeq(xs) /\ xs \in ScriptArgs(cmd, env, Rewritten(ran, Len(ran)))
                /\ ScriptStack = (IF arg.table THEN Chunk("script", op) \o xs ELSE Chunk("script", op))
                /\ ~arg.table => xs = << >>
  BY <1>1, ScriptIsGiven
<1>3. IsSeq(stack)
  BY StackSeq
<1>4. Chunk("script", op) = Append(stack, f)
  BY Zenon DEF Chunk, ChunkOf
<1> HIDE DEF f, op
<1>5. On(ScriptStack, stack, f, xs)
  <2>1. CASE arg.table
    <3>1. ScriptStack = Append(stack, f) \o xs
      BY <1>2, <1>4, <2>1
    <3>2. On(Append(stack, f) \o xs, stack, f, xs)
      BY <1>2, <1>3, OnArgs
    <3> QED
      BY <3>1, <3>2
  <2>2. CASE ~arg.table
    <3>1. ScriptStack = Append(stack, f) /\ xs = << >>
      BY <1>2, <1>4, <2>2
    <3>2. On(Append(stack, f), stack, f, << >>)
      BY <1>3, OnTop
    <3> QED
      BY <3>1, <3>2
  <2> QED
    BY <2>1, <2>2
<1>6. (Len(ScriptStack) - Len(stack)) - 1 = Len(xs)
  <2>1. Len(ScriptStack) = (Len(stack) + 1) + Len(xs) /\ Len(stack) \in Nat /\ Len(xs) \in Nat
    BY <1>5, OnIs
  <2> QED
    BY <2>1
<1>7. Calls("script", op, f, xs)
  <2>1. "script" # "add-on" /\ "script" # "line"
    OBVIOUS
  <2> HIDE DEF ScriptStack
  <2> QED
    BY <1>1, <1>5, <1>6, <2>1, BeginOn
<1> QED
  BY <1>2, <1>7 DEF f, op
-------------------------------------------------------------------------------
\* What the stack is after each step.
LEMMA BadStack == StackInv /\ (init_bad \/ dostring_bad \/ script_bad) => Stacked' /\ TextOK'
<1> SUFFICES ASSUME StackInv, init_bad \/ dostring_bad \/ script_bad PROVE Stacked' /\ TextOK'
  OBVIOUS
<1>1. call = Idle /\ call' = call /\ exit' = "failure" /\ stack' = report(TRUE, Append(stack, Message))
  BY Zenon DEF init_bad, dostring_bad, script_bad, NoChunk, Quiet, Step, Exit
<1>2. IsSeq(stack)
  BY StackSeq
<1>3. IsSeq(Append(stack, Message)) /\ Len(Append(stack, Message)) >= 1
  <2>1. IsSeq(stack \o <<Message>>) /\ Len(stack \o <<Message>>) = Len(stack) + 1 /\ Len(stack) \in Nat
    BY <1>2, OneResult, JoinIs
  <2>2. Append(stack, Message) = stack \o <<Message>>
    BY <1>2, AppendIs
  <2> QED
    BY <2>1, <2>2
<1>4. IsSeq(report(TRUE, Append(stack, Message)))
  BY <1>3, ReportSeq
<1>5. IsSeq(stack') /\ call' = Idle /\ exit' # "none"
  BY <1>1, <1>4
<1> QED
  BY <1>5, NowIdle
\* A line is read, or is the end.
LEMMA TypingStack == StackInv /\ (end_of_input \/ pushline \/ addline \/ line_bad) => Stacked' /\ TextOK'
<1> SUFFICES ASSUME StackInv, end_of_input \/ pushline \/ addline \/ line_bad PROVE Stacked' /\ TextOK'
  OBVIOUS
<1>1. call = Idle /\ call' = Idle /\ exit = "none"
  BY Zenon DEF end_of_input, pushline, addline, line_bad, Quiet, Step
<1>2. ASSUME stack' = << <<"text", typed'>> >>
      PROVE  Stacked' /\ TextOK'
  <2>1. IsSeq(stack')
    BY <1>2, OneSeq
  <2>2. Stacked'
    BY <1>1, <2>1, IdleStack
  <2> QED
    BY <1>2, <2>2, Zenon DEF TextOK
<1>3. CASE end_of_input
  <2>1. stack' = << >> /\ exit' = "success"
    BY <1>3, Zenon DEF end_of_input, Exit
  <2>2. IsSeq(stack') /\ exit' # "none"
    BY <2>1, NoneSeq
  <2> QED
    BY <1>1, <2>2, NowIdle
<1>4. CASE pushline
  <2>1. stack' = Append(<< >>, <<"text", typed'>>)
    BY <1>4, Zenon DEF pushline, empty_stack
  <2>2. stack' = << <<"text", typed'>> >>
    BY <2>1
  <2> QED
    BY <1>2, <2>2
<1>5. CASE addline
  <2>1. /\ pc = "addline" /\ typed' = Append(typed, lines')
        /\ stack' = Append(Front(stack), <<"text", Append(Last(stack)[2], lines')>>)
    BY <1>5, Zenon DEF addline, Step
  <2>2. stack = << <<"text", typed>> >>
    BY <1>1, <2>1 DEF StackInv, TextOK
  <2>3. PICK x : x = <<"text", typed>> /\ x[2] = typed
    <3>1. <<"text", typed>>[2] = typed
      OBVIOUS
    <3> QED
      BY <3>1, Zenon
  <2>4. stack = <<x>> /\ IsSeq(stack) /\ Len(stack) = 1 /\ stack[1] = x
    BY <2>2, <2>3, ShortSeqs
  <2>5. Last(stack) = x
    BY <2>4 DEF Last
  <2>6. Front(stack) = << >>
    <3>1. Front(stack) = SubSeq(stack, 1, 0)
      BY <2>4 DEF Front
    <3>2. IsSeq(SubSeq(stack, 1, 0)) /\ Len(SubSeq(stack, 1, 0)) = (0 - 1) + 1
      BY <2>4, PartIs
    <3>3. Len(SubSeq(stack, 1, 0)) = 0
      BY <3>2
    <3> QED
      BY <3>1, <3>2, <3>3, EmptyIs
  <2>7. stack' = Append(<< >>, <<"text", typed'>>)
    BY <2>1, <2>3, <2>5, <2>6, Zenon
  <2>8. stack' = << <<"text", typed'>> >>
    BY <2>7
  <2> QED
    BY <1>2, <2>8
<1>6. CASE line_bad
  <2>1. pc = "loadbuffer" /\ pc' = "loadline" /\ stack' = report(TRUE, RemoveAt(Append(stack, Message), 1))
    BY <1>6, Zenon DEF line_bad, Step, Goto
  <2>2. stack = << <<"text", typed>> >>
    BY <1>1, <2>1 DEF StackInv, TextOK
  <2>3. PICK x : stack = <<x>>
    BY <2>2
  <2>4. Append(stack, Message) = <<x>> \o <<Message>>
    <3>1. Append(stack, Message) = stack \o <<Message>>
      BY <2>3, OneSeq, AppendIs
    <3> QED
      BY <2>3, <3>1, Zenon
  <2>5. RemoveAt(<<x>> \o <<Message>>, 1) = <<Message>>
    BY OneResult, FirstOut
  <2>6. IsSeq(report(TRUE, <<Message>>))
    <3>1. PICK m : m = <<Message>>
      OBVIOUS
    <3>2. IsSeq(m) /\ Len(m) >= 1
      BY <3>1, OneResult
    <3>3. IsSeq(report(TRUE, m))
      BY <3>2, ReportSeq
    <3> QED
      BY <3>1, <3>3
  <2>7. IsSeq(stack') /\ pc' \notin {"loadbuffer", "addline"}
    BY <2>1, <2>4, <2>5, <2>6
  <2> QED
    BY <1>1, <2>7, NowIdle
<1> QED
  BY <1>3, <1>4, <1>5, <1>6
-------------------------------------------------------------------------------
\* A call has begun.
CalledNow == \E w, op, f, xs : Calls(w, op, f, xs)
LEMMA CalledStack == CalledNow => Stacked' /\ TextOK'
<1> SUFFICES ASSUME CalledNow PROVE Stacked' /\ TextOK'
  OBVIOUS
<1>1. call' # Idle /\ StackOf(stack', call')
  BY Zenon DEF CalledNow, Calls
<1> QED
  BY <1>1, NowCalled
\* The steps that always begin one, and those that may.
LEMMA CallStack ==
  StackInv /\ (bundle_main \/ dostring \/ dolibrary \/ runcmdopt \/ loadjitmodule \/ print_jit_status
               \/ line_loaded) => Stacked' /\ TextOK'
<1> SUFFICES ASSUME StackInv, bundle_main \/ dostring \/ dolibrary \/ runcmdopt \/ loadjitmodule
                              \/ print_jit_status \/ line_loaded
             PROVE  Stacked' /\ TextOK'
  OBVIOUS
<1>1. CalledNow
  BY BundleCalls, StringCalls, LibraryCalls, OptCalls, ModuleCalls, StatusCalls, LineCalls, Zenon DEF CalledNow
<1> QED
  BY <1>1, CalledStack
LEMMA MayCallStack ==
  StackInv /\ (handle_luainit \/ bundle_loaded \/ add_on_loaded \/ dofile \/ line_done) => Stacked' /\ TextOK'
<1> SUFFICES ASSUME StackInv, handle_luainit \/ bundle_loaded \/ add_on_loaded \/ dofile \/ line_done
             PROVE  Stacked' /\ TextOK'
  OBVIOUS
<1>1. IsSeq(stack)
  BY StackSeq
<1>2. \/ CalledNow
      \/ call' = Idle /\ IsSeq(stack') /\ (exit' # "none" \/ pc' \in {"options", "arg", "loadline"})
  <2>1. CASE handle_luainit
    <3>1. call = Idle
      BY <2>1, Zenon DEF handle_luainit, Step
    <3>2. Quiet /\ UNCHANGED stack /\ pc' = "options" => call' = Idle /\ IsSeq(stack') /\ pc' \in {"options", "arg", "loadline"}
      BY <1>1, <3>1 DEF Quiet
    <3> QED
      BY <2>1, <3>2, InitCalls, Zenon DEF CalledNow
  <2>2. CASE bundle_loaded
    <3>1. pc' = "arg" => pc' \in {"options", "arg", "loadline"}
      OBVIOUS
    <3> QED
      BY <2>2, <3>1, LoadedCalls, Zenon DEF CalledNow
  <2>3. CASE add_on_loaded
    BY <2>3, AddOnCalls, Zenon DEF CalledNow
  <2>4. CASE dofile
    <3>1. call = Idle
      BY <2>4, Zenon DEF dofile, Step
    <3>2. Quiet /\ UNCHANGED stack /\ exit' = "success" => call' = Idle /\ IsSeq(stack') /\ exit' # "none"
      BY <1>1, <3>1 DEF Quiet
    <3> QED
      BY <2>4, <3>2, StdinCalls, Zenon DEF CalledNow
  <2>5. CASE line_done
    <3>1. pc' \in {"options", "arg", "loadline"}
      BY <2>5 DEF line_done, Goto
    <3> QED
      BY <2>5, <3>1, LineDoneCalls, Zenon DEF CalledNow
  <2> QED
    BY <2>1, <2>2, <2>3, <2>4, <2>5
<1>3. CASE CalledNow
  BY <1>3, CalledStack
<1>4. CASE call' = Idle /\ IsSeq(stack') /\ (exit' # "none" \/ pc' \in {"options", "arg", "loadline"})
  <2>1. exit' # "none" \/ pc' \notin {"loadbuffer", "addline"}
    BY <1>4
  <2> QED
    BY <1>4, <2>1, NowIdle
<1> QED
  BY <1>2, <1>3, <1>4
\* The steps that follow a call.
LEMMA DoneStack ==
  StackInv /\ (Escapes \/ main_returned \/ option_done \/ script_done \/ status_done \/ stdin_done
               \/ print_done) => Stacked' /\ TextOK'
<1> SUFFICES ASSUME StackInv, Escapes \/ main_returned \/ option_done \/ script_done \/ status_done
                              \/ stdin_done \/ print_done
             PROVE  Stacked' /\ TextOK'
  OBVIOUS
<1>1. call # Idle /\ call.outcome # "running" /\ call' = Idle /\ exit = "none"
  BY Zenon DEF Escapes, main_returned, option_done, script_done, status_done, stdin_done, print_done,
               Returned, Over, GoOn
<1>2. IsSeq(stack) /\ IsSeq(<< >>) /\ IsSeq(stack \o <<Message>>)
  <2>1. IsSeq(stack)
    BY StackSeq
  <2> QED
    BY <2>1, NoneSeq, OneResult, JoinIs
<1>3. IsSeq(report(Failed, AfterCall))
  BY <1>1, ReportIs DEF StackInv, Stacked
<1>4. stack' \in {stack, << >>, stack \o <<Message>>, report(Failed, AfterCall)}
  <2>1. \/ stack' = stack \/ stack' = << >> \/ stack' = stack \o <<Message>> \/ stack' = report(Failed, AfterCall)
    BY Zenon DEF Escapes, main_returned, option_done, script_done, status_done, stdin_done, print_done
  <2> QED
    BY <2>1
<1>5. IsSeq(stack')
  BY <1>2, <1>3, <1>4
<1>6. exit' # "none" \/ pc' \in {"arg", "options", "last", "loadline"}
  <2>1. CASE Escapes
    BY <2>1 DEF Escapes, Exit
  <2>2. CASE main_returned
    BY <2>2 DEF main_returned, Exit, Goto
  <2>3. CASE option_done
    <3>1. \/ exit' \in {"success", "failure"} \/ pc' = "options"
      BY <2>3, Zenon DEF option_done, Exit, Goto
    <3> QED
      BY <3>1
  <2>4. CASE script_done
    BY <2>4 DEF script_done, Exit, Goto
  <2>5. CASE status_done
    BY <2>5 DEF status_done, Goto
  <2>6. CASE stdin_done
    BY <2>6 DEF stdin_done, Exit
  <2>7. CASE print_done
    BY <2>7 DEF print_done, Goto
  <2> QED
    BY <2>1, <2>2, <2>3, <2>4, <2>5, <2>6, <2>7
<1>7. exit' # "none" \/ pc' \notin {"loadbuffer", "addline"}
  BY <1>6
<1> QED
  BY <1>1, <1>5, <1>7, NowIdle
-------------------------------------------------------------------------------
\* The global arg until the script is called: what no step loses.
Scripting == {"init", "options", "script"}
Rewriting(l) == l # Idle /\ l.what \in Rewriters
LEMMA ArgKept ==
  ASSUME ArgOK, UNCHANGED <<cmd, env, arg>>,
         exit' = "none" /\ pc' \in Scripting => exit = "none" /\ pc \in Scripting,
         Rewritten(ran, Len(ran)) => Rewritten(ran', Len(ran')),
         Rewriting(call) => Rewriting(call') \/ Rewritten(ran', Len(ran'))
  PROVE  ArgOK'
<1> SUFFICES ASSUME exit' = "none", pc' \in Scripting
             PROVE  arg' = createargtable(argv', argn') \/ Given(env', arg', ran', call')
  BY DEF ArgOK, Scripting
<1>1. arg = createargtable(argv, argn) \/ Given(env, arg, ran, call)
  BY DEF ArgOK, Scripting
<1>2. argv' = argv /\ argn' = argn
  BY DEF argv, argn
<1>3. CASE arg = createargtable(argv, argn)
  <2>1. createargtable(argv', argn') = createargtable(argv, argn)
    BY <1>2, Zenon
  <2> QED
    BY <1>3, <2>1
<1>4. CASE Given(env, arg, ran, call)
  <2>1. arg \in env.args /\ (Rewritten(ran, Len(ran)) \/ Rewriting(call))
    BY <1>4, Zenon DEF Given, Rewriting
  <2>2. arg' \in env'.args /\ (Rewritten(ran', Len(ran')) \/ Rewriting(call'))
    BY <2>1
  <2>3. Given(env', arg', ran', call')
    BY <2>2, Zenon DEF Given, Rewriting
  <2> QED
    BY <2>3
<1> QED
  BY <1>1, <1>3, <1>4
LEMMA ArgAway ==
  ASSUME exit' # "none" \/ pc' \notin Scripting
  PROVE  ArgOK'
  BY DEF ArgOK, Scripting
-------------------------------------------------------------------------------
\* Steps while no Lua code runs.
LEMMA IdleArg ==
  WhereInv /\ ArgOK /\
  (handle_luainit \/ flag_option \/ dostring \/ dolibrary \/ runcmdopt \/ loadjitmodule \/ options_done
   \/ handle_script) => ArgOK'
<1> SUFFICES ASSUME WhereInv, ArgOK,
                    handle_luainit \/ flag_option \/ dostring \/ dolibrary \/ runcmdopt \/ loadjitmodule
                    \/ options_done \/ handle_script
             PROVE  ArgOK'
  OBVIOUS
<1>1. /\ exit = "none" /\ call = Idle /\ ran' = ran /\ arg' = arg /\ cmd' = cmd /\ env' = env
      /\ pc \in Scripting
  <2>1. pc = "init" \/ pc = "options" \/ pc = "script"
    BY Zenon DEF handle_luainit, flag_option, dostring, dolibrary, runcmdopt, loadjitmodule, options_done,
                 handle_script, Option_at, Step
  <2>2. exit = "none" /\ call = Idle /\ UNCHANGED <<input, ran>>
    BY Zenon DEF handle_luainit, flag_option, dostring, dolibrary, runcmdopt, loadjitmodule, options_done,
                 handle_script, Option_at, Step
  <2>3. arg' = arg
    <3>1. CASE flag_option \/ options_done
      BY <3>1 DEF flag_option, options_done, lua
    <3>2. CASE ~(flag_option \/ options_done)
      <4>1. UNCHANGED <<arg, console>>
        <5>1. UNCHANGED <<i, arg, registry, console>> \/ UNCHANGED <<i, arg, console>>
              \/ UNCHANGED <<arg, registry, console>>
          <6>1. handle_luainit => UNCHANGED <<i, arg, registry, console>>
            BY Zenon DEF handle_luainit
          <6>2. dostring => UNCHANGED <<i, arg, registry, console>>
            BY Zenon DEF dostring
          <6>3. dolibrary => UNCHANGED <<i, arg, console>>
            BY Zenon DEF dolibrary
          <6>4. runcmdopt => UNCHANGED <<i, arg, registry, console>>
            BY Zenon DEF runcmdopt
          <6>5. loadjitmodule => UNCHANGED <<i, arg, console>>
            BY Zenon DEF loadjitmodule
          <6>6. handle_script => UNCHANGED <<i, arg, registry, console>>
            BY Zenon DEF handle_script
          <6> QED
            BY <3>2, <6>1, <6>2, <6>3, <6>4, <6>5, <6>6, Zenon
        <5> QED
          BY <5>1
      <4> QED
        BY <4>1
    <3> QED
      BY <3>1, <3>2
  <2> QED
    BY <2>1, <2>2, <2>3 DEF Scripting, input
<1>2. ~Rewriting(call)
  BY <1>1 DEF Rewriting
<1>3. Rewritten(ran, Len(ran)) => Rewritten(ran', Len(ran'))
  BY <1>1
<1> QED
  BY <1>1, <1>2, <1>3, ArgKept
\* Steps after which no script is to come, or none yet.
LEMMA AwayArg ==
  (main \/ bundle_main \/ main_returned \/ init_bad \/ dostring_bad \/ script_bad \/ Escapes
   \/ script_done \/ print_jit_status \/ status_done \/ dofile \/ stdin_done \/ end_of_input \/ pushline
   \/ incomplete \/ addline \/ line_bad \/ line_loaded \/ line_done \/ print_done) => ArgOK'
<1> SUFFICES ASSUME main \/ bundle_main \/ main_returned \/ init_bad \/ dostring_bad \/ script_bad \/ Escapes
                    \/ script_done \/ print_jit_status \/ status_done \/ dofile \/ stdin_done
                    \/ end_of_input \/ pushline \/ incomplete \/ addline \/ line_bad \/ line_loaded
                    \/ line_done \/ print_done
             PROVE  ArgOK'
  OBVIOUS
<1>1. exit' \in {"success", "failure"}
      \/ pc' \in {"bundle", "arg", "last", "loadline", "loadbuffer", "addline"}
  <2>1. CASE main \/ bundle_main \/ main_returned
    <3>1. main => exit' = "failure" \/ pc' = "bundle"
      BY Zenon DEF main, Exit, Goto
    <3>2. bundle_main => pc' = "bundle"
      BY Zenon DEF bundle_main, Goto
    <3>3. main_returned => exit' = "success" \/ pc' = "arg"
      BY Zenon DEF main_returned, Exit, Goto
    <3> QED
      BY <2>1, <3>1, <3>2, <3>3
  <2>2. CASE init_bad \/ dostring_bad \/ script_bad \/ Escapes
    <3>1. exit' = "failure"
      BY <2>2, Zenon DEF init_bad, dostring_bad, script_bad, NoChunk, Escapes, Exit
    <3> QED
      BY <3>1
  <2>3. CASE script_done \/ stdin_done \/ end_of_input
    <3>1. script_done => exit' = "failure" \/ pc' = "last"
      BY Zenon DEF script_done, Exit, Goto
    <3>2. stdin_done \/ end_of_input => exit' = "success"
      BY Zenon DEF stdin_done, end_of_input, Exit
    <3> QED
      BY <2>3, <3>1, <3>2
  <2>4. CASE print_jit_status \/ dofile
    <3>1. print_jit_status => pc' = "last"
      BY Zenon DEF print_jit_status, Goto
    <3>2. dofile => exit' = "success" \/ pc' = "last"
      BY Zenon DEF dofile, Exit, Goto
    <3> QED
      BY <2>4, <3>1, <3>2
  <2>5. CASE status_done \/ line_bad \/ line_done \/ print_done
    <3>1. pc' = "loadline"
      BY <2>5, Zenon DEF status_done, line_bad, line_done, print_done, Goto
    <3> QED
      BY <3>1
  <2>6. CASE pushline \/ incomplete \/ addline \/ line_loaded
    <3>1. pc' = "loadbuffer" \/ pc' = "addline"
      BY <2>6, Zenon DEF pushline, incomplete, addline, line_loaded, Goto
    <3> QED
      BY <3>1
  <2> QED
    BY <2>1, <2>2, <2>3, <2>4, <2>5, <2>6
<1>2. exit' # "none" \/ pc' \notin Scripting
  BY <1>1 DEF Scripting
<1> QED
  BY <1>2, ArgAway
-------------------------------------------------------------------------------
\* The table is made.
LEMMA TableArg == arg_table => ArgOK'
<1> SUFFICES ASSUME arg_table PROVE ArgOK'
  OBVIOUS
<1>1. arg' = createargtable(argv, argn) /\ cmd' = cmd
  BY DEF arg_table, Step, input
<1>2. argv' = argv /\ argn' = argn
  BY <1>1 DEF argv, argn
<1>3. createargtable(argv', argn') = createargtable(argv, argn)
  BY <1>2, Zenon
<1>4. arg' = createargtable(argv', argn')
  BY <1>1, <1>3
<1> QED
  BY <1>4, Zenon DEF ArgOK
\* It is not made yet while a bundle is loaded.
LEMMA LoadedArg == WhereInv /\ bundle_loaded => ArgOK'
<1> SUFFICES ASSUME WhereInv, bundle_loaded PROVE ArgOK'
  OBVIOUS
<1>1. call # Idle /\ call.what = "bundle_loader" /\ exit = "none"
  BY DEF bundle_loaded, Returned
<1>2. At_(cmd, env, pc, i, ran, call)
  BY <1>1, Zenon DEF WhereInv, Where
<1>3. AtCall(cmd, env, pc, i, ran, call.what, call.operand)
  BY <1>1, <1>2, Zenon DEF At_
<1>4. call.what \notin {"init", "-e", "-l", "-j", "-O", "-b", "add-on", "script", "status", "stdin", "line", "print"}
  BY <1>1
<1>5. pc = "bundle"
  BY <1>3, <1>4, Zenon DEF AtCall
<1>6. pc' = "arg" \/ pc' = pc
  BY Zenon DEF bundle_loaded, Fallback, Goto
<1>7. pc' \notin Scripting
  BY <1>5, <1>6 DEF Scripting
<1> QED
  BY <1>7, ArgAway
\* An add-on module may have changed it, and its function may again.
LEMMA AddOnArg == StackInv /\ ArgOK /\ add_on_loaded => ArgOK'
<1> SUFFICES ASSUME StackInv, ArgOK, add_on_loaded PROVE ArgOK'
  OBVIOUS
<1>1. /\ call # Idle /\ call.what = "add-on" /\ exit = "none" /\ ran' = ran /\ arg' = arg
      /\ cmd' = cmd /\ env' = env /\ pc' = pc
  BY DEF add_on_loaded, Returned, input
<1>2. \/ exit' # "none"
      \/ \E w \in {"-b", "-j"} : call' # Idle /\ call'.what = w
  <2>1. \/ exit' # "none"
        \/ \E w \in {"-b", "-j"} : \E op, f, xs : Calls(w, op, f, xs)
    BY AddOnCalls, Zenon
  <2> QED
    BY <2>1, Zenon DEF Calls
<1>3. CASE exit' # "none"
  BY <1>3, Zenon DEF ArgOK
<1>4. CASE \E w \in {"-b", "-j"} : call' # Idle /\ call'.what = w
  <2>1. Rewriting(call')
    BY <1>4 DEF Rewriting, Rewriters
  <2>2. Rewritten(ran, Len(ran)) => Rewritten(ran', Len(ran'))
    BY <1>1
  <2> QED
    BY <1>1, <2>1, <2>2, ArgKept
<1> QED
  BY <1>2, <1>3, <1>4
\* What has been recorded stays recorded.
LEMMA AlsoRewritten ==
  ASSUME WhereInv, GoOn
  PROVE  /\ Rewritten(ran, Len(ran)) => Rewritten(ran', Len(ran'))
         /\ Rewriting(call) => Rewritten(ran', Len(ran'))
<1>1. Added(CallRecord)
  BY GoesOn
<1>2. /\ Len(ran) \in Nat /\ Len(ran') = Len(ran) + 1
      /\ ran'[Len(ran) + 1] = CallRecord
      /\ \A k \in 1..Len(ran) : ran'[k] = ran[k]
  BY <1>1, AddedIs DEF WhereInv, SignalInv
<1>3. PICK n : n = Len(ran) /\ n \in Nat /\ Len(ran') = n + 1
  BY <1>2
<1>4. ASSUME NEW m \in 1..n, ran[m].what \in Rewriters
      PROVE  Rewritten(ran', Len(ran'))
  <2>1. m \in 1..n + 1 /\ ran'[m] = ran[m]
    BY <1>2, <1>3
  <2> QED
    BY <1>3, <1>4, <2>1 DEF Rewritten
<1>5. ASSUME call.what \in Rewriters
      PROVE  Rewritten(ran', Len(ran'))
  <2>1. n + 1 \in 1..n + 1
    BY <1>3
  <2>2. ran'[n + 1].what = call.what
    BY <1>2, <1>3 DEF CallRecord
  <2> QED
    BY <1>3, <1>5, <2>1, <2>2 DEF Rewritten
<1>6. Rewritten(ran, Len(ran)) => Rewritten(ran', Len(ran'))
  <2>1. SUFFICES ASSUME Rewritten(ran, n) PROVE Rewritten(ran', Len(ran'))
    BY <1>3
  <2>2. PICK m \in 1..n : ran[m].what \in Rewriters
    BY <2>1, Zenon DEF Rewritten
  <2> QED
    BY <1>4, <2>2
<1>7. Rewriting(call) => Rewritten(ran', Len(ran'))
  BY <1>5, Zenon DEF Rewriting
<1> QED
  BY <1>6, <1>7
\* LUA_INIT or an option is over: it may have changed the table.
LEMMA DoneArg == WhereInv /\ ArgOK /\ option_done => ArgOK'
<1> SUFFICES ASSUME WhereInv, ArgOK, option_done PROVE ArgOK'
  OBVIOUS
<1>1. /\ call # Idle /\ call.what \in {"init", "-e", "-l", "-j", "-O", "-b"} /\ GoOn
      /\ exit = "none" /\ arg' = arg /\ cmd' = cmd /\ env' = env
  <2>1. GoOn /\ \E w \in {"init", "-e", "-l", "-j", "-O", "-b"} : Returned(w)
    BY Zenon DEF option_done
  <2> QED
    BY <2>1 DEF Returned, GoOn, input
<1>2. At_(cmd, env, pc, i, ran, call)
  BY <1>1, Zenon DEF WhereInv, Where
<1>3. AtCall(cmd, env, pc, i, ran, call.what, call.operand)
  BY <1>1, <1>2, Zenon DEF At_
<1>4. call.what \notin {"bundle_loader", "main", "script", "status", "stdin", "line", "print"}
  BY <1>1
<1>5. pc = "init" \/ pc = "options"
  BY <1>3, <1>4, Zenon DEF AtCall, AtOptionCall
<1>6. pc \in Scripting
  BY <1>5 DEF Scripting
<1>7. /\ Rewritten(ran, Len(ran)) => Rewritten(ran', Len(ran'))
      /\ Rewriting(call) => Rewritten(ran', Len(ran'))
  BY <1>1, AlsoRewritten
<1> QED
  BY <1>1, <1>6, <1>7, ArgKept
\* Lua code that runs.
LEMMA OthersArg ==
  WhereInv /\ ArgOK /\ (Return \/ Throw \/ Sigint \/ lstop \/ UNCHANGED vars) => ArgOK'
<1> SUFFICES ASSUME WhereInv, ArgOK, Return \/ Throw \/ Sigint \/ lstop \/ UNCHANGED vars
             PROVE  ArgOK'
  OBVIOUS
<1>1. Shape
  BY DEF WhereInv, SignalInv
<1> DEFINE Ended == call # Idle /\ \E o, r : Leaves(o, r)
<1>2. /\ UNCHANGED <<cmd, env, pc, ran>> /\ (exit' = exit \/ exit' = "killed")
      /\ call' = call \/ Ended
      /\ \/ arg' = arg
         \/ Ended /\ call.what \in Rewriters /\ arg' \in env.args
  <2>1. CASE Return
    <3>1. Ended
      BY <2>1, Zenon DEF Return, CanEnd
    <3>2. arg' = arg \/ (call.what \in Rewriters /\ arg' \in env.args)
      <4>1. arg' \in {arg} \cup (IF call.what \in Rewriters THEN env.args ELSE {})
        BY <2>1, Zenon DEF Return
      <4> QED
        BY <4>1
    <3>3. UNCHANGED <<cmd, env, pc, ran, exit>>
      BY <2>1 DEF Return, input
    <3> QED
      BY <3>1, <3>2, <3>3
  <2>2. CASE Throw
    <3>1. Ended
      BY <2>2, Zenon DEF Throw, CanEnd
    <3> QED
      BY <2>2, <3>1 DEF Throw, input
  <2>3. CASE Sigint
    BY <2>3 DEF Sigint, input, lua
  <2>4. CASE lstop
    <3>1. call' = call \/ Ended
      BY <2>4, Zenon DEF lstop
    <3> QED
      BY <2>4, <3>1 DEF lstop, input
  <2>5. CASE UNCHANGED vars
    BY <2>5 DEF vars, input, lua
  <2> QED
    BY <2>1, <2>2, <2>3, <2>4, <2>5
<1>3. Rewriting(call) => Rewriting(call')
  <2>1. CASE call' = call
    BY <2>1
  <2>2. CASE Ended
    <3>1. call # Idle /\ call' # Idle /\ call'.what = call.what
      BY <1>1, <2>2, EndsAs
    <3> QED
      BY <3>1 DEF Rewriting
  <2> QED
    BY <1>2, <2>1, <2>2
<1>4. exit' = "none" /\ pc' \in Scripting => exit = "none" /\ pc \in Scripting
  BY <1>2
<1>5. Rewritten(ran, Len(ran)) => Rewritten(ran', Len(ran'))
  BY <1>2
<1>6. CASE arg' = arg
  BY <1>2, <1>3, <1>4, <1>5, <1>6, ArgKept
<1>7. CASE Ended /\ call.what \in Rewriters /\ arg' \in env.args
  <2>1. Rewriting(call')
    <3>1. Rewriting(call)
      BY <1>7 DEF Rewriting
    <3> QED
      BY <1>3, <3>1
  <2>2. arg' \in env'.args
    BY <1>2, <1>7
  <2>3. Given(env', arg', ran', call')
    BY <2>1, <2>2, Zenon DEF Given, Rewriting
  <2> QED
    BY <2>3, Zenon DEF ArgOK
<1> QED
  BY <1>2, <1>6, <1>7
-------------------------------------------------------------------------------
\* The stack and the table, with all that is known of where main() is.
HeapInv == StackInv /\ ArgOK
\* Every step keeps it.
LEMMA HeapStep == HeapInv /\ [Next]_vars => HeapInv'
<1> SUFFICES ASSUME HeapInv, [Next]_vars PROVE HeapInv'
  OBVIOUS
<1>1. StackInv /\ WhereInv /\ ArgOK
  BY DEF HeapInv, StackInv
<1>2. WhereInv'
  BY <1>1, WhereStep
<1>3. handle_script => Stacked' /\ TextOK'
  <2>1. handle_script => CalledNow
    BY <1>1, ScriptCalls, Zenon DEF CalledNow
  <2> QED
    BY <2>1, CalledStack
<1>4. Stacked' /\ TextOK'
  BY <1>1, <1>3, SameStack, LeaveStack, BadStack, TypingStack, CallStack, MayCallStack, DoneStack, Zenon DEF Next
<1>5. ArgOK'
  BY <1>1, IdleArg, AwayArg, TableArg, LoadedArg, AddOnArg, DoneArg, OthersArg, Zenon DEF Next
<1> QED
  BY <1>2, <1>4, <1>5 DEF HeapInv, StackInv
\* It holds at first.
LEMMA HeapStart == Init => HeapInv
<1> SUFFICES ASSUME Init PROVE HeapInv
  OBVIOUS
<1>1. WhereInv
  BY WhereStart
<1>2. pc = "start" /\ call = Idle /\ stack = << >> /\ IsSeq(stack)
  BY NoneSeq DEF Init
<1>3. Stacked
  BY <1>2, Zenon DEF Stacked, StackOf
<1>4. pc \notin {"loadbuffer", "addline"} /\ pc \notin {"init", "options", "script"}
  BY <1>2
<1>5. TextOK /\ ArgOK
  BY <1>4, Zenon DEF TextOK, ArgOK
<1> QED
  BY <1>1, <1>3, <1>5 DEF HeapInv, StackInv
-------------------------------------------------------------------------------
\* What a call w with the operand op calls, f, and with what, xs; prev is what the call
\* before it left, before says that code that may change the table has been run.
Plain(w) == w \notin {"main", "-l", "line", "print", "status", "-b", "script", "-O", "-j"}
Exact(c, e, w, op, f, xs, prev, before) ==
    /\ w = "main" => xs = Argv(c)
    /\ w = "-l" => f = Value("require") /\ xs = <<op>>
    /\ w = "line" => f = <<"line", <<"text", op>>>> /\ xs = << >>
    /\ w = "print" => f = Value("print") /\ xs = prev
    /\ w = "status" => f = Value("status") /\ xs = << >>
    /\ w = "-b" => f = Function("-b", op) /\ xs = hyphenated(op) \o Trailing(c)
    /\ w \in {"-O", "-j"} => f = Function(w, op) /\ xs = OptionsOf(w, op)
    /\ w = "script" => f = ChunkOf("script", op) /\ xs \in ScriptArgs(c, e, before)
    /\ Plain(w) => f = ChunkOf(w, op) /\ xs = << >>
Modules == {"bundle_loader", "add-on"}
\* The call l after what has run, r, is exact; so is the record k of r.
ExactCall(c, e, l, r) ==
    /\ Exact(c, e, l.what, l.operand, l.fn, l.args, r[Len(r)].results, Rewritten(r, Len(r)))
    /\ l.what = "print" => Len(r) >= 1
CallMeant == call # Idle /\ call.what \notin Modules => ExactCall(cmd, env, call, ran)
ExactAt(c, e, r, k) ==
    /\ Exact(c, e, r[k].what, r[k].operand, r[k].fn, r[k].args, r[k - 1].results, Rewritten(r, k - 1))
    /\ r[k].what = "print" => k > 1
AllExact(c, e, r) == \A k \in 1..Len(r) : ExactAt(c, e, r, k)
\* The inductive invariant of what is called.
MeantInv == HeapInv /\ CallMeant /\ AllExact(cmd, env, ran)
-------------------------------------------------------------------------------
\* What has been called is recorded.
LEMMA ExactAdded ==
  ASSUME MeantInv, GoOn, call # Idle, call.what \notin Modules
  PROVE  AllExact(cmd', env', ran')
<1>1. Added(CallRecord) /\ cmd' = cmd /\ env' = env
  <2>1. Added(CallRecord)
    BY GoesOn
  <2> QED
    BY <2>1 DEF GoOn, input
<1>2. Recorded
  BY DEF MeantInv, HeapInv, StackInv, WhereInv, SignalInv
<1>3. /\ Len(ran) \in Nat /\ Len(ran') = Len(ran) + 1
      /\ ran'[Len(ran) + 1] = CallRecord
      /\ \A k \in 1..Len(ran) : ran'[k] = ran[k]
  BY <1>1, <1>2, AddedIs
<1>4. PICK n, r, s, l : n = Len(ran) /\ r = ran /\ s = ran' /\ l = CallRecord
  OBVIOUS
<1>5. /\ n \in Nat /\ Len(s) = n + 1 /\ s[n + 1] = l /\ \A k \in 1..n : s[k] = r[k]
  BY <1>3, <1>4
<1>6. ASSUME NEW k \in 1..n + 1
      PROVE  (Rewritten(s, k - 1) <=> Rewritten(r, k - 1)) /\ (k > 1 => s[k - 1] = r[k - 1])
  <2>1. k - 1 \in 0..n /\ (k > 1 => k - 1 \in 1..n)
    BY <1>5
  <2>2. \A m \in 1..k - 1 : m \in 1..n
    BY <1>5, <2>1
  <2>3. \A m \in 1..k - 1 : s[m] = r[m]
    BY <1>5, <2>2
  <2>4. Rewritten(s, k - 1) <=> Rewritten(r, k - 1)
    BY <2>3 DEF Rewritten
  <2> QED
    BY <1>5, <2>1, <2>4
<1>7. ASSUME NEW k \in 1..n
      PROVE  ExactAt(cmd, env, s, k)
  <2>1. k \in 1..n + 1 /\ s[k] = r[k] /\ k \in Nat
    BY <1>5
  <2>2. ExactAt(cmd, env, r, k)
    BY <1>4, Zenon DEF MeantInv, AllExact
  <2>3. /\ Exact(cmd, env, r[k].what, r[k].operand, r[k].fn, r[k].args, r[k - 1].results, Rewritten(r, k - 1))
        /\ r[k].what = "print" => k > 1
    BY <2>2, Zenon DEF ExactAt
  <2>4. (Rewritten(s, k - 1) <=> Rewritten(r, k - 1)) /\ (k > 1 => s[k - 1] = r[k - 1])
    BY <1>6, <2>1
  <2>5. ScriptArgs(cmd, env, Rewritten(s, k - 1)) = ScriptArgs(cmd, env, Rewritten(r, k - 1))
    BY <2>4, Zenon DEF ScriptArgs
  <2>6. Exact(cmd, env, s[k].what, s[k].operand, s[k].fn, s[k].args, s[k - 1].results, Rewritten(s, k - 1))
    BY <2>1, <2>3, <2>4, <2>5, Zenon DEF Exact
  <2> QED
    BY <2>1, <2>3, <2>6, Zenon DEF ExactAt
<1>8. ExactAt(cmd, env, s, n + 1)
  <2>1. ExactCall(cmd, env, call, r)
    BY <1>4, Zenon DEF MeantInv, CallMeant
  <2>2. /\ Exact(cmd, env, call.what, call.operand, call.fn, call.args, r[n].results, Rewritten(r, n))
        /\ call.what = "print" => n >= 1
    BY <1>4, <2>1, Zenon DEF ExactCall
  <2>3. l.what = call.what /\ l.operand = call.operand /\ l.fn = call.fn /\ l.args = call.args
    BY <1>4 DEF CallRecord
  <2>4. (n + 1) - 1 = n /\ n + 1 \in 1..n + 1 /\ (n >= 1 <=> n + 1 > 1)
    BY <1>5
  <2>5. (Rewritten(s, n) <=> Rewritten(r, n)) /\ (n + 1 > 1 => s[n] = r[n])
    BY <1>6, <2>4
  <2>6. ScriptArgs(cmd, env, Rewritten(s, n)) = ScriptArgs(cmd, env, Rewritten(r, n))
    BY <2>5, Zenon DEF ScriptArgs
  <2>7. Exact(cmd, env, l.what, l.operand, l.fn, l.args, s[n].results, Rewritten(s, n))
    BY <2>2, <2>3, <2>4, <2>5, <2>6, Zenon DEF Exact
  <2>8. Exact(cmd, env, s[n + 1].what, s[n + 1].operand, s[n + 1].fn, s[n + 1].args, s[(n + 1) - 1].results,
              Rewritten(s, (n + 1) - 1))
    BY <1>5, <2>4, <2>7, Zenon
  <2>9. s[n + 1].what = "print" => n + 1 > 1
    BY <1>5, <2>2, <2>3, <2>4
  <2> QED
    BY <2>8, <2>9, Zenon DEF ExactAt
<1>9. \A k \in 1..Len(s) : ExactAt(cmd, env, s, k)
  <2> SUFFICES ASSUME NEW k \in 1..Len(s) PROVE ExactAt(cmd, env, s, k)
    OBVIOUS
  <2>1. k \in 1..n \/ k = n + 1
    BY <1>5
  <2> QED
    BY <1>7, <1>8, <2>1
<1> QED
  BY <1>1, <1>4, <1>9, Zenon DEF AllExact
\* A call begins, goes on, or is none.
LEMMA MeantNow ==
  ASSUME NEW w, NEW op, NEW f, NEW xs, Calls(w, op, f, xs), UNCHANGED <<cmd, env>>,
         w \notin Modules =>
           /\ Exact(cmd, env, w, op, f, xs, ran'[Len(ran')].results, Rewritten(ran', Len(ran')))
           /\ w = "print" => Len(ran') >= 1
  PROVE  CallMeant'
<1>1. call'.what = w /\ call'.operand = op /\ call'.fn = f /\ call'.args = xs
  BY Zenon DEF Calls
<1>2. call'.what \notin Modules =>
        /\ Exact(cmd', env', call'.what, call'.operand, call'.fn, call'.args, ran'[Len(ran')].results,
                 Rewritten(ran', Len(ran')))
        /\ call'.what = "print" => Len(ran') >= 1
  <2>1. cmd' = cmd /\ env' = env
    OBVIOUS
  <2> QED
    BY <1>1, <2>1, Zenon
<1>3. call'.what \notin Modules => ExactCall(cmd', env', call', ran')
  BY <1>2, Zenon DEF ExactCall
<1> QED
  BY <1>3, Zenon DEF CallMeant
LEMMA MeantStill ==
  ASSUME CallMeant, UNCHANGED <<cmd, env, ran>>, call # Idle,
         call'.what = call.what, call'.operand = call.operand, call'.fn = call.fn, call'.args = call.args
  PROVE  CallMeant'
<1>1. call.what \notin Modules => ExactCall(cmd, env, call, ran)
  BY Zenon DEF CallMeant
<1>2. ExactCall(cmd, env, call, ran) => ExactCall(cmd', env', call', ran')
  <2>1. cmd' = cmd /\ env' = env /\ ran' = ran
    OBVIOUS
  <2> QED
    BY <2>1, Zenon DEF ExactCall
<1>3. call'.what \notin Modules => ExactCall(cmd', env', call', ran')
  BY <1>1, <1>2
<1> QED
  BY <1>3, Zenon DEF CallMeant
LEMMA MeantNone == call' = Idle => CallMeant'
  BY Zenon DEF CallMeant
-------------------------------------------------------------------------------
\* Each step that calls something calls what is meant.
LEMMA PlainExact ==
  ASSUME NEW c, NEW e, NEW w \in {"init", "-e", "stdin"}, NEW op, NEW prev, NEW before
  PROVE  Exact(c, e, w, op, ChunkOf(w, op), << >>, prev, before)
<1>1. /\ w \notin {"main", "-l", "line", "print", "status", "-b", "script", "-O", "-j"}
      /\ w # "main" /\ w # "-l" /\ w # "line" /\ w # "print" /\ w # "status" /\ w # "-b" /\ w # "script"
  OBVIOUS
<1>2. w \notin {"-O", "-j"}
  BY <1>1
<1> QED
  BY <1>1, <1>2, Zenon DEF Exact
LEMMA JitExact ==
  ASSUME NEW c, NEW e, NEW w \in {"-j", "-O"}, NEW op, NEW prev, NEW before
  PROVE  Exact(c, e, w, op, Function(w, op), OptionsOf(w, op), prev, before)
<1>1. /\ w # "main" /\ w # "-l" /\ w # "line" /\ w # "print" /\ w # "status" /\ w # "-b" /\ w # "script"
      /\ w \in {"-O", "-j"}
  OBVIOUS
<1>2. ~Plain(w)
  BY <1>1, Zenon DEF Plain
<1> QED
  BY <1>1, <1>2, Zenon DEF Exact
LEMMA OtherExact ==
  ASSUME NEW c, NEW e, NEW op, NEW prev, NEW before
  PROVE  /\ \A f : Exact(c, e, "main", op, f, Argv(c), prev, before)
         /\ Exact(c, e, "-l", op, Value("require"), <<op>>, prev, before)
         /\ Exact(c, e, "line", op, <<"line", <<"text", op>>>>, << >>, prev, before)
         /\ Exact(c, e, "print", op, Value("print"), prev, prev, before)
         /\ Exact(c, e, "status", op, Value("status"), << >>, prev, before)
         /\ Exact(c, e, "-b", op, Function("-b", op), hyphenated(op) \o Trailing(c), prev, before)
         /\ \A xs \in ScriptArgs(c, e, before) : Exact(c, e, "script", op, ChunkOf("script", op), xs, prev, before)
<1>1. ~Plain("main") /\ ~Plain("-l") /\ ~Plain("line") /\ ~Plain("print") /\ ~Plain("status") /\ ~Plain("-b")
      /\ ~Plain("script")
      /\ \A w \in {"-O", "-j"} : w # "main" /\ w # "-l" /\ w # "line" /\ w # "print" /\ w # "status"
                               /\ w # "-b" /\ w # "script"
  BY DEF Plain
<1>2. \A f : Exact(c, e, "main", op, f, Argv(c), prev, before)
  BY <1>1, Zenon DEF Exact
<1>3. Exact(c, e, "-l", op, Value("require"), <<op>>, prev, before)
  BY <1>1, Zenon DEF Exact
<1>4. Exact(c, e, "line", op, <<"line", <<"text", op>>>>, << >>, prev, before)
  BY <1>1, Zenon DEF Exact
<1>5. Exact(c, e, "print", op, Value("print"), prev, prev, before)
  BY <1>1, Zenon DEF Exact
<1>6. Exact(c, e, "status", op, Value("status"), << >>, prev, before)
  BY <1>1, Zenon DEF Exact
<1>7. Exact(c, e, "-b", op, Function("-b", op), hyphenated(op) \o Trailing(c), prev, before)
  BY <1>1, Zenon DEF Exact
<1>8. \A xs \in ScriptArgs(c, e, before) : Exact(c, e, "script", op, ChunkOf("script", op), xs, prev, before)
  BY <1>1, Zenon DEF Exact
<1> QED
  BY <1>2, <1>3, <1>4, <1>5, <1>6, <1>7, <1>8
-------------------------------------------------------------------------------
\* A call that is the only change of what CallMeant sees.
LEMMA CallsMeant ==
  ASSUME NEW w, NEW op, NEW f, NEW xs, Calls(w, op, f, xs), UNCHANGED <<cmd, env, ran>>, w # "print",
         w \notin Modules => Exact(cmd, env, w, op, f, xs, ran[Len(ran)].results, Rewritten(ran, Len(ran)))
  PROVE  CallMeant'
<1>1. w \notin Modules =>
        /\ Exact(cmd, env, w, op, f, xs, ran'[Len(ran')].results, Rewritten(ran', Len(ran')))
        /\ w = "print" => Len(ran') >= 1
  <2>1. ran' = ran
    OBVIOUS
  <2> QED
    BY <2>1, Zenon
<1> QED
  BY <1>1, MeantNow
\* The same by what is called.
LEMMA ModulesMeant ==
  ASSUME NEW w \in Modules, NEW op, NEW f, NEW xs, Calls(w, op, f, xs), UNCHANGED <<cmd, env, ran>>
  PROVE  CallMeant'
<1>1. w # "print"
  BY DEF Modules
<1> QED
  BY <1>1, CallsMeant
LEMMA PlainMeant ==
  ASSUME NEW w \in {"init", "-e", "stdin"}, NEW op, Calls(w, op, ChunkOf(w, op), << >>),
         UNCHANGED <<cmd, env, ran>>
  PROVE  CallMeant'
<1>1. w # "print"
  OBVIOUS
<1>2. Exact(cmd, env, w, op, ChunkOf(w, op), << >>, ran[Len(ran)].results, Rewritten(ran, Len(ran)))
  BY PlainExact
<1> QED
  BY <1>1, <1>2, CallsMeant
LEMMA JitMeant ==
  ASSUME NEW w \in {"-j", "-O"}, NEW op, Calls(w, op, Function(w, op), OptionsOf(w, op)), UNCHANGED <<cmd, env, ran>>
  PROVE  CallMeant'
<1>1. w # "print"
  OBVIOUS
<1>2. Exact(cmd, env, w, op, Function(w, op), OptionsOf(w, op), ran[Len(ran)].results, Rewritten(ran, Len(ran)))
  BY JitExact
<1> QED
  BY <1>1, <1>2, CallsMeant
LEMMA OtherMeant ==
  ASSUME NEW w, NEW op, NEW f, NEW xs, Calls(w, op, f, xs), UNCHANGED <<cmd, env, ran>>,
         \/ w = "main" /\ xs = argv
         \/ w = "-l" /\ f = Value("require") /\ xs = <<op>>
         \/ w = "line" /\ f = <<"line", <<"text", op>>>> /\ xs = << >>
         \/ w = "status" /\ f = Value("status") /\ xs = << >>
         \/ w = "-b" /\ f = Function("-b", op) /\ xs = hyphenated(op) \o Trailing(cmd)
         \/ w = "script" /\ f = ChunkOf("script", op) /\ xs \in ScriptArgs(cmd, env, Rewritten(ran, Len(ran)))
  PROVE  CallMeant'
<1>1. w # "print"
  OBVIOUS
<1>2. Exact(cmd, env, w, op, f, xs, ran[Len(ran)].results, Rewritten(ran, Len(ran)))
  <2>1. CASE w = "main" /\ xs = argv
    BY <2>1, OtherExact, Zenon DEF argv
  <2>2. CASE w = "-l" /\ f = Value("require") /\ xs = <<op>>
    BY <2>2, OtherExact, Zenon
  <2>3. CASE w = "line" /\ f = <<"line", <<"text", op>>>> /\ xs = << >>
    BY <2>3, OtherExact, Zenon
  <2>4. CASE w = "status" /\ f = Value("status") /\ xs = << >>
    BY <2>4, OtherExact, Zenon
  <2>5. CASE w = "-b" /\ f = Function("-b", op) /\ xs = hyphenated(op) \o Trailing(cmd)
    BY <2>5, OtherExact, Zenon
  <2>6. CASE w = "script" /\ f = ChunkOf("script", op) /\ xs \in ScriptArgs(cmd, env, Rewritten(ran, Len(ran)))
    BY <2>6, OtherExact, Zenon
  <2> QED
    BY <2>1, <2>2, <2>3, <2>4, <2>5, <2>6, Zenon
<1> QED
  BY <1>1, <1>2, CallsMeant
-------------------------------------------------------------------------------
\* The steps that record nothing.
Unrecorded ==
    \/ Return \/ Throw \/ Sigint \/ lstop \/ UNCHANGED vars
    \/ main \/ bundle_main \/ bundle_loaded \/ arg_table
    \/ handle_luainit \/ init_bad \/ flag_option \/ dostring \/ dostring_bad \/ dolibrary
    \/ runcmdopt \/ loadjitmodule \/ add_on_loaded \/ options_done
    \/ handle_script \/ script_bad \/ print_jit_status \/ dofile
    \/ end_of_input \/ pushline \/ incomplete \/ addline \/ line_bad \/ line_loaded
Recording ==
    \/ Escapes \/ main_returned \/ option_done \/ script_done \/ status_done \/ stdin_done
    \/ line_done \/ print_done
\* A step records a call or none.
LEMMA NextParts == [Next]_vars => Unrecorded \/ Recording
  BY Zenon DEF Next, Unrecorded, Recording
\* What has run is the same then.
LEMMA SameRun == Unrecorded => UNCHANGED <<cmd, env, ran>>
<1> SUFFICES ASSUME Unrecorded PROVE UNCHANGED <<cmd, env, ran>>
  OBVIOUS
<1>1. CASE Return \/ Throw \/ Sigint \/ lstop \/ UNCHANGED vars
  BY <1>1 DEF Return, Throw, Sigint, lstop, vars, input
<1>2. CASE \E place : Step(place)
  BY <1>2 DEF Step, input
<1>3. CASE bundle_loaded \/ add_on_loaded
  BY <1>3 DEF bundle_loaded, add_on_loaded, input
<1>4. \/ Return \/ Throw \/ Sigint \/ lstop \/ UNCHANGED vars \/ bundle_loaded \/ add_on_loaded
      \/ \E place : Step(place)
  BY Zenon DEF Unrecorded, main, bundle_main, arg_table, handle_luainit, init_bad, flag_option, dostring,
     dostring_bad, dolibrary, runcmdopt, loadjitmodule, options_done, handle_script, script_bad,
     print_jit_status, dofile, end_of_input, pushline, incomplete, addline, line_bad, line_loaded,
     NoChunk, Option_at
<1> QED
  BY <1>1, <1>2, <1>3, <1>4
\* The call is the same, or is over.
LEMMA SameCall ==
  Shape /\ CallMeant /\
  (Return \/ Throw \/ Sigint \/ lstop \/ UNCHANGED vars \/ main \/ arg_table \/ init_bad \/ flag_option
   \/ dostring_bad \/ options_done \/ script_bad \/ end_of_input \/ pushline \/ incomplete \/ addline
   \/ line_bad) => CallMeant'
<1> SUFFICES ASSUME Shape, CallMeant,
                    Return \/ Throw \/ Sigint \/ lstop \/ UNCHANGED vars \/ main \/ arg_table \/ init_bad
                    \/ flag_option \/ dostring_bad \/ options_done \/ script_bad \/ end_of_input
                    \/ pushline \/ incomplete \/ addline \/ line_bad
             PROVE  CallMeant'
  OBVIOUS
<1>1. UNCHANGED <<cmd, env, ran>>
  <2>1. Unrecorded
    BY Zenon DEF Unrecorded
  <2> QED
    BY <2>1, SameRun
<1> DEFINE Ended == call # Idle /\ \E o, r : Leaves(o, r)
<1>2. call' = call \/ Ended
  <2>1. Return \/ Throw \/ lstop => call' = call \/ Ended
    BY Zenon DEF Return, Throw, lstop, CanEnd
  <2>2. Sigint \/ UNCHANGED vars => call' = call
    BY DEF Sigint, vars
  <2>3. main \/ arg_table \/ init_bad \/ flag_option \/ dostring_bad \/ options_done \/ script_bad \/ end_of_input
        \/ pushline \/ incomplete \/ addline \/ line_bad => call' = call
    BY Zenon DEF main, arg_table, init_bad, flag_option, dostring_bad, options_done, script_bad, end_of_input,
       pushline, incomplete, addline, line_bad, NoChunk, Quiet
  <2> QED
    BY <2>1, <2>2, <2>3
<1>3. CASE call' = Idle
  BY <1>3, MeantNone
<1>4. CASE call' = call /\ call # Idle
  BY <1>1, <1>4, MeantStill
<1>5. CASE Ended
  <2>1. PICK o, r : Leaves(o, r)
    BY <1>5
  <2>2. /\ call'.what = call.what /\ call'.operand = call.operand /\ call'.fn = call.fn
        /\ call'.args = call.args
    BY <1>5, <2>1, EndFields
  <2> QED
    BY <1>1, <1>5, <2>2, MeantStill
<1> QED
  BY <1>2, <1>3, <1>4, <1>5
\* The call that begins is meant.
LEMMA BeginMeant ==
  StackInv /\ ArgOK /\
  (bundle_main \/ bundle_loaded \/ handle_luainit \/ dostring \/ dolibrary \/ runcmdopt \/ loadjitmodule
   \/ add_on_loaded \/ handle_script \/ print_jit_status \/ dofile \/ line_loaded) => CallMeant'
<1> SUFFICES ASSUME StackInv, ArgOK,
                    bundle_main \/ bundle_loaded \/ handle_luainit \/ dostring \/ dolibrary \/ runcmdopt
                    \/ loadjitmodule \/ add_on_loaded \/ handle_script \/ print_jit_status \/ dofile
                    \/ line_loaded
             PROVE  CallMeant'
  OBVIOUS
<1>1. UNCHANGED <<cmd, env, ran>>
  <2>1. Unrecorded
    BY Zenon DEF Unrecorded
  <2> QED
    BY <2>1, SameRun
<1>2. "bundle_loader" \in Modules /\ "add-on" \in Modules
  BY DEF Modules
<1>3. CASE bundle_main
  BY <1>1, <1>2, <1>3, BundleCalls, ModulesMeant
<1>4. CASE bundle_loaded
  <2>1. (\E f : Calls("main", Nothing, f, argv)) \/ call' = Idle
    BY <1>4, LoadedCalls, Zenon
  <2>2. ASSUME NEW f, Calls("main", Nothing, f, argv)
        PROVE  CallMeant'
    BY <1>1, <2>2, OtherMeant
  <2> QED
    BY <2>1, <2>2, MeantNone
<1>5. CASE handle_luainit
  <2>1. call = Idle
    BY <1>5, Zenon DEF handle_luainit, Step
  <2>2. Calls("init", Nothing, ChunkOf("init", Nothing), << >>) \/ call' = Idle
    BY <1>5, <2>1, InitCalls, Zenon DEF Quiet
  <2>3. "init" \in {"init", "-e", "stdin"}
    OBVIOUS
  <2> QED
    BY <1>1, <2>2, <2>3, PlainMeant, MeantNone
<1>6. CASE dostring
  <2>1. "-e" \in {"init", "-e", "stdin"}
    OBVIOUS
  <2>2. Calls("-e", Op, ChunkOf("-e", Op), << >>)
    BY <1>6, StringCalls
  <2> QED
    BY <1>1, <2>1, <2>2, PlainMeant
<1>7. CASE dolibrary
  <2>1. Calls("-l", Op, Value("require"), <<Op>>)
    BY <1>7, LibraryCalls
  <2> QED
    BY <1>1, <2>1, OtherMeant
<1>8. CASE runcmdopt
  <2>1. argv[i].head \in {"-j", "-O"} /\ Calls(argv[i].head, Op, Function(argv[i].head, Op), OptionsOf(argv[i].head, Op))
    BY <1>8, OptCalls
  <2> QED
    BY <1>1, <2>1, JitMeant
<1>9. CASE loadjitmodule
  <2>1. PICK name : Calls("add-on", name, Value("require"), <<name>>)
    BY <1>9, ModuleCalls
  <2> QED
    BY <1>1, <1>2, <2>1, ModulesMeant
<1>10. CASE add_on_loaded
  <2>1. \/ call' = Idle
        \/ Calls("-b", Op, Function("-b", Op), hyphenated(Op) \o Trailing(cmd))
        \/ Calls("-j", Op, Function("-j", Op), OptionsOf("-j", Op))
    BY <1>10, AddOnCalls, Zenon
  <2>2. CASE Calls("-b", Op, Function("-b", Op), hyphenated(Op) \o Trailing(cmd))
    BY <1>1, <2>2, OtherMeant
  <2>3. CASE Calls("-j", Op, Function("-j", Op), OptionsOf("-j", Op))
    <3>1. "-j" \in {"-j", "-O"}
      OBVIOUS
    <3> QED
      BY <1>1, <2>3, <3>1, JitMeant
  <2> QED
    BY <2>1, <2>2, <2>3, MeantNone
<1>11. CASE handle_script
  <2>1. PICK xs : /\ xs \in ScriptArgs(cmd, env, Rewritten(ran, Len(ran)))
                  /\ Calls("script", script_file(argv, argn), ChunkOf("script", script_file(argv, argn)), xs)
    BY <1>11, ScriptCalls
  <2> QED
    BY <1>1, <2>1, OtherMeant
<1>12. CASE print_jit_status
  <2>1. Calls("status", Nothing, Value("status"), << >>)
    BY <1>12, StatusCalls
  <2> QED
    BY <1>1, <2>1, OtherMeant
<1>13. CASE dofile
  <2>1. call = Idle
    BY <1>13, Zenon DEF dofile, Step
  <2>2. Calls("stdin", Nothing, ChunkOf("stdin", Nothing), << >>) \/ call' = Idle
    BY <1>13, <2>1, StdinCalls, Zenon DEF Quiet
  <2>3. "stdin" \in {"init", "-e", "stdin"}
    OBVIOUS
  <2> QED
    BY <1>1, <2>2, <2>3, PlainMeant, MeantNone
<1>14. CASE line_loaded
  <2>1. Calls("line", typed, <<"line", <<"text", typed>>>>, << >>)
    BY <1>14, LineCalls
  <2> QED
    BY <1>1, <2>1, OtherMeant
<1> QED
  BY <1>3, <1>4, <1>5, <1>6, <1>7, <1>8, <1>9, <1>10, <1>11, <1>12, <1>13, <1>14
-------------------------------------------------------------------------------
\* The steps that record a call.
LEMMA RecordingIs ==
  Recording => GoOn /\ call # Idle /\ call.outcome # "running" /\ call.what \notin Modules
               /\ (call' = Idle \/ line_done)
<1> SUFFICES ASSUME Recording
             PROVE  GoOn /\ call # Idle /\ call.outcome # "running" /\ call.what \notin Modules
                    /\ (call' = Idle \/ line_done)
  OBVIOUS
<1>1. GoOn
  BY Zenon DEF Recording, Escapes, main_returned, option_done, script_done, status_done, stdin_done,
               line_done, print_done
<1>2. call' = Idle \/ line_done
  BY Zenon DEF Recording, Escapes, main_returned, option_done, script_done, status_done, stdin_done,
               print_done, Over
<1>3. \E w \in {"main", "status", "init", "-e", "-l", "-j", "-O", "-b", "script", "stdin", "line", "print"} :
        Returned(w)
  <2>1. \/ Returned("main") \/ Returned("status") \/ Returned("script") \/ Returned("stdin")
        \/ Returned("line") \/ Returned("print")
        \/ \E w \in {"main", "status"} : Returned(w)
        \/ \E w \in {"init", "-e", "-l", "-j", "-O", "-b"} : Returned(w)
    BY Zenon DEF Recording, Escapes, main_returned, option_done, script_done, status_done, stdin_done,
                 line_done, print_done
  <2> HIDE DEF Returned
  <2> QED
    BY <2>1
<1> QED
  BY <1>1, <1>2, <1>3 DEF Returned, Modules
\* They record a call that was meant, and print is meant by the line before.
LEMMA RecordMeant == MeantInv /\ Recording => CallMeant' /\ AllExact(cmd', env', ran')
<1> SUFFICES ASSUME MeantInv, Recording PROVE CallMeant' /\ AllExact(cmd', env', ran')
  OBVIOUS
<1>1. GoOn /\ call # Idle /\ call.outcome # "running" /\ call.what \notin Modules /\ (call' = Idle \/ line_done)
  BY RecordingIs
<1>2. AllExact(cmd', env', ran')
  BY <1>1, ExactAdded
<1>3. CASE line_done
  <2>1. \/ Calls("print", Nothing, Value("print"), call.results)
        \/ call' = Idle
    BY <1>3, LineDoneCalls, Zenon DEF MeantInv, HeapInv
  <2>2. CASE Calls("print", Nothing, Value("print"), call.results)
    <3>1. Added(CallRecord) /\ cmd' = cmd /\ env' = env
      <4>1. Added(CallRecord)
        BY <1>1, GoesOn
      <4> QED
        BY <1>1, <4>1 DEF GoOn, input
    <3>2. Recorded
      BY DEF MeantInv, HeapInv, StackInv, WhereInv, SignalInv
    <3>3. Len(ran) \in Nat /\ Len(ran') = Len(ran) + 1 /\ ran'[Len(ran) + 1] = CallRecord
      BY <3>1, <3>2, AddedIs
    <3>4. ran'[Len(ran')] = CallRecord /\ Len(ran') >= 1
      BY <3>3
    <3>5. ran'[Len(ran')].results = call.results
      BY <3>4 DEF CallRecord
    <3>6. Exact(cmd, env, "print", Nothing, Value("print"), call.results, call.results,
                Rewritten(ran', Len(ran')))
      BY OtherExact
    <3>7. /\ Exact(cmd, env, "print", Nothing, Value("print"), call.results, ran'[Len(ran')].results,
                   Rewritten(ran', Len(ran')))
          /\ Len(ran') >= 1
      BY <3>4, <3>5, <3>6, Zenon
    <3> QED
      BY <1>2, <2>2, <3>1, <3>7, MeantNow
  <2> QED
    BY <1>2, <2>1, <2>2, MeantNone
<1> QED
  BY <1>1, <1>2, <1>3, MeantNone
\* Every step keeps the invariant.
LEMMA MeantStep == MeantInv /\ [Next]_vars => MeantInv'
<1> SUFFICES ASSUME MeantInv, [Next]_vars PROVE MeantInv'
  OBVIOUS
<1>1. HeapInv /\ StackInv /\ ArgOK /\ CallMeant /\ Shape /\ AllExact(cmd, env, ran)
  BY DEF MeantInv, HeapInv, StackInv, WhereInv, SignalInv
<1>2. HeapInv'
  BY <1>1, HeapStep
<1>3. CASE Unrecorded
  <2>1. CallMeant'
    BY <1>1, <1>3, SameCall, BeginMeant, Zenon DEF Unrecorded
  <2>2. AllExact(cmd', env', ran')
    <3>1. cmd' = cmd /\ env' = env /\ ran' = ran
      BY <1>3, SameRun
    <3> QED
      BY <1>1, <3>1, Zenon
  <2> QED
    BY <1>2, <2>1, <2>2 DEF MeantInv
<1>4. CASE Recording
  <2>1. CallMeant' /\ AllExact(cmd', env', ran')
    BY <1>4, RecordMeant
  <2> QED
    BY <1>2, <2>1 DEF MeantInv
<1> QED
  BY <1>3, <1>4, NextParts
\* It holds at first.
LEMMA MeantStart == Init => MeantInv
<1> SUFFICES ASSUME Init PROVE MeantInv
  OBVIOUS
<1>1. HeapInv
  BY HeapStart
<1>2. call = Idle /\ ran = << >>
  BY DEF Init
<1>3. CallMeant
  BY <1>2, Zenon DEF CallMeant
<1>4. 1..Len(ran) = {}
  BY <1>2
<1>5. AllExact(cmd, env, ran)
  BY <1>4, Zenon DEF AllExact
<1> QED
  BY <1>1, <1>3, <1>5 DEF MeantInv
-------------------------------------------------------------------------------
\* The arguments of -b, in the words of the property.
LEMMA BytecodeArgsAre ==
  ASSUME NEW c, WellWritten(c), NEW op
  PROVE  hyphenated(op) \o Trailing(c) =
           hyphenated(op) \o (IF c.dashes THEN <<Dashes>> ELSE << >>) \o
           (IF c.script = Nothing THEN << >> ELSE <<c.script>>) \o c.rest
<1>1. PICK a, d, s, z : /\ a = hyphenated(op) /\ d = (IF c.dashes THEN <<Dashes>> ELSE << >>)
                        /\ s = (IF c.script = Nothing THEN << >> ELSE <<c.script>>) /\ z = c.rest
  OBVIOUS
<1>2. IsSeq(a) /\ IsSeq(d) /\ IsSeq(s)
  <2>1. IsSeq(a)
    BY <1>1, OperandsSeq
  <2>2. IsSeq(d)
    BY <1>1, OneSeq, NoneSeq, Zenon
  <2>3. IsSeq(s)
    BY <1>1, OneSeq, NoneSeq, Zenon
  <2> QED
    BY <2>1, <2>2, <2>3
<1>3. IsSeq(z)
  <2>1. c.rest \in Seq(Argument)
    BY Zenon DEF WellWritten
  <2> QED
    BY <1>1, <2>1, Zenon DEF IsSeq
<1>4. IsSeq(d \o s) /\ Trailing(c) = (d \o s) \o z
  <2>1. IsSeq(d \o s)
    BY <1>2, JoinIs
  <2> QED
    BY <1>1, <2>1, Zenon DEF Trailing
<1>5. Associative(a, d \o s, z) /\ Associative(a, d, s)
  BY <1>2, <1>3, <1>4, JoinThree
<1>6. a \o ((d \o s) \o z) = ((a \o d) \o s) \o z
  BY <1>5, Zenon DEF Associative
<1> QED
  BY <1>1, <1>4, <1>6, Zenon
-------------------------------------------------------------------------------
\* The invariant says what was meant.
LEMMA MeantExact == MeantInv => CallsAreExact
<1> SUFFICES ASSUME MeantInv PROVE CallsAreExact
  OBVIOUS
<1>1. /\ Recorded /\ AllExact(cmd, env, ran)
      /\ Misused(cmd) => ran = << >>
  <2>1. Misused(cmd) => ran = << >>
    BY Zenon DEF MeantInv, HeapInv, StackInv, WhereInv, Fine, Untouched
  <2> QED
    BY <2>1 DEF MeantInv, HeapInv, StackInv, WhereInv, SignalInv
<1>2. DOMAIN ran = 1..Len(ran) /\ Len(ran) \in Nat
  <2>1. IsSeq(ran)
    BY <1>1, Zenon DEF Recorded, IsSeq
  <2> QED
    BY <2>1, SeqIs
<1> DEFINE before(k) == \E m \in 1..k - 1 : ran[m].what \in Rewriters
<1>3. ASSUME NEW k \in DOMAIN ran
      PROVE  CASE ran[k].what = "main" -> ran[k].args = argv
               [] ran[k].what = "-l" -> ran[k].fn = Value("require") /\ ran[k].args = <<ran[k].operand>>
               [] ran[k].what = "line" ->
                    ran[k].fn = <<"line", <<"text", ran[k].operand>>>> /\ ran[k].args = << >>
               [] ran[k].what = "print" -> ran[k].fn = Value("print") /\ ran[k].args = ran[k - 1].results
               [] ran[k].what = "status" -> ran[k].fn = Value("status") /\ ran[k].args = << >>
               [] ran[k].what = "-j" ->
                    /\ ran[k].fn = <<"function", "-j", before_equals(ran[k].operand)>>
                    /\ ran[k].args = Options(after_equals(ran[k].operand))
               [] ran[k].what = "-O" ->
                    /\ ran[k].fn = <<"function", "-O", Nothing>>
                    /\ ran[k].args = Options(ran[k].operand)
               [] ran[k].what = "-b" ->
                    /\ ran[k].fn = <<"function", "-b", Nothing>>
                    /\ ran[k].args = hyphenated(ran[k].operand) \o
                         (IF cmd.dashes THEN <<Dashes>> ELSE << >>) \o
                         (IF cmd.script = Nothing THEN << >> ELSE <<cmd.script>>) \o cmd.rest
               [] ran[k].what = "script" ->
                    /\ ran[k].fn = <<"chunk", "script", ran[k].operand>>
                    /\ ran[k].args \in {cmd.rest} \cup
                         (IF before(k) THEN {IF a.table THEN Positional(a) ELSE << >> : a \in env.args} ELSE {})
               [] OTHER -> ran[k].fn = <<"chunk", ran[k].what, ran[k].operand>> /\ ran[k].args = << >>
  <2>1. ExactAt(cmd, env, ran, k)
    BY <1>1, <1>2, Zenon DEF AllExact
  <2>2. PICK w, op, f, xs, prev, b :
          /\ w = ran[k].what /\ op = ran[k].operand /\ f = ran[k].fn /\ xs = ran[k].args
          /\ prev = ran[k - 1].results /\ b = Rewritten(ran, k - 1)
    OBVIOUS
  <2>3. Exact(cmd, env, w, op, f, xs, prev, b)
    BY <2>1, <2>2, Zenon DEF ExactAt
  <2>4. b <=> before(k)
    BY <2>2, Zenon DEF Rewritten
  <2>5. ScriptArgs(cmd, env, b) =
          {cmd.rest} \cup (IF before(k) THEN {IF a.table THEN Positional(a) ELSE << >> : a \in env.args} ELSE {})
    BY <2>4, Zenon DEF ScriptArgs
  <2>6. WellWritten(cmd)
    <3>1. ran # << >>
      BY <1>2
    <3>2. ~Misused(cmd)
      BY <1>1, <3>1
    <3>3. Known
      BY <3>2, KnownIs DEF MeantInv, HeapInv, StackInv
    <3> QED
      BY <3>3 DEF Known
  <2>7. hyphenated(op) \o Trailing(cmd) =
          hyphenated(op) \o (IF cmd.dashes THEN <<Dashes>> ELSE << >>) \o
          (IF cmd.script = Nothing THEN << >> ELSE <<cmd.script>>) \o cmd.rest
    BY <2>6, BytecodeArgsAre
  <2>8. /\ ChunkOf("script", op) = <<"chunk", "script", op>> /\ ChunkOf(w, op) = <<"chunk", w, op>>
        /\ Function("-b", op) = <<"function", "-b", Nothing>>
        /\ Function("-O", op) = <<"function", "-O", Nothing>> /\ OptionsOf("-O", op) = Options(op)
        /\ Function("-j", op) = <<"function", "-j", before_equals(op)>>
        /\ OptionsOf("-j", op) = Options(after_equals(op))
    BY DEF ChunkOf, Function, OptionsOf
  <2>9. CASE w = "main"
    <3>1. xs = argv
      BY <2>3, <2>9, Zenon DEF Exact, argv
    <3> QED
      BY <2>2, <2>9, <3>1, Zenon
  <2>10. CASE w = "-l"
    <3>1. f = Value("require") /\ xs = <<op>> /\ w # "main"
      BY <2>3, <2>10, Zenon DEF Exact
    <3> QED
      BY <2>2, <2>10, <3>1, Zenon
  <2>11. CASE w = "line"
    <3>1. f = <<"line", <<"text", op>>>> /\ xs = << >> /\ w # "main" /\ w # "-l"
      BY <2>3, <2>11, Zenon DEF Exact
    <3> QED
      BY <2>2, <2>11, <3>1, Zenon
  <2>12. CASE w = "print"
    <3>1. f = Value("print") /\ xs = prev /\ w # "main" /\ w # "-l" /\ w # "line"
      BY <2>3, <2>12, Zenon DEF Exact
    <3> QED
      BY <2>2, <2>12, <3>1, Zenon
  <2>13. CASE w = "status"
    <3>1. f = Value("status") /\ xs = << >> /\ w # "main" /\ w # "-l" /\ w # "line" /\ w # "print"
      BY <2>3, <2>13, Zenon DEF Exact
    <3> QED
      BY <2>2, <2>13, <3>1, Zenon
  <2>14. CASE w = "-b"
    <3>1. f = <<"function", "-b", Nothing>> /\ xs = hyphenated(op) \o Trailing(cmd)
          /\ w # "main" /\ w # "-l" /\ w # "line" /\ w # "print" /\ w # "status" /\ w # "-j" /\ w # "-O"
      BY <2>3, <2>8, <2>14, Zenon DEF Exact
    <3> QED
      BY <2>2, <2>7, <2>14, <3>1, Zenon
  <2>18. CASE w = "-j"
    <3>1. f = <<"function", "-j", before_equals(op)>> /\ xs = Options(after_equals(op))
          /\ w # "main" /\ w # "-l" /\ w # "line" /\ w # "print" /\ w # "status"
      <4>1. w \in {"-O", "-j"}
        BY <2>18
      <4>2. f = Function(w, op) /\ xs = OptionsOf(w, op)
        BY <2>3, <4>1, Zenon DEF Exact
      <4> QED
        BY <2>8, <2>18, <4>2, Zenon
    <3> QED
      BY <2>2, <2>18, <3>1, Zenon
  <2>19. CASE w = "-O"
    <3>1. f = <<"function", "-O", Nothing>> /\ xs = Options(op)
          /\ w # "main" /\ w # "-l" /\ w # "line" /\ w # "print" /\ w # "status" /\ w # "-j"
      <4>1. w \in {"-O", "-j"}
        BY <2>19
      <4>2. f = Function(w, op) /\ xs = OptionsOf(w, op)
        BY <2>3, <4>1, Zenon DEF Exact
      <4> QED
        BY <2>8, <2>19, <4>2, Zenon
    <3> QED
      BY <2>2, <2>19, <3>1, Zenon
  <2>15. CASE w = "script"
    <3>1. f = <<"chunk", "script", op>> /\ xs \in ScriptArgs(cmd, env, b)
          /\ w # "main" /\ w # "-l" /\ w # "line" /\ w # "print" /\ w # "status" /\ w # "-b"
          /\ w # "-j" /\ w # "-O"
      BY <2>3, <2>8, <2>15, Zenon DEF Exact
    <3>2. xs \in {cmd.rest} \cup
            (IF before(k) THEN {IF a.table THEN Positional(a) ELSE << >> : a \in env.args} ELSE {})
      BY <2>5, <3>1, Zenon
    <3> HIDE DEF before
    <3> QED
      BY <2>2, <2>15, <3>1, <3>2, Zenon
  <2>16. CASE Plain(w)
    <3>1. /\ w # "main" /\ w # "-l" /\ w # "line" /\ w # "print" /\ w # "status" /\ w # "-b" /\ w # "script"
          /\ w # "-j" /\ w # "-O"
      BY <2>16 DEF Plain
    <3>2. f = <<"chunk", w, op>> /\ xs = << >>
      BY <2>3, <2>8, <2>16, Zenon DEF Exact
    <3> HIDE DEF before
    <3> QED
      BY <2>2, <3>1, <3>2, Zenon
  <2>17. \/ w = "main" \/ w = "-l" \/ w = "line" \/ w = "print" \/ w = "status" \/ w = "-b" \/ w = "script"
         \/ w = "-j" \/ w = "-O" \/ Plain(w)
    BY DEF Plain
  <2> QED
    BY <2>9, <2>10, <2>11, <2>12, <2>13, <2>14, <2>15, <2>16, <2>17, <2>18, <2>19, Zenon
<1> QED
  BY <1>3, Zenon DEF CallsAreExact
\* What is called is the chunk that was compiled for it, with the arguments meant for it.
THEOREM CallsMade == Spec => []CallsAreExact
<1>1. Spec => []MeantInv
  BY MeantStart, MeantStep, PTL DEF Spec
<1> QED
  BY <1>1, MeantExact, PTL
===============================================================================
