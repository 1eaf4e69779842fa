------------------------- MODULE ScreenReaderProofs -------------------------
(***************************************************************************)
(* The inductive invariant of ScreenReader and what follows from it, for   *)
(* every value of the bounds.                                              *)
(***************************************************************************)
EXTENDS ScreenReader, SequenceTheorems, TLAPS

\* Which thread is where, and what of the TTS client and the service exists
\* at each step of the two tasks.
Control ==
    /\ registrations = IF enabled THEN 1 ELSE 0
    /\ worker \in InitSteps => main = "initWait" /\ ~syncDone /\ ~initialized
    /\ worker \in UninitSteps => main = "uninitWait" /\ ~syncDone /\ initialized
    /\ worker = "none" => main = "idle" /\ ~initialized
    /\ worker = "exited" => main \in {"uninitWait", "join"}
    /\ main = "join" => worker \in {"loop", "exited"} /\ quit /\ ~initialized
    /\ main = "uninitWait" /\ syncDone => quit /\ ~initialized
    /\ main = "uninitWait" /\ ~syncDone => ~quit /\ initialized
    /\ main = "initWait" => ~quit
    /\ main = "initWait" /\ ~syncDone /\ worker = "loop" => ~initialized
    /\ main = "idle" /\ worker = "loop" => ~quit
    /\ client = \/ worker \in {"query", "assign", "register", "notify", "check", "start"}
                \/ initialized /\ worker \notin {"deleting", "quit"}
    /\ listener = \/ worker \in {"notify", "check", "start"}
                  \/ initialized /\ worker \notin {"delete", "deleting", "quit"}
    /\ serviceActive =>
          initialized /\ worker \notin {"unregister", "delete", "deleting", "quit"}
    /\ notifier # "idle" => client \/ worker = "deleting"

\* The sync task main waits for is attached once, and is the only one.
Once(s) ==
    /\ s \in Seq(TTSTasks \cup {"uninitialize"})
    /\ \A i, j \in DOMAIN s :
          s[i] = "uninitialize" /\ s[j] = "uninitialize" => i = j

Waiting == main # "idle" /\ ~syncDone /\ worker = "loop"

Sources ==
    /\ ~(Waiting /\ main # "join")
          => batch \in Seq(TTSTasks) /\ tasks \in Seq(TTSTasks)
    /\ Waiting /\ main = "initWait"
          => \/ batch = <<>> /\ tasks = <<"initialize">>
             \/ batch = <<"initialize">> /\ tasks = <<>>
    /\ Waiting /\ main = "uninitWait"
          => \/ batch \in Seq(TTSTasks) /\ Once(tasks)
             \/ Once(batch) /\ tasks \in Seq(TTSTasks)
    /\ worker \in InitSteps => batch = <<>>
    /\ worker \in {"create", "query", "assign", "register"} => tasks = <<>>

TaskFor(state) == IF state THEN "ttsEnabled" ELSE "ttsDisabled"
LastOf(s) == s[Len(s)]

\* The last source attached, or else the reader, has the library's state.
Settled(b, t, on, state) ==
    \/ t # <<>> /\ LastOf(t) = TaskFor(state)
    \/ t = <<>> /\ b # <<>> /\ LastOf(b) = TaskFor(state)
    \/ t = <<>> /\ b = <<>> /\ on = state

Assigned ==
    \/ worker \in {"register", "notify", "check", "start"}
    \/ worker = "loop" /\ initialized

Notified ==
    \/ worker \in {"check", "start"}
    \/ worker = "loop" /\ initialized /\ main \in {"idle", "initWait"}

Follows ==
    ~overwritten =>
        /\ Assigned /\ notifier # "changed" => ttsEnabled = ttsState
        /\ worker = "notify" /\ notifier = "idle" /\ tasks # <<>>
              => LastOf(tasks) = TaskFor(ttsState)
        /\ Notified /\ notifier = "idle"
              => Settled(batch, tasks, enabled, ttsState)

IInv ==
    /\ TypeOK
    /\ Control
    /\ Sources
    /\ Follows
----------------------------------------------------------------------------
(* Sequences of sources, and the handlers.                                 *)

LEMMA TailTTS ==
    ASSUME NEW s \in Seq(TTSTasks), s # <<>>
    PROVE  Head(s) \in TTSTasks /\ Tail(s) \in Seq(TTSTasks)
BY HeadTailProperties, EmptySeq, LenProperties

\* Once the sync task is taken there is none left.
LEMMA TailOnce ==
    ASSUME NEW s, Once(s), s # <<>>
    PROVE  /\ Head(s) \in TTSTasks \cup {"uninitialize"}
           /\ Once(Tail(s))
           /\ Head(s) = "uninitialize" => Tail(s) \in Seq(TTSTasks)
<1> DEFINE S == TTSTasks \cup {"uninitialize"}
<1>1. /\ s \in Seq(S)
      /\ \A i, j \in DOMAIN s :
            s[i] = "uninitialize" /\ s[j] = "uninitialize" => i = j
  BY DEF Once
<1>2. /\ Head(s) \in S /\ Tail(s) \in Seq(S) /\ Len(s) \in Nat /\ Len(s) > 0
      /\ Len(Tail(s)) = Len(s) - 1
      /\ \A i \in 1 .. Len(Tail(s)) : Tail(s)[i] = s[i + 1]
  BY <1>1, HeadTailProperties, EmptySeq, LenProperties
<1>3. DOMAIN s = 1 .. Len(s) /\ DOMAIN Tail(s) = 1 .. Len(s) - 1 /\ Head(s) = s[1]
  BY <1>1, <1>2, LenProperties
<1>4. Once(Tail(s))
  BY <1>1, <1>2, <1>3 DEF Once
<1>5. ASSUME Head(s) = "uninitialize"
      PROVE  Tail(s) \in Seq(TTSTasks)
  <2>1. \A i \in 1 .. Len(Tail(s)) : Tail(s)[i] \in TTSTasks
    BY <1>1, <1>2, <1>3, <1>5
  <2>2. Tail(s) \in [1 .. Len(Tail(s)) -> TTSTasks] /\ Len(Tail(s)) \in Nat
    BY <2>1, <1>2, LenProperties
  <2> QED
    BY <2>2, SeqDef
<1> QED
  BY <1>2, <1>4, <1>5

LEMMA AppendOnce ==
    /\ \A s \in Seq(TTSTasks) : Once(s) /\ Once(Append(s, "uninitialize"))
    /\ \A s : \A t \in TTSTasks : Once(s) => Once(Append(s, t))
<1>1. "uninitialize" \notin TTSTasks
  BY DEF TTSTasks
<1>2. ASSUME NEW s \in Seq(TTSTasks)
      PROVE  Once(s) /\ Once(Append(s, "uninitialize"))
  <2>1. s \in Seq(TTSTasks \cup {"uninitialize"}) /\ DOMAIN s = 1 .. Len(s)
        /\ Len(s) \in Nat /\ \A i \in 1 .. Len(s) : s[i] \in TTSTasks
    BY LenProperties, ElementOfSeq
  <2>2. /\ Append(s, "uninitialize") \in Seq(TTSTasks \cup {"uninitialize"})
        /\ Len(Append(s, "uninitialize")) = Len(s) + 1
        /\ \A i \in 1 .. Len(s) : Append(s, "uninitialize")[i] = s[i]
    BY <2>1, AppendProperties
  <2>3. DOMAIN Append(s, "uninitialize") = 1 .. Len(s) + 1
    BY <2>1, <2>2, LenProperties
  <2> QED
    BY <1>1, <2>1, <2>2, <2>3 DEF Once
<1>3. ASSUME NEW s, NEW t \in TTSTasks, Once(s)
      PROVE  Once(Append(s, t))
  <2>1. s \in Seq(TTSTasks \cup {"uninitialize"}) /\ DOMAIN s = 1 .. Len(s)
        /\ Len(s) \in Nat
    BY <1>3, LenProperties DEF Once
  <2>2. /\ Append(s, t) \in Seq(TTSTasks \cup {"uninitialize"})
        /\ Len(Append(s, t)) = Len(s) + 1
        /\ \A i \in 1 .. Len(s) : Append(s, t)[i] = s[i]
        /\ Append(s, t)[Len(s) + 1] = t
    BY <2>1, AppendProperties
  <2>3. DOMAIN Append(s, t) = 1 .. Len(s) + 1
    BY <2>1, <2>2, LenProperties
  <2> QED
    BY <1>1, <1>3, <2>1, <2>2, <2>3 DEF Once
<1> QED
  BY <1>2, <1>3

LEMMA TaskSequences ==
    /\ \A s \in Seq(TTSTasks) : s \in Seq(Tasks)
    /\ \A s : Once(s) => s \in Seq(Tasks)
    /\ <<"initialize">> \in Seq(Tasks)
    /\ <<>> \in Seq(TTSTasks)
BY DEF Once, Tasks, TTSTasks

LEMMA LastOfAppend ==
    ASSUME NEW S, NEW s \in Seq(S), NEW x \in S
    PROVE  Append(s, x) # <<>> /\ LastOf(Append(s, x)) = x
BY AppendProperties, LenProperties DEF LastOf

LEMMA LastOfTail ==
    ASSUME NEW S, NEW s \in Seq(S), s # <<>>
    PROVE  /\ Tail(s) # <<>> => LastOf(Tail(s)) = LastOf(s)
           /\ Tail(s) = <<>> => LastOf(s) = Head(s)
<1>1. /\ Tail(s) \in Seq(S) /\ Len(s) \in Nat /\ Len(s) > 0
      /\ Len(Tail(s)) = Len(s) - 1 /\ Head(s) = s[1]
      /\ \A i \in 1 .. Len(Tail(s)) : Tail(s)[i] = s[i + 1]
  BY HeadTailProperties, EmptySeq, LenProperties
<1>2. Tail(s) # <<>> => Len(s) - 1 > 0
  BY <1>1, EmptySeq
<1>3. Tail(s) = <<>> => Len(s) = 1
  BY <1>1, EmptySeq
<1> QED
  BY <1>1, <1>2, <1>3 DEF LastOf

\* Whatever the reader's state, a handler leaves it as the TTS state says.
LEMMA HandlersSetEnabled ==
    ASSUME enabled \in BOOLEAN, registrations = IF enabled THEN 1 ELSE 0
    PROVE  /\ TTSEnabledFromWorkerThread => enabled' = TRUE /\ registrations' = 1
           /\ TTSDisabledFromWorkerThread => enabled' = FALSE /\ registrations' = 0
           /\ \A state \in BOOLEAN : HandleTTSState(state) =>
                 /\ enabled' = state
                 /\ registrations' = IF state THEN 1 ELSE 0
<1>1. TTSEnabledFromWorkerThread => enabled' = TRUE /\ registrations' = 1
  <2>1. CASE enabled = TRUE
    BY <2>1 DEF TTSEnabledFromWorkerThread
  <2>2. CASE enabled = FALSE
    BY <2>2 DEF TTSEnabledFromWorkerThread
  <2> QED
    BY <2>1, <2>2
<1>2. TTSDisabledFromWorkerThread => enabled' = FALSE /\ registrations' = 0
  <2>1. CASE enabled = TRUE
    BY <2>1 DEF TTSDisabledFromWorkerThread
  <2>2. CASE enabled = FALSE
    BY <2>2 DEF TTSDisabledFromWorkerThread
  <2> QED
    BY <2>1, <2>2
<1>3. ASSUME NEW state \in BOOLEAN, HandleTTSState(state)
      PROVE  enabled' = state /\ registrations' = IF state THEN 1 ELSE 0
  <2>1. CASE state = TRUE
    BY <2>1, <1>1, <1>3 DEF HandleTTSState
  <2>2. CASE state = FALSE
    BY <2>2, <1>2, <1>3 DEF HandleTTSState
  <2> QED
    BY <2>1, <2>2
<1> QED
  BY <1>1, <1>2, <1>3

----------------------------------------------------------------------------
\* Every step keeps the invariant.
THEOREM InvariantStep == IInv /\ [Next]_vars => IInv'
<1> SUFFICES ASSUME IInv, [Next]_vars
             PROVE  IInv'
  OBVIOUS
<1> USE DEF IInv, mainVars, contextVars, readerVars, clientVars, libraryVars
<1>e. enabled \in BOOLEAN /\ ttsEnabled \in BOOLEAN /\ ttsState \in BOOLEAN
  BY DEF TypeOK, ReaderOK, ClientOK, LibraryOK
<1>h. registrations = IF enabled THEN 1 ELSE 0
  BY DEF Control
<1>0. ASSUME UNCHANGED vars
      PROVE  IInv'
  BY <1>0
     DEF vars, TypeOK, ThreadsOK, ContextOK, ReaderOK, ClientOK, LibraryOK, Control,
         Sources, Waiting, Follows, Assigned, Notified, Settled
<1>1. ASSUME Initialize
      PROVE  IInv'
  <2>1. Control'
    BY <1>1 DEF Initialize, TypeOK, ThreadsOK, Control, InitSteps, UninitSteps
  <2>2. Sources'
    BY <1>1, TaskSequences, AppendOnce
       DEF Initialize, TypeOK, ThreadsOK, Control, Sources, Waiting, InitSteps, UninitSteps
  <2>3. TypeOK'
    <3>1. abandoned' \in Nat
      BY <1>1 DEF Initialize, TypeOK, ThreadsOK
    <3>2. batch' \in Seq(Tasks) /\ tasks' \in Seq(Tasks)
      BY <1>1, TaskSequences DEF Initialize
    <3>3. ThreadsOK' /\ ContextOK'
      BY <1>1, <3>1, <3>2 DEF Initialize, TypeOK, ThreadsOK, ContextOK
    <3>4. ReaderOK' /\ LibraryOK'
      BY <1>1 DEF Initialize, TypeOK, ReaderOK, LibraryOK
    <3>5. ClientOK'
      BY <1>1 DEF Initialize, TypeOK, ClientOK
    <3> QED
      BY <3>3, <3>4, <3>5 DEF TypeOK
  <2>4. Follows'
    BY <1>1
       DEF Initialize, TypeOK, ThreadsOK, Control, Sources, Waiting, Follows, Assigned,
           Notified, Settled, TaskFor, InitSteps, UninitSteps
  <2> QED
    BY <2>1, <2>2, <2>3, <2>4
<1>2. ASSUME InitializeReturns
      PROVE  IInv'
  <2>1. Control'
    BY <1>2 DEF InitializeReturns, TypeOK, ThreadsOK, Control, InitSteps, UninitSteps
  <2>2. Sources'
    BY <1>2
       DEF InitializeReturns, TypeOK, ThreadsOK, Control, Sources, Waiting, InitSteps, UninitSteps
  <2>3. TypeOK'
    <3>1. ThreadsOK' /\ ContextOK'
      BY <1>2 DEF InitializeReturns, TypeOK, ThreadsOK, ContextOK, InitSteps, UninitSteps
    <3>2. ReaderOK' /\ LibraryOK'
      BY <1>2 DEF InitializeReturns, TypeOK, ReaderOK, LibraryOK
    <3>3. ClientOK'
      BY <1>2 DEF InitializeReturns, TypeOK, ClientOK
    <3> QED
      BY <3>1, <3>2, <3>3 DEF TypeOK
  <2>4. Follows'
    BY <1>2
       DEF InitializeReturns, TypeOK, ThreadsOK, Control, Sources, Waiting, Follows, Assigned,
           Notified, Settled, TaskFor, InitSteps, UninitSteps
  <2> QED
    BY <2>1, <2>2, <2>3, <2>4
<1>3. ASSUME UninitializeIgnored
      PROVE  IInv'
  <2>1. Control'
    BY <1>3 DEF UninitializeIgnored, TypeOK, ThreadsOK, Control, InitSteps, UninitSteps
  <2>2. Sources'
    BY <1>3
       DEF UninitializeIgnored, TypeOK, ThreadsOK, Control, Sources, Waiting, InitSteps, UninitSteps
  <2>3. TypeOK'
    <3>1. ThreadsOK' /\ ContextOK'
      BY <1>3 DEF UninitializeIgnored, TypeOK, ThreadsOK, ContextOK, InitSteps, UninitSteps
    <3>2. ReaderOK' /\ LibraryOK'
      BY <1>3 DEF UninitializeIgnored, TypeOK, ReaderOK, LibraryOK
    <3>3. ClientOK'
      BY <1>3 DEF UninitializeIgnored, TypeOK, ClientOK
    <3> QED
      BY <3>1, <3>2, <3>3 DEF TypeOK
  <2>4. Follows'
    BY <1>3
       DEF UninitializeIgnored, TypeOK, ThreadsOK, Control, Sources, Waiting, Follows, Assigned,
           Notified, Settled, TaskFor, InitSteps, UninitSteps
  <2> QED
    BY <2>1, <2>2, <2>3, <2>4
<1>4. ASSUME Uninitialize
      PROVE  IInv'
  <2>1. Control'
    BY <1>4 DEF Uninitialize, TypeOK, ThreadsOK, Control, InitSteps, UninitSteps
  <2>2. Sources'
    BY <1>4, TaskSequences, AppendOnce
       DEF Uninitialize, TypeOK, ThreadsOK, Control, Sources, Waiting, InitSteps, UninitSteps
  <2>3. TypeOK'
    <3>1. "uninitialize" \in Tasks /\ tasks \in Seq(Tasks)
      BY DEF Tasks, TypeOK, ContextOK
    <3>2. Append(tasks, "uninitialize") \in Seq(Tasks)
      BY <3>1, AppendProperties
    <3>3. ThreadsOK' /\ ContextOK'
      BY <1>4, <3>2 DEF Uninitialize, TypeOK, ThreadsOK, ContextOK
    <3>4. ReaderOK' /\ LibraryOK'
      BY <1>4 DEF Uninitialize, TypeOK, ReaderOK, LibraryOK
    <3>5. ClientOK'
      BY <1>4 DEF Uninitialize, TypeOK, ClientOK
    <3> QED
      BY <3>3, <3>4, <3>5 DEF TypeOK
  <2>4. Follows'
    BY <1>4
       DEF Uninitialize, TypeOK, ThreadsOK, Control, Sources, Waiting, Follows, Assigned,
           Notified, Settled, TaskFor, InitSteps, UninitSteps
  <2> QED
    BY <2>1, <2>2, <2>3, <2>4
<1>5. ASSUME UninitializeJoins
      PROVE  IInv'
  <2>1. Control'
    BY <1>5 DEF UninitializeJoins, TypeOK, ThreadsOK, Control, InitSteps, UninitSteps
  <2>2. Sources'
    BY <1>5
       DEF UninitializeJoins, TypeOK, ThreadsOK, Control, Sources, Waiting, InitSteps, UninitSteps
  <2>3. TypeOK'
    <3>1. ThreadsOK' /\ ContextOK'
      BY <1>5 DEF UninitializeJoins, TypeOK, ThreadsOK, ContextOK, InitSteps, UninitSteps
    <3>2. ReaderOK' /\ LibraryOK'
      BY <1>5 DEF UninitializeJoins, TypeOK, ReaderOK, LibraryOK
    <3>3. ClientOK'
      BY <1>5 DEF UninitializeJoins, TypeOK, ClientOK
    <3> QED
      BY <3>1, <3>2, <3>3 DEF TypeOK
  <2>4. Follows'
    BY <1>5
       DEF UninitializeJoins, TypeOK, ThreadsOK, Control, Sources, Waiting, Follows, Assigned,
           Notified, Settled, TaskFor, InitSteps, UninitSteps
  <2> QED
    BY <2>1, <2>2, <2>3, <2>4
<1>6. ASSUME UninitializeReturns
      PROVE  IInv'
  <2>1. Control'
    BY <1>6 DEF UninitializeReturns, TypeOK, ThreadsOK, Control, InitSteps, UninitSteps
  <2>2. Sources'
    BY <1>6, TaskSequences, AppendOnce
       DEF UninitializeReturns, TypeOK, ThreadsOK, Control, Sources, Waiting, InitSteps, UninitSteps
  <2>3. TypeOK'
    <3>1. ThreadsOK' /\ ContextOK'
      BY <1>6 DEF UninitializeReturns, TypeOK, ThreadsOK, ContextOK, InitSteps, UninitSteps
    <3>2. ReaderOK' /\ LibraryOK'
      BY <1>6 DEF UninitializeReturns, TypeOK, ReaderOK, LibraryOK
    <3>3. ClientOK'
      BY <1>6 DEF UninitializeReturns, TypeOK, ClientOK
    <3> QED
      BY <3>1, <3>2, <3>3 DEF TypeOK
  <2>4. Follows'
    BY <1>6
       DEF UninitializeReturns, TypeOK, ThreadsOK, Control, Sources, Waiting, Follows, Assigned,
           Notified, Settled, TaskFor, InitSteps, UninitSteps
  <2> QED
    BY <2>1, <2>2, <2>3, <2>4
<1>7. ASSUME Iterate
      PROVE  IInv'
  <2>1. Control'
    BY <1>7 DEF Iterate, TypeOK, ThreadsOK, Control, InitSteps, UninitSteps
  <2>2. Sources'
    BY <1>7, TaskSequences, AppendOnce
       DEF Iterate, TypeOK, ThreadsOK, Control, Sources, Waiting, InitSteps, UninitSteps
  <2>3. TypeOK'
    <3>1. ThreadsOK' /\ ContextOK'
      BY <1>7 DEF Iterate, TypeOK, ThreadsOK, ContextOK, InitSteps, UninitSteps
    <3>2. ReaderOK' /\ LibraryOK'
      BY <1>7 DEF Iterate, TypeOK, ReaderOK, LibraryOK
    <3>3. ClientOK'
      BY <1>7 DEF Iterate, TypeOK, ClientOK
    <3> QED
      BY <3>1, <3>2, <3>3 DEF TypeOK
  <2>4. Follows'
    BY <1>7
       DEF Iterate, TypeOK, ThreadsOK, Control, Sources, Waiting, Follows, Assigned,
           Notified, Settled, TaskFor, InitSteps, UninitSteps
  <2> QED
    BY <2>1, <2>2, <2>3, <2>4
<1>8. ASSUME DispatchTTSTask
      PROVE  IInv'
  <2>1. /\ worker = "loop" /\ batch # <<>> /\ Head(batch) \in TTSTasks
        /\ batch' = Tail(batch)
        /\ UNCHANGED <<main, syncDone, abandoned, released, worker, tasks, quit,
                       initialized, serviceActive, clientVars, libraryVars, fault>>
    BY <1>8 DEF DispatchTTSTask, Dispatches, TTSTasks
  <2>2. \/ /\ Head(batch) = "ttsEnabled"
           /\ enabled' = TRUE /\ registrations' = 1
        \/ /\ Head(batch) = "ttsDisabled"
           /\ enabled' = FALSE /\ registrations' = 0
    BY <1>8, <1>e, <1>h, HandlersSetEnabled DEF DispatchTTSTask, Dispatches
  <2>3. Control'
    <3>1. registrations' = IF enabled' THEN 1 ELSE 0
      BY <2>2
    <3> QED
      BY <2>1, <3>1 DEF Control
  <2>4. Tail(batch) \in Seq(Tasks)
    BY <2>1, HeadTailProperties DEF TypeOK, ContextOK
  <2>5. Sources'
    <3>1. batch \in Seq(TTSTasks) => Tail(batch) \in Seq(TTSTasks)
      BY <2>1, TailTTS
    <3>2. Once(batch) => Once(Tail(batch))
      BY <2>1, TailOnce
    <3>3. batch # <<"initialize">>
      BY <2>1 DEF TTSTasks
    <3> QED
      BY <2>1, <3>1, <3>2, <3>3 DEF Sources, Waiting, InitSteps
  <2>6. TypeOK'
    <3>1. enabled' \in BOOLEAN /\ registrations' \in {0, 1}
      BY <2>2
    <3> QED
      BY <2>1, <2>4, <3>1
         DEF TypeOK, ThreadsOK, ContextOK, ReaderOK, ClientOK, LibraryOK
  <2>7. Follows'
    <3>1. /\ Tail(batch) # <<>> => LastOf(Tail(batch)) = LastOf(batch)
          /\ Tail(batch) = <<>> => LastOf(batch) = Head(batch)
      BY <2>1, LastOfTail DEF TypeOK, ContextOK
    <3>2. Settled(batch, tasks, enabled, ttsState)
             => Settled(batch', tasks, enabled', ttsState)
      <4>1. CASE ttsState = TRUE
        BY <2>1, <2>2, <3>1, <4>1 DEF Settled, TaskFor
      <4>2. CASE ttsState = FALSE
        BY <2>1, <2>2, <3>1, <4>2 DEF Settled, TaskFor
      <4> QED
        BY <1>e, <4>1, <4>2
    <3> QED
      BY <2>1, <3>2 DEF Follows, Assigned, Notified
  <2> QED
    BY <2>3, <2>5, <2>6, <2>7
<1>9. ASSUME DispatchSyncTask
      PROVE  IInv'
  <2>1. /\ worker = "loop" /\ batch # <<>> /\ batch' = Tail(batch)
        /\ \/ Head(batch) = "initialize" /\ worker' = "create"
           \/ Head(batch) = "uninitialize" /\ worker' = "stop"
        /\ UNCHANGED <<main, syncDone, abandoned, released, tasks, quit,
                       readerVars, clientVars, libraryVars, fault>>
    BY <1>9 DEF DispatchSyncTask, Dispatches
  <2>2. batch \notin Seq(TTSTasks)
    BY <2>1, TailTTS DEF TTSTasks
  <2>3. Waiting /\ main # "join"
    BY <2>2 DEF Sources
  <2>4. \/ /\ main = "initWait" /\ batch = <<"initialize">> /\ tasks = <<>>
           /\ worker' = "create"
        \/ /\ main = "uninitWait" /\ Once(batch) /\ tasks \in Seq(TTSTasks)
           /\ worker' = "stop"
    <3>1. CASE main = "initWait"
      BY <2>1, <2>2, <2>3, <3>1 DEF Sources
    <3>2. CASE main = "uninitWait"
      <4>1. Once(batch) /\ tasks \in Seq(TTSTasks)
        BY <2>2, <2>3, <3>2 DEF Sources
      <4> QED
        BY <2>1, <3>2, <4>1, TailOnce DEF TTSTasks
    <3> QED
      BY <2>3, <3>1, <3>2 DEF Waiting, TypeOK, ThreadsOK
  <2>5. batch' \in Seq(TTSTasks)
        /\ (worker' = "create" => batch' = <<>>)
    <3>1. CASE batch = <<"initialize">>
      <4>1. Tail(<<"initialize">>) = <<>>
        OBVIOUS
      <4> QED
        BY <2>1, <2>4, <3>1, <4>1, TaskSequences
    <3>2. CASE worker' = "stop" /\ Once(batch)
      BY <2>1, <3>2, TailOnce
    <3> QED
      BY <2>4, <3>1, <3>2
  <2>6. Control'
    BY <2>1, <2>3, <2>4 DEF Control, Waiting, InitSteps, UninitSteps
  <2>7. Sources'
    BY <2>1, <2>4, <2>5, TaskSequences DEF Sources, Waiting, InitSteps, UninitSteps
  <2>8. TypeOK'
    BY <2>1, <2>5, TaskSequences
       DEF TypeOK, ThreadsOK, ContextOK, ReaderOK, ClientOK, LibraryOK,
           InitSteps, UninitSteps
  <2>9. Follows'
    BY <2>1, <2>4 DEF Follows, Assigned, Notified
  <2> QED
    BY <2>6, <2>7, <2>8, <2>9
<1>10. ASSUME ThreadEnds
      PROVE  IInv'
  <2>1. Control'
    BY <1>10 DEF ThreadEnds, TypeOK, ThreadsOK, Control, InitSteps, UninitSteps
  <2>2. Sources'
    BY <1>10
       DEF ThreadEnds, TypeOK, ThreadsOK, Control, Sources, Waiting, InitSteps, UninitSteps
  <2>3. TypeOK'
    <3>1. ThreadsOK' /\ ContextOK'
      BY <1>10 DEF ThreadEnds, TypeOK, ThreadsOK, ContextOK, InitSteps, UninitSteps
    <3>2. ReaderOK' /\ LibraryOK'
      BY <1>10 DEF ThreadEnds, TypeOK, ReaderOK, LibraryOK
    <3>3. ClientOK'
      BY <1>10 DEF ThreadEnds, TypeOK, ClientOK
    <3> QED
      BY <3>1, <3>2, <3>3 DEF TypeOK
  <2>4. Follows'
    BY <1>10
       DEF ThreadEnds, TypeOK, ThreadsOK, Control, Sources, Waiting, Follows, Assigned,
           Notified, Settled, TaskFor, InitSteps, UninitSteps
  <2> QED
    BY <2>1, <2>2, <2>3, <2>4
<1>11. ASSUME InitFails
      PROVE  IInv'
  <2>1. Control'
    BY <1>11 DEF InitFails, TypeOK, ThreadsOK, Control, InitSteps, UninitSteps
  <2>2. Sources'
    BY <1>11
       DEF InitFails, TypeOK, ThreadsOK, Control, Sources, Waiting, InitSteps, UninitSteps
  <2>3. TypeOK'
    <3>1. ThreadsOK' /\ ContextOK'
      BY <1>11 DEF InitFails, TypeOK, ThreadsOK, ContextOK, InitSteps, UninitSteps
    <3>2. ReaderOK' /\ LibraryOK'
      BY <1>11 DEF InitFails, TypeOK, ReaderOK, LibraryOK
    <3>3. ClientOK'
      BY <1>11 DEF InitFails, TypeOK, ClientOK
    <3> QED
      BY <3>1, <3>2, <3>3 DEF TypeOK
  <2>4. Follows'
    BY <1>11
       DEF InitFails, TypeOK, ThreadsOK, Control, Sources, Waiting, Follows, Assigned,
           Notified, Settled, TaskFor, InitSteps, UninitSteps
  <2> QED
    BY <2>1, <2>2, <2>3, <2>4
<1>12. ASSUME InitCreatesClient
      PROVE  IInv'
  <2>1. Control'
    BY <1>12 DEF InitCreatesClient, TypeOK, ThreadsOK, Control, InitSteps, UninitSteps
  <2>2. Sources'
    BY <1>12
       DEF InitCreatesClient, TypeOK, ThreadsOK, Control, Sources, Waiting, InitSteps, UninitSteps
  <2>3. TypeOK'
    <3>1. ThreadsOK' /\ ContextOK'
      BY <1>12 DEF InitCreatesClient, TypeOK, ThreadsOK, ContextOK, InitSteps, UninitSteps
    <3>2. ReaderOK' /\ LibraryOK'
      BY <1>12 DEF InitCreatesClient, TypeOK, ReaderOK, LibraryOK
    <3>3. ClientOK'
      BY <1>12 DEF InitCreatesClient, TypeOK, ClientOK
    <3> QED
      BY <3>1, <3>2, <3>3 DEF TypeOK
  <2>4. Follows'
    BY <1>12
       DEF InitCreatesClient, TypeOK, ThreadsOK, Control, Sources, Waiting, Follows, Assigned,
           Notified, Settled, TaskFor, InitSteps, UninitSteps
  <2> QED
    BY <2>1, <2>2, <2>3, <2>4
<1>13. ASSUME InitQueriesState
      PROVE  IInv'
  <2>1. Control'
    BY <1>13 DEF InitQueriesState, TypeOK, ThreadsOK, Control, InitSteps, UninitSteps
  <2>2. Sources'
    BY <1>13
       DEF InitQueriesState, TypeOK, ThreadsOK, Control, Sources, Waiting, InitSteps, UninitSteps
  <2>3. TypeOK'
    <3>1. ThreadsOK' /\ ContextOK'
      BY <1>13 DEF InitQueriesState, TypeOK, ThreadsOK, ContextOK, InitSteps, UninitSteps
    <3>2. ReaderOK' /\ LibraryOK'
      BY <1>13 DEF InitQueriesState, TypeOK, ReaderOK, LibraryOK
    <3>3. ClientOK'
      BY <1>e, <1>13 DEF InitQueriesState, TypeOK, ClientOK
    <3> QED
      BY <3>1, <3>2, <3>3 DEF TypeOK
  <2>4. Follows'
    BY <1>13
       DEF InitQueriesState, TypeOK, ThreadsOK, Control, Sources, Waiting, Follows, Assigned,
           Notified, Settled, TaskFor, InitSteps, UninitSteps
  <2> QED
    BY <2>1, <2>2, <2>3, <2>4
<1>14. ASSUME InitAssignsState
      PROVE  IInv'
  <2>1. Control'
    BY <1>14 DEF InitAssignsState, TypeOK, ThreadsOK, Control, InitSteps, UninitSteps
  <2>2. Sources'
    BY <1>14
       DEF InitAssignsState, TypeOK, ThreadsOK, Control, Sources, Waiting, InitSteps, UninitSteps
  <2>3. TypeOK'
    <3>1. ThreadsOK' /\ ContextOK'
      BY <1>14 DEF InitAssignsState, TypeOK, ThreadsOK, ContextOK, InitSteps, UninitSteps
    <3>2. ReaderOK' /\ LibraryOK'
      BY <1>14 DEF InitAssignsState, TypeOK, ReaderOK, LibraryOK
    <3>3. ClientOK'
      BY <1>14 DEF InitAssignsState, TypeOK, ClientOK
    <3> QED
      BY <3>1, <3>2, <3>3 DEF TypeOK
  <2>4. Follows'
    BY <1>14
       DEF InitAssignsState, TypeOK, ThreadsOK, Control, Sources, Waiting, Follows, Assigned,
           Notified, Settled, TaskFor, InitSteps, UninitSteps
  <2> QED
    BY <2>1, <2>2, <2>3, <2>4
<1>15. ASSUME InitRegistersListener
      PROVE  IInv'
  <2>1. Control'
    BY <1>15 DEF InitRegistersListener, TypeOK, ThreadsOK, Control, InitSteps, UninitSteps
  <2>2. Sources'
    BY <1>15
       DEF InitRegistersListener, TypeOK, ThreadsOK, Control, Sources, Waiting, InitSteps, UninitSteps
  <2>3. TypeOK'
    <3>1. ThreadsOK' /\ ContextOK'
      BY <1>15 DEF InitRegistersListener, TypeOK, ThreadsOK, ContextOK, InitSteps, UninitSteps
    <3>2. ReaderOK' /\ LibraryOK'
      BY <1>15 DEF InitRegistersListener, TypeOK, ReaderOK, LibraryOK
    <3>3. ClientOK'
      BY <1>15 DEF InitRegistersListener, TypeOK, ClientOK
    <3> QED
      BY <3>1, <3>2, <3>3 DEF TypeOK
  <2>4. Follows'
    BY <1>15
       DEF InitRegistersListener, TypeOK, ThreadsOK, Control, Sources, Waiting, Follows, Assigned,
           Notified, Settled, TaskFor, InitSteps, UninitSteps
  <2> QED
    BY <2>1, <2>2, <2>3, <2>4
<1>16. ASSUME InitNotifiesListener
      PROVE  IInv'
  <2>1. /\ worker = "notify" /\ worker' = "check"
        /\ UNCHANGED <<main, syncDone, abandoned, released, contextVars,
                       initialized, serviceActive, clientVars, libraryVars, fault>>
    BY <1>16 DEF InitNotifiesListener
  <2>2. enabled' = ttsEnabled /\ registrations' = IF ttsEnabled THEN 1 ELSE 0
    BY <1>16, <1>e, <1>h, HandlersSetEnabled DEF InitNotifiesListener
  <2>3. Control'
    BY <2>1, <2>2 DEF Control, InitSteps, UninitSteps
  <2>4. Sources'
    BY <2>1 DEF Sources, Waiting, InitSteps
  <2>5. TypeOK'
    BY <1>e, <2>1, <2>2
       DEF TypeOK, ThreadsOK, ContextOK, ReaderOK, ClientOK, LibraryOK,
           InitSteps
  <2>6. Follows'
    BY <2>1, <2>2
       DEF Sources, Follows, Assigned, Notified, Settled, InitSteps
  <2> QED
    BY <2>3, <2>4, <2>5, <2>6
<1>17. ASSUME InitChecksEnabled
      PROVE  IInv'
  <2>1. /\ worker = "check" /\ worker' = "start"
        /\ UNCHANGED <<main, syncDone, abandoned, released, contextVars,
                       initialized, serviceActive, clientVars, libraryVars, fault>>
    BY <1>17 DEF InitChecksEnabled
  <2>2. /\ enabled' = (enabled \/ ttsEnabled)
        /\ registrations' = IF enabled' THEN 1 ELSE 0
    <3>1. CASE ttsEnabled = TRUE
      BY <1>17, <1>e, <1>h, <3>1, HandlersSetEnabled DEF InitChecksEnabled
    <3>2. CASE ttsEnabled = FALSE
      BY <1>17, <1>e, <1>h, <3>2 DEF InitChecksEnabled
    <3> QED
      BY <1>e, <3>1, <3>2
  <2>3. Control'
    BY <2>1, <2>2 DEF Control, InitSteps, UninitSteps
  <2>4. Sources'
    BY <2>1 DEF Sources, Waiting, InitSteps
  <2>5. TypeOK'
    BY <1>e, <2>1, <2>2
       DEF TypeOK, ThreadsOK, ContextOK, ReaderOK, ClientOK, LibraryOK,
           InitSteps
  <2>6. Follows'
    <3>1. ASSUME ~overwritten, notifier = "idle"
          PROVE  Settled(batch, tasks, enabled', ttsState)
      <4>1. ttsEnabled = ttsState /\ Settled(batch, tasks, enabled, ttsState)
        BY <2>1, <3>1 DEF Follows, Assigned, Notified
      <4> QED
        BY <1>e, <2>2, <4>1 DEF Settled
    <3> QED
      BY <2>1, <3>1 DEF Follows, Assigned, Notified
  <2> QED
    BY <2>3, <2>4, <2>5, <2>6
<1>18. ASSUME InitStartsService
      PROVE  IInv'
  <2>1. Control'
    BY <1>18 DEF InitStartsService, TypeOK, ThreadsOK, Control, InitSteps, UninitSteps
  <2>2. Sources'
    BY <1>18
       DEF InitStartsService, TypeOK, ThreadsOK, Control, Sources, Waiting, InitSteps, UninitSteps
  <2>3. TypeOK'
    <3>1. ThreadsOK' /\ ContextOK'
      BY <1>18 DEF InitStartsService, TypeOK, ThreadsOK, ContextOK, InitSteps, UninitSteps
    <3>2. ReaderOK' /\ LibraryOK'
      BY <1>18 DEF InitStartsService, TypeOK, ReaderOK, LibraryOK
    <3>3. ClientOK'
      BY <1>18 DEF InitStartsService, TypeOK, ClientOK
    <3> QED
      BY <3>1, <3>2, <3>3 DEF TypeOK
  <2>4. Follows'
    BY <1>18
       DEF InitStartsService, TypeOK, ThreadsOK, Control, Sources, Waiting, Follows, Assigned,
           Notified, Settled, TaskFor, InitSteps, UninitSteps
  <2> QED
    BY <2>1, <2>2, <2>3, <2>4
<1>19. ASSUME UninitStopsService
      PROVE  IInv'
  <2>0. enabled' \in BOOLEAN /\ registrations' = IF enabled' THEN 1 ELSE 0
    BY <1>19, <1>e, <1>h, HandlersSetEnabled DEF UninitStopsService
  <2>1. Control'
    BY <1>19, <2>0 DEF UninitStopsService, TypeOK, ThreadsOK, Control, InitSteps, UninitSteps
  <2>2. Sources'
    BY <1>19
       DEF UninitStopsService, TypeOK, ThreadsOK, Control, Sources, Waiting, InitSteps, UninitSteps
  <2>3. TypeOK'
    <3>1. ThreadsOK' /\ ContextOK'
      BY <1>19 DEF UninitStopsService, TypeOK, ThreadsOK, ContextOK, InitSteps, UninitSteps
    <3>2. ReaderOK' /\ ClientOK' /\ LibraryOK'
      BY <1>19, <2>0 DEF UninitStopsService, TypeOK, ReaderOK, ClientOK, LibraryOK
    <3> QED
      BY <3>1, <3>2 DEF TypeOK
  <2>4. Follows'
    BY <1>19, <2>0
       DEF UninitStopsService, TypeOK, ThreadsOK, Control, Sources, Waiting, Follows, Assigned,
           Notified, Settled, TaskFor, InitSteps, UninitSteps
  <2> QED
    BY <2>1, <2>2, <2>3, <2>4
<1>20. ASSUME UninitUnregistersListener
      PROVE  IInv'
  <2>1. Control'
    BY <1>20 DEF UninitUnregistersListener, TypeOK, ThreadsOK, Control, InitSteps, UninitSteps
  <2>2. Sources'
    BY <1>20
       DEF UninitUnregistersListener, TypeOK, ThreadsOK, Control, Sources, Waiting, InitSteps, UninitSteps
  <2>3. TypeOK'
    <3>1. ThreadsOK' /\ ContextOK'
      BY <1>20 DEF UninitUnregistersListener, TypeOK, ThreadsOK, ContextOK, InitSteps, UninitSteps
    <3>2. ReaderOK' /\ LibraryOK'
      BY <1>20 DEF UninitUnregistersListener, TypeOK, ReaderOK, LibraryOK
    <3>3. ClientOK'
      BY <1>20 DEF UninitUnregistersListener, TypeOK, ClientOK
    <3> QED
      BY <3>1, <3>2, <3>3 DEF TypeOK
  <2>4. Follows'
    BY <1>20
       DEF UninitUnregistersListener, TypeOK, ThreadsOK, Control, Sources, Waiting, Follows, Assigned,
           Notified, Settled, TaskFor, InitSteps, UninitSteps
  <2> QED
    BY <2>1, <2>2, <2>3, <2>4
<1>21. ASSUME UninitDeletesClient
      PROVE  IInv'
  <2>1. Control'
    BY <1>21 DEF UninitDeletesClient, TypeOK, ThreadsOK, Control, InitSteps, UninitSteps
  <2>2. Sources'
    BY <1>21
       DEF UninitDeletesClient, TypeOK, ThreadsOK, Control, Sources, Waiting, InitSteps, UninitSteps
  <2>3. TypeOK'
    <3>1. ThreadsOK' /\ ContextOK'
      BY <1>21 DEF UninitDeletesClient, TypeOK, ThreadsOK, ContextOK, InitSteps, UninitSteps
    <3>2. ReaderOK' /\ LibraryOK'
      BY <1>21 DEF UninitDeletesClient, TypeOK, ReaderOK, LibraryOK
    <3>3. ClientOK'
      BY <1>21 DEF UninitDeletesClient, TypeOK, ClientOK
    <3> QED
      BY <3>1, <3>2, <3>3 DEF TypeOK
  <2>4. Follows'
    BY <1>21
       DEF UninitDeletesClient, TypeOK, ThreadsOK, Control, Sources, Waiting, Follows, Assigned,
           Notified, Settled, TaskFor, InitSteps, UninitSteps
  <2> QED
    BY <2>1, <2>2, <2>3, <2>4
<1>22. ASSUME UninitClientDeleted
      PROVE  IInv'
  <2>1. Control'
    BY <1>22 DEF UninitClientDeleted, TypeOK, ThreadsOK, Control, InitSteps, UninitSteps
  <2>2. Sources'
    BY <1>22
       DEF UninitClientDeleted, TypeOK, ThreadsOK, Control, Sources, Waiting, InitSteps, UninitSteps
  <2>3. TypeOK'
    <3>1. ThreadsOK' /\ ContextOK'
      BY <1>22 DEF UninitClientDeleted, TypeOK, ThreadsOK, ContextOK, InitSteps, UninitSteps
    <3>2. ReaderOK' /\ LibraryOK'
      BY <1>22 DEF UninitClientDeleted, TypeOK, ReaderOK, LibraryOK
    <3>3. ClientOK'
      BY <1>22 DEF UninitClientDeleted, TypeOK, ClientOK
    <3> QED
      BY <3>1, <3>2, <3>3 DEF TypeOK
  <2>4. Follows'
    BY <1>22
       DEF UninitClientDeleted, TypeOK, ThreadsOK, Control, Sources, Waiting, Follows, Assigned,
           Notified, Settled, TaskFor, InitSteps, UninitSteps
  <2> QED
    BY <2>1, <2>2, <2>3, <2>4
<1>23. ASSUME UninitQuitsLoop
      PROVE  IInv'
  <2>1. Control'
    BY <1>23 DEF UninitQuitsLoop, TypeOK, ThreadsOK, Control, InitSteps, UninitSteps
  <2>2. Sources'
    BY <1>23
       DEF UninitQuitsLoop, TypeOK, ThreadsOK, Control, Sources, Waiting, InitSteps, UninitSteps
  <2>3. TypeOK'
    <3>1. ThreadsOK' /\ ContextOK'
      BY <1>23 DEF UninitQuitsLoop, TypeOK, ThreadsOK, ContextOK, InitSteps, UninitSteps
    <3>2. ReaderOK' /\ LibraryOK'
      BY <1>23 DEF UninitQuitsLoop, TypeOK, ReaderOK, LibraryOK
    <3>3. ClientOK'
      BY <1>23 DEF UninitQuitsLoop, TypeOK, ClientOK
    <3> QED
      BY <3>1, <3>2, <3>3 DEF TypeOK
  <2>4. Follows'
    BY <1>23
       DEF UninitQuitsLoop, TypeOK, ThreadsOK, Control, Sources, Waiting, Follows, Assigned,
           Notified, Settled, TaskFor, InitSteps, UninitSteps
  <2> QED
    BY <2>1, <2>2, <2>3, <2>4
<1>24. ASSUME NotifierStoresState
      PROVE  IInv'
  <2>1. Control'
    BY <1>24 DEF NotifierStoresState, TypeOK, ThreadsOK, Control, InitSteps, UninitSteps
  <2>2. Sources'
    BY <1>24
       DEF NotifierStoresState, TypeOK, ThreadsOK, Control, Sources, Waiting, InitSteps, UninitSteps
  <2>3. TypeOK'
    <3>1. ThreadsOK' /\ ContextOK'
      BY <1>24 DEF NotifierStoresState, TypeOK, ThreadsOK, ContextOK, InitSteps, UninitSteps
    <3>2. ReaderOK' /\ LibraryOK'
      BY <1>24 DEF NotifierStoresState, TypeOK, ReaderOK, LibraryOK
    <3>3. ClientOK'
      BY <1>e, <1>24 DEF NotifierStoresState, TypeOK, ClientOK
    <3> QED
      BY <3>1, <3>2, <3>3 DEF TypeOK
  <2>4. Follows'
    BY <1>24
       DEF NotifierStoresState, TypeOK, ThreadsOK, Control, Sources, Waiting, Follows, Assigned,
           Notified, Settled, TaskFor, InitSteps, UninitSteps
  <2> QED
    BY <2>1, <2>2, <2>3, <2>4
<1>25. ASSUME NotifierChecksListener
      PROVE  IInv'
  <2>1. Control'
    BY <1>25 DEF NotifierChecksListener, TypeOK, ThreadsOK, Control, InitSteps, UninitSteps
  <2>2. Sources'
    BY <1>25
       DEF NotifierChecksListener, TypeOK, ThreadsOK, Control, Sources, Waiting, InitSteps, UninitSteps
  <2>3. TypeOK'
    <3>1. ThreadsOK' /\ ContextOK'
      BY <1>25 DEF NotifierChecksListener, TypeOK, ThreadsOK, ContextOK, InitSteps, UninitSteps
    <3>2. ReaderOK' /\ LibraryOK'
      BY <1>25 DEF NotifierChecksListener, TypeOK, ReaderOK, LibraryOK
    <3>3. ClientOK'
      BY <1>25 DEF NotifierChecksListener, TypeOK, ClientOK
    <3> QED
      BY <3>1, <3>2, <3>3 DEF TypeOK
  <2>4. Follows'
    BY <1>25
       DEF NotifierChecksListener, TypeOK, ThreadsOK, Control, Sources, Waiting, Follows, Assigned,
           Notified, Settled, TaskFor, InitSteps, UninitSteps
  <2> QED
    BY <2>1, <2>2, <2>3, <2>4
<1>26. ASSUME NotifierCallsListener
      PROVE  IInv'
  <2> DEFINE task == TaskFor(ttsState)
  <2>1. /\ notifier = "call" /\ notifier' = "idle"
        /\ fault' = ~listener
        /\ tasks' = IF listener THEN Append(tasks, task) ELSE tasks
        /\ UNCHANGED <<main, syncDone, abandoned, released, worker, batch, quit,
                       readerVars, clientVars, ttsState>>
    BY <1>26 DEF NotifierCallsListener, TaskFor
  <2>2. task \in TTSTasks /\ task \in Tasks
    BY DEF TaskFor, TTSTasks, Tasks
  <2>3. Control'
    BY <2>1 DEF Control
  <2>4. Sources'
    <3>1. tasks \in Seq(TTSTasks) => Append(tasks, task) \in Seq(TTSTasks)
      BY <2>2, AppendProperties
    <3>2. Once(tasks) => Once(Append(tasks, task))
      BY <2>2, AppendOnce
    <3>3. main = "initWait" /\ worker = "loop" /\ ~syncDone => ~listener
      BY DEF Control
    <3>4. worker \in {"create", "query", "assign", "register"} => ~listener
      BY DEF Control, InitSteps
    <3> QED
      BY <2>1, <3>1, <3>2, <3>3, <3>4 DEF Sources, Waiting
  <2>5. TypeOK'
    <3>1. Append(tasks, task) \in Seq(Tasks)
      BY <2>2, AppendProperties DEF TypeOK, ContextOK
    <3> QED
      BY <2>1, <3>1
         DEF TypeOK, ThreadsOK, ContextOK, ReaderOK, ClientOK, LibraryOK
  <2>6. Follows'
    <3>1. Append(tasks, task) # <<>> /\ LastOf(Append(tasks, task)) = task
      BY <2>2, LastOfAppend DEF TypeOK, ContextOK
    <3>2. Notified \/ worker = "notify" => listener
      BY DEF Control, Notified, UninitSteps
    <3> QED
      BY <2>1, <3>1, <3>2 DEF Follows, Assigned, Notified, Settled
  <2> QED
    BY <2>3, <2>4, <2>5, <2>6
<1>27. ASSUME TTSStateChanges
      PROVE  IInv'
  <2>1. Control'
    BY <1>27 DEF TTSStateChanges, TypeOK, ThreadsOK, Control, InitSteps, UninitSteps
  <2>2. Sources'
    BY <1>27
       DEF TTSStateChanges, TypeOK, ThreadsOK, Control, Sources, Waiting, InitSteps, UninitSteps
  <2>3. TypeOK'
    <3>1. ThreadsOK' /\ ContextOK'
      BY <1>27 DEF TTSStateChanges, TypeOK, ThreadsOK, ContextOK, InitSteps, UninitSteps
    <3>2. ReaderOK' /\ LibraryOK'
      BY <1>27 DEF TTSStateChanges, TypeOK, ReaderOK, LibraryOK
    <3>3. ClientOK'
      BY <1>27 DEF TTSStateChanges, TypeOK, ClientOK
    <3> QED
      BY <3>1, <3>2, <3>3 DEF TypeOK
  <2>4. Follows'
    BY <1>27
       DEF TTSStateChanges, TypeOK, ThreadsOK, Control, Sources, Waiting, Follows, Assigned,
           Notified, Settled, TaskFor, InitSteps, UninitSteps
  <2> QED
    BY <2>1, <2>2, <2>3, <2>4
<1> QED
  BY <1>0, <1>1, <1>2, <1>3, <1>4, <1>5, <1>6, <1>7, <1>8, <1>9, <1>10, <1>11, <1>12, <1>13, <1>14, <1>15, <1>16, <1>17, <1>18, <1>19, <1>20, <1>21, <1>22, <1>23, <1>24, <1>25, <1>26, <1>27
     DEF Next, Main, Worker, Callback, Terminated

\* The invariant holds in every reachable state.
THEOREM InvariantCorrect == Spec => []IInv
<1>1. Init => IInv
  <2> SUFFICES ASSUME Init
               PROVE  IInv
    OBVIOUS
  <2>1. TypeOK /\ Sources
    BY TaskSequences
       DEF Init, TypeOK, ThreadsOK, ContextOK, ReaderOK, ClientOK, LibraryOK,
           Sources, Waiting, InitSteps
  <2>2. Control
    BY DEF Init, Control, InitSteps, UninitSteps
  <2>3. Follows
    BY DEF Init, Follows, Assigned, Notified
  <2> QED
    BY <2>1, <2>2, <2>3 DEF IInv
<1> QED
  BY <1>1, InvariantStep, PTL DEF Spec

\* Every variable keeps its type, and no event is ever registered twice
\* (registerEventListener asserts that it is not).
THEOREM TypeCorrect == Spec => []TypeOK
<1>1. IInv => TypeOK
  BY DEF IInv
<1> QED
  BY <1>1, InvariantCorrect, PTL

\* When initialize or uninitialize returns, its task on the worker is over.
THEOREM CallsCorrect == Spec => []CallsReturnCompleted
<1>1. IInv => CallsReturnCompleted
  <2> SUFFICES ASSUME IInv, main = "idle"
               PROVE  CallsReturnCompleted
    BY DEF CallsReturnCompleted
  <2>1. worker \in {"none", "loop"}
    BY DEF IInv, TypeOK, ThreadsOK, Control, InitSteps, UninitSteps
  <2>2. /\ initialized \in BOOLEAN /\ serviceActive \in BOOLEAN
        /\ client \in BOOLEAN /\ listener \in BOOLEAN /\ quit \in BOOLEAN
    BY DEF IInv, TypeOK, ContextOK, ReaderOK, ClientOK
  <2>3. serviceActive => initialized
    BY <2>1, <2>2 DEF IInv, Control, InitSteps, UninitSteps
  <2>4. client = initialized /\ listener = initialized
    BY <2>1, <2>2 DEF IInv, Control, InitSteps, UninitSteps
  <2>5. initialized => worker = "loop" /\ ~quit
    BY <2>1, <2>2 DEF IInv, Control, InitSteps, UninitSteps
  <2> QED
    BY <2>1, <2>3, <2>4, <2>5 DEF CallsReturnCompleted
<1> QED
  BY <1>1, InvariantCorrect, PTL

\* The reader listens for events exactly while TTS is enabled, once nothing is
\* under way and unless initialize overwrote a change.
THEOREM ReaderFollowsCorrect == Spec => []ReaderFollowsChanges
<1>1. IInv => ReaderFollowsChanges
  BY DEF IInv, TypeOK, ThreadsOK, ReaderOK, Control, Follows, Notified, Settled, Quiet,
     ReaderFollowsChanges, InitSteps, UninitSteps
<1> QED
  BY <1>1, InvariantCorrect, PTL

----------------------------------------------------------------------------
\* The steps that the caller can tell apart; to the others it is blind.
LEMMA PromiseStep ==
    IInv /\ [Next]_vars => [Promise!Next]_(Promise!vars)
<1> SUFFICES ASSUME IInv, [Next]_vars
             PROVE  Promise!Next \/ UNCHANGED Promise!vars
  OBVIOUS
<1> USE DEF mainVars, contextVars, readerVars, clientVars, libraryVars
<1> DEFINE Same == /\ Call' = Call
                   /\ Progress' = Progress
                   /\ UNCHANGED <<initialized, serviceActive, fault>>
<1>s. ASSUME Same
      PROVE  UNCHANGED Promise!vars
  BY <1>s DEF Promise!vars
<1>c. Control /\ Sources /\ ThreadsOK
  BY DEF IInv, TypeOK
<1>0. CASE UNCHANGED vars
  <2>1. Same
    BY <1>0 DEF vars, Call, Progress
  <2> QED
    BY <1>s, <2>1
<1>1. CASE Initialize /\ ~fault
  <2>1. Call = "none" /\ Call' = "initialize" /\ Progress' = "asked" /\ ~initialized
    BY <1>1 DEF Initialize, Call, Progress
  <2>2. Promise!Call
    BY <1>1, <2>1 DEF Initialize, Promise!Call
  <2> QED
    BY <1>1, <2>2 DEF Promise!Next
<1>2. CASE InitializeReturns /\ ~fault
  <2>1. Progress = "done" /\ Call' = "none" /\ Progress' = "none"
    BY <1>2 DEF InitializeReturns, Call, Progress
  <2>2. Promise!Return
    BY <1>2, <2>1 DEF InitializeReturns, Promise!Return
  <2> QED
    BY <1>2, <2>2 DEF Promise!Next
<1>3. CASE UninitializeIgnored
  <2>1. Same
    BY <1>3 DEF UninitializeIgnored, Call, Progress
  <2> QED
    BY <1>s, <2>1
<1>4. CASE Uninitialize /\ ~fault
  <2>1. worker = "loop"
    BY <1>4, <1>c DEF Uninitialize, Control, ThreadsOK
  <2>2. Call = "none" /\ Call' = "uninitialize" /\ Progress' = "asked" /\ initialized
    BY <1>4, <2>1 DEF Uninitialize, Call, Progress
  <2>3. Promise!Call
    BY <1>4, <2>2 DEF Uninitialize, Promise!Call
  <2> QED
    BY <1>4, <2>3 DEF Promise!Next
<1>5. CASE UninitializeJoins
  <2>1. Same
    BY <1>5 DEF UninitializeJoins, Call, Progress
  <2> QED
    BY <1>s, <2>1
<1>6. CASE UninitializeReturns /\ ~fault
  <2>1. Progress = "done" /\ Call' = "none" /\ Progress' = "none"
    BY <1>6 DEF UninitializeReturns, Call, Progress
  <2>2. Promise!Return
    BY <1>6, <2>1 DEF UninitializeReturns, Promise!Return
  <2> QED
    BY <1>6, <2>2 DEF Promise!Next
<1>7. CASE Iterate \/ DispatchTTSTask
  <2>1. Same
    BY <1>7 DEF Iterate, DispatchTTSTask, Dispatches, Call, Progress
  <2> QED
    BY <1>s, <2>1
<1>8. CASE DispatchSyncTask /\ ~fault
  <2>1. batch # <<>> /\ Head(batch) \notin TTSTasks /\ worker = "loop"
    BY <1>8 DEF DispatchSyncTask, Dispatches, TTSTasks
  <2>2. batch \notin Seq(TTSTasks)
    BY <2>1, TailTTS
  <2>3. Waiting /\ main # "join"
    BY <1>c, <2>2 DEF Sources
  <2>4. main \in {"initWait", "uninitWait"} /\ ~syncDone
    BY <1>c, <2>3 DEF Waiting, ThreadsOK
  <2>5. /\ worker' # "loop"
        /\ UNCHANGED <<main, syncDone, initialized, serviceActive, fault>>
    BY <1>8 DEF DispatchSyncTask, Dispatches
  <2>6. Progress = "asked" /\ Progress' = "begun" /\ Call' = Call
    BY <2>1, <2>4, <2>5 DEF Progress, Call
  <2>7. Promise!Begin
    BY <2>5, <2>6 DEF Promise!Begin
  <2> QED
    BY <1>8, <2>7 DEF Promise!Next
<1>9. CASE ThreadEnds
  <2>1. main = "join" \/ (main = "uninitWait" /\ syncDone)
    BY <1>9, <1>c DEF ThreadEnds, Control, ThreadsOK
  <2>2. Same
    BY <1>9, <2>1 DEF ThreadEnds, Call, Progress
  <2> QED
    BY <1>s, <2>2
<1>10. CASE InitFails /\ ~fault
  <2>1. main = "initWait" /\ ~syncDone
    BY <1>10, <1>c DEF InitFails, Control, InitSteps
  <2>2. Call = "initialize" /\ Call' = Call /\ Progress = "begun" /\ Progress' = "done"
    BY <1>10, <2>1 DEF InitFails, Call, Progress
  <2>3. Promise!FailToInitialize
    BY <1>10, <2>2 DEF InitFails, Promise!FailToInitialize
  <2> QED
    BY <1>10, <2>3 DEF Promise!Next, Promise!Finish
<1>11. CASE InitStartsService /\ ~fault
  <2>1. main = "initWait" /\ ~syncDone
    BY <1>11, <1>c DEF InitStartsService, Control, InitSteps
  <2>2. Call = "initialize" /\ Call' = Call /\ Progress = "begun" /\ Progress' = "done"
    BY <1>11, <2>1 DEF InitStartsService, Call, Progress
  <2>3. Promise!BecomeInitialized
    BY <1>11, <2>2 DEF InitStartsService, Promise!BecomeInitialized
  <2> QED
    BY <1>11, <2>3 DEF Promise!Next, Promise!Finish
<1>12. CASE \/ InitCreatesClient \/ InitQueriesState \/ InitAssignsState
            \/ InitRegistersListener \/ InitNotifiesListener \/ InitChecksEnabled
  <2>1. main = "initWait" /\ ~syncDone
    BY <1>12, <1>c
       DEF InitCreatesClient, InitQueriesState, InitAssignsState, InitRegistersListener,
           InitNotifiesListener, InitChecksEnabled, Control, InitSteps
  <2>2. /\ worker # "loop" /\ worker' # "loop"
        /\ UNCHANGED <<main, syncDone, initialized, serviceActive, fault>>
    BY <1>12
       DEF InitCreatesClient, InitQueriesState, InitAssignsState, InitRegistersListener,
           InitNotifiesListener, InitChecksEnabled
  <2>3. Same
    BY <2>1, <2>2 DEF Call, Progress
  <2> QED
    BY <1>s, <2>3
<1>13. CASE UninitStopsService /\ ~fault
  <2>1. main = "uninitWait" /\ ~syncDone
    BY <1>13, <1>c DEF UninitStopsService, Control, UninitSteps
  <2>2. /\ Call = "uninitialize" /\ Call' = Call
        /\ Progress = "begun" /\ Progress' = Progress
    BY <1>13, <2>1 DEF UninitStopsService, Call, Progress
  <2>3. Promise!StopServing
    BY <1>13, <2>2 DEF UninitStopsService, Promise!StopServing
  <2> QED
    BY <1>13, <2>3 DEF Promise!Next, Promise!Finish
<1>14. CASE UninitUnregistersListener \/ UninitDeletesClient \/ UninitClientDeleted
  <2>1. main = "uninitWait" /\ ~syncDone
    BY <1>14, <1>c
       DEF UninitUnregistersListener, UninitDeletesClient, UninitClientDeleted, Control,
           UninitSteps
  <2>2. /\ worker # "loop" /\ worker' # "loop"
        /\ UNCHANGED <<main, syncDone, initialized, serviceActive, fault>>
    BY <1>14 DEF UninitUnregistersListener, UninitDeletesClient, UninitClientDeleted
  <2>3. Same
    BY <2>1, <2>2 DEF Call, Progress
  <2> QED
    BY <1>s, <2>3
<1>15. CASE UninitQuitsLoop /\ ~fault
  <2>1. main = "uninitWait" /\ ~syncDone /\ ~serviceActive
    BY <1>15, <1>c DEF UninitQuitsLoop, Control, UninitSteps
  <2>2. Call = "uninitialize" /\ Call' = Call /\ Progress = "begun" /\ Progress' = "done"
    BY <1>15, <2>1 DEF UninitQuitsLoop, Call, Progress
  <2>3. Promise!BecomeUninitialized
    BY <1>15, <2>1, <2>2 DEF UninitQuitsLoop, Promise!BecomeUninitialized
  <2> QED
    BY <1>15, <2>3 DEF Promise!Next, Promise!Finish
<1>16. CASE TTSStateChanges \/ NotifierStoresState \/ NotifierChecksListener
  <2>1. Same
    BY <1>16
       DEF TTSStateChanges, NotifierStoresState, NotifierChecksListener, Call, Progress
  <2> QED
    BY <1>s, <2>1
<1>17. CASE NotifierCallsListener /\ ~fault
  <2>1. /\ Call' = Call /\ Progress' = Progress
        /\ UNCHANGED <<initialized, serviceActive>>
    BY <1>17 DEF NotifierCallsListener, Call, Progress
  <2>2. fault' = TRUE \/ fault' = fault
    BY <1>17 DEF NotifierCallsListener, IInv, TypeOK, LibraryOK
  <2>3. CASE fault' = TRUE
    <3>1. Promise!EndProcess
      BY <2>1, <2>3 DEF Promise!EndProcess
    <3> QED
      BY <1>17, <3>1 DEF Promise!Next
  <2>4. CASE fault' = fault
    BY <1>s, <2>1, <2>4
  <2> QED
    BY <2>2, <2>3, <2>4
<1> QED
  BY <1>0, <1>1, <1>2, <1>3, <1>4, <1>5, <1>6, <1>7, <1>8, <1>9, <1>10, <1>11, <1>12,
     <1>13, <1>14, <1>15, <1>16, <1>17
     DEF Next, Main, Worker, Callback, Terminated

\* Every step of the three threads is a step of the reader without a worker, or
\* none: a call is carried out once, whole, and before it returns.
THEOREM StepsKeepPromise == Spec => Promise!Safe
<1>1. Init => Promise!Init
  BY DEF Init, Promise!Init, Call, Progress
<1> QED
  BY <1>1, PromiseStep, InvariantCorrect, PTL DEF Spec, Promise!Safe
=============================================================================
