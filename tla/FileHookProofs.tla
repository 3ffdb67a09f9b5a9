--------------------------- MODULE FileHookProofs ---------------------------
(***************************************************************************)
(* Machine-checked proofs about FileHook, for every set of applications,   *)
(* file types, versions and accounts, and any number of changes, failures  *)
(* and crashes: what a completed run leaves, and what a later run can go   *)
(* by.                                                                     *)
(***************************************************************************)
EXTENDS FileHook, TLAPS

(***************************************************************************)
(* The inductive invariant, part by part.                                  *)
(***************************************************************************)
\* No copy has a time later than the last change, every link has that of one.
TimesOK ==
  /\ \A f \in File : fileTime[f] <= changes
  /\ \A f \in File : hooks[f] # 0 => linkTime[f] >= 1 /\ linkTime[f] <= changes

\* A run looks at links that are there, once it has removed stale copies.
TodoOK ==
  /\ \A f \in todo : hooks[f] # 0
  /\ todo # {} => phase \in {"hooks", "write", "utime"}

\* The copy being made has no time yet, or is exposed; it is whole when it is
\* given one, or cut by a full disk.
CurOK ==
  /\ \A f, g \in cur : f = g
  /\ phase \in {"write", "utime"} =>
       \A f \in cur : hooks[f] # 0 /\ f \notin todo /\ (fileTime[f] = 0 \/ f \in exposed)
  /\ phase = "write" => \A f \in cur : f \in broken
  /\ phase = "utime" => \A f \in cur : files[f] = hooks[f] \/ CutUnseen(f)
  /\ phase = "accounts" => \A f \in cur : f.type = "provider" /\ hooks[f] = 0

\* Once removeStaleFiles is over no copy is without a link.
SweptOK ==
  (phase \in {"hooks", "write", "utime"} \/ (phase = "idle" /\ clean)) =>
    \A f \in File : hooks[f] = 0 => files[f] = 0

\* A run without a fault has made every copy it is done with.
DoneOK ==
  (clean /\ phase \in {"idle", "hooks", "write", "utime"}) =>
    \A f \in File \ (todo \union cur) :
      files[f] = hooks[f] \/ IsMalformed(f) \/ (hooks[f] # 0 /\ CutUnseen(f))

\* Without a fault, a provider that has accounts has its file, or its file is
\* being made, or its accounts are being removed.
ProviderFile(a) == [type |-> "provider", app |-> ProviderOf[a]]

ProviderKept ==
  faults = 0 =>
    \A a \in accounts :
      \/ files[ProviderFile(a)] # 0
      \/ phase \in {"accounts", "write"} /\ ProviderFile(a) \in cur

IInv ==
  /\ TypeOK /\ TimesOK /\ TodoOK /\ CurOK /\ SweptOK /\ DoneOK
  /\ UpToDateIsPublished /\ ProviderKept

-----------------------------------------------------------------------------
(***************************************************************************)
(* The steps.                                                              *)
(***************************************************************************)
LEMMA Bounds ==
  MaxChanges \in Nat /\ MaxFaults \in Nat /\ Version \subseteq Nat \ {0}
  BY FileHookAssumption

\* A failure is counted.
LEMMA FaultCounted ==
  ASSUME TypeOK, Fault
  PROVE  faults' \in 0..MaxFaults /\ faults' # 0 /\ clean' = FALSE
<1>1. faults' \in 0..MaxFaults /\ faults' # 0
  BY Bounds DEF TypeOK, Fault
<1> QED
  BY <1>1 DEF Fault

\* Every step keeps the types.
LEMMA TypeStep ==
  ASSUME TypeOK, [Next]_vars
  PROVE  TypeOK'
<1>1. ASSUME NEW f \in File, RemoveStaleFile(f)
      PROVE  TypeOK'
  BY <1>1, Bounds DEF RemoveStaleFile, TypeOK, hookVars, diskVars, Delete
<1>2. ASSUME NEW f \in File, SkipHook(f)
      PROVE  TypeOK'
  BY <1>2, Bounds DEF SkipHook, TypeOK, hookVars, diskVars
<1>3. ASSUME NEW f \in File, Open(f)
      PROVE  TypeOK'
  <2>1. clean' \in BOOLEAN /\ faults' \in 0..MaxFaults
    BY <1>3, FaultCounted DEF Open, TypeOK
  <2>2. /\ files' \in [File -> Version \union {0}]
        /\ broken' \subseteq File /\ exposed' \subseteq File
        /\ fileTime' \in [File -> 0..MaxChanges]
    BY <1>3, Bounds DEF Open, TypeOK, diskVars
  <2>3. /\ phase' \in {"hooks", "write", "utime"} /\ cur' \in SUBSET File /\ todo' \subseteq File
        /\ (phase' \in {"accounts", "write", "utime"}) = (cur' # {})
    BY <1>3 DEF Open, TypeOK
  <2> QED
    BY <1>3, <2>1, <2>2, <2>3 DEF Open, TypeOK, hookVars
<1>4. ASSUME NEW f \in File, WriteTo(f)
      PROVE  TypeOK'
  <2>1. clean' \in BOOLEAN /\ faults' \in 0..MaxFaults
    BY <1>4, FaultCounted DEF WriteTo, TypeOK
  <2>2. /\ files' \in [File -> Version \union {0}]
        /\ broken' \subseteq File /\ exposed' \subseteq File
        /\ fileTime' \in [File -> 0..MaxChanges]
    BY <1>4, Bounds DEF WriteTo, TypeOK, diskVars, Delete
  <2>3. /\ phase' \in {"hooks", "write", "utime"} /\ cur' \in SUBSET File /\ todo' \subseteq File
        /\ (phase' \in {"accounts", "write", "utime"}) = (cur' # {})
    BY <1>4 DEF WriteTo, TypeOK
  <2> QED
    BY <1>4, <2>1, <2>2, <2>3 DEF WriteTo, TypeOK, hookVars
<1>5. ASSUME NEW f \in File, SetTime(f)
      PROVE  TypeOK'
  BY <1>5, Bounds DEF SetTime, TypeOK, hookVars, diskVars
<1>6. ASSUME NEW f \in File, NEW v \in Version \union {0}, Link(f, v)
      PROVE  TypeOK'
  <2>1. clean' \in BOOLEAN
    BY <1>6, FaultCounted DEF Link
  <2> QED
    BY <1>6, <2>1, Bounds DEF Link, Fault, TypeOK, hookVars, diskVars
<1>7. ASSUME NEW a \in Account, CreateAccount(a)
      PROVE  TypeOK'
  BY <1>7, Bounds DEF CreateAccount, TypeOK, hookVars, diskVars
<1>8. CASE StartRun
  BY <1>8, Bounds DEF StartRun, TypeOK, hookVars, diskVars
<1>9. CASE RemoveStaleAccounts
  BY <1>9, Bounds DEF RemoveStaleAccounts, TypeOK, hookVars, diskVars
<1>10. CASE ListHooks
  BY <1>10, Bounds DEF ListHooks, TypeOK, hookVars, diskVars
<1>11. CASE EndRun
  BY <1>11, Bounds DEF EndRun, TypeOK, hookVars, diskVars
<1>12. CASE Crash
  <2>1. clean' \in BOOLEAN
    BY <1>12, FaultCounted DEF Crash
  <2> QED
    BY <1>12, <2>1, Bounds DEF Crash, Fault, TypeOK, hookVars, diskVars
<1>13. CASE UNCHANGED vars
  BY <1>13 DEF vars, TypeOK, hookVars, diskVars
<1> QED
  BY <1>1, <1>2, <1>3, <1>4, <1>5, <1>6, <1>7, <1>8, <1>9, <1>10, <1>11, <1>12, <1>13
  DEF Next

\* A link gets the time of a change that no copy has.
LEMMA TimesStep ==
  ASSUME TypeOK, TodoOK, CurOK, TimesOK, [Next]_vars
  PROVE  TimesOK'
<1>1. ASSUME NEW f \in File, RemoveStaleFile(f)
      PROVE  TimesOK'
  BY <1>1, Bounds
  DEF RemoveStaleFile, TypeOK, TodoOK, CurOK, TimesOK, hookVars, diskVars, Delete
<1>2. ASSUME NEW f \in File, SkipHook(f)
      PROVE  TimesOK'
  BY <1>2, Bounds DEF SkipHook, TypeOK, TodoOK, CurOK, TimesOK, hookVars, diskVars
<1>3. ASSUME NEW f \in File, Open(f)
      PROVE  TimesOK'
  BY <1>3, Bounds DEF Open, TypeOK, TodoOK, CurOK, TimesOK, hookVars, diskVars
<1>4. ASSUME NEW f \in File, WriteTo(f)
      PROVE  TimesOK'
  BY <1>4, Bounds DEF WriteTo, TypeOK, TodoOK, CurOK, TimesOK, hookVars, diskVars, Delete
<1>5. ASSUME NEW f \in File, SetTime(f)
      PROVE  TimesOK'
  BY <1>5, Bounds DEF SetTime, TypeOK, TodoOK, CurOK, TimesOK, hookVars, diskVars
<1>6. ASSUME NEW f \in File, NEW v \in Version \union {0}, Link(f, v)
      PROVE  TimesOK'
  BY <1>6, Bounds DEF Link, TypeOK, TodoOK, CurOK, TimesOK, hookVars, diskVars
<1>7. ASSUME NEW a \in Account, CreateAccount(a)
      PROVE  TimesOK'
  BY <1>7, Bounds DEF CreateAccount, TypeOK, TodoOK, CurOK, TimesOK, hookVars, diskVars
<1>8. CASE StartRun
  BY <1>8, Bounds DEF StartRun, TypeOK, TodoOK, CurOK, TimesOK, hookVars, diskVars
<1>9. CASE RemoveStaleAccounts
  BY <1>9, Bounds
  DEF RemoveStaleAccounts, TypeOK, TodoOK, CurOK, TimesOK, hookVars, diskVars
<1>10. CASE ListHooks
  BY <1>10, Bounds DEF ListHooks, TypeOK, TodoOK, CurOK, TimesOK, hookVars, diskVars
<1>11. CASE EndRun
  BY <1>11, Bounds DEF EndRun, TypeOK, TodoOK, CurOK, TimesOK, hookVars, diskVars
<1>12. CASE Crash
  BY <1>12, Bounds DEF Crash, TypeOK, TodoOK, CurOK, TimesOK, hookVars, diskVars
<1>13. CASE UNCHANGED vars
  BY <1>13 DEF vars, TimesOK, hookVars, diskVars
<1> QED
  BY <1>1, <1>2, <1>3, <1>4, <1>5, <1>6, <1>7, <1>8, <1>9, <1>10, <1>11, <1>12, <1>13
  DEF Next

\* Links are made and removed between the runs.
LEMMA TodoStep ==
  ASSUME TypeOK, TodoOK, [Next]_vars
  PROVE  TodoOK'
<1>1. ASSUME NEW f \in File, RemoveStaleFile(f)
      PROVE  TodoOK'
  BY <1>1, Bounds DEF RemoveStaleFile, TodoOK, TypeOK, hookVars, diskVars
<1>2. ASSUME NEW f \in File, SkipHook(f)
      PROVE  TodoOK'
  BY <1>2, Bounds DEF SkipHook, TodoOK, TypeOK, hookVars, diskVars
<1>3. ASSUME NEW f \in File, Open(f)
      PROVE  TodoOK'
  BY <1>3, Bounds DEF Open, TodoOK, TypeOK, hookVars, diskVars
<1>4. ASSUME NEW f \in File, WriteTo(f)
      PROVE  TodoOK'
  BY <1>4, Bounds DEF WriteTo, TodoOK, TypeOK, hookVars, diskVars
<1>5. ASSUME NEW f \in File, SetTime(f)
      PROVE  TodoOK'
  BY <1>5, Bounds DEF SetTime, TodoOK, TypeOK, hookVars, diskVars
<1>6. ASSUME NEW f \in File, NEW v \in Version \union {0}, Link(f, v)
      PROVE  TodoOK'
  BY <1>6, Bounds DEF Link, TodoOK, TypeOK, hookVars, diskVars
<1>7. ASSUME NEW a \in Account, CreateAccount(a)
      PROVE  TodoOK'
  BY <1>7, Bounds DEF CreateAccount, TodoOK, TypeOK, hookVars, diskVars
<1>8. CASE StartRun
  BY <1>8, Bounds DEF StartRun, TodoOK, TypeOK, hookVars, diskVars
<1>9. CASE RemoveStaleAccounts
  BY <1>9, Bounds DEF RemoveStaleAccounts, TodoOK, TypeOK, hookVars, diskVars
<1>10. CASE ListHooks
  BY <1>10, Bounds DEF ListHooks, TodoOK, TypeOK, hookVars, diskVars
<1>11. CASE EndRun
  BY <1>11, Bounds DEF EndRun, TodoOK, TypeOK, hookVars, diskVars
<1>12. CASE Crash
  BY <1>12, Bounds DEF Crash, TodoOK, TypeOK, hookVars, diskVars
<1>13. CASE UNCHANGED vars
  BY <1>13 DEF vars, TodoOK, TypeOK, hookVars, diskVars
<1> QED
  BY <1>1, <1>2, <1>3, <1>4, <1>5, <1>6, <1>7, <1>8, <1>9, <1>10, <1>11, <1>12, <1>13
  DEF Next

\* A copy is opened, written and given its time, one at a time.
LEMMA CurStep ==
  ASSUME TypeOK, TodoOK, CurOK, [Next]_vars
  PROVE  CurOK'
<1>1. ASSUME NEW f \in File, RemoveStaleFile(f)
      PROVE  CurOK'
  BY <1>1, Bounds
  DEF RemoveStaleFile, CurOK, CutUnseen, TypeOK, TodoOK, hookVars, diskVars, Delete, Stale
<1>2. ASSUME NEW f \in File, SkipHook(f)
      PROVE  CurOK'
  BY <1>2, Bounds DEF SkipHook, CurOK, CutUnseen, TypeOK, TodoOK, hookVars, diskVars
<1>3. ASSUME NEW f \in File, Open(f)
      PROVE  CurOK'
  BY <1>3, Bounds DEF Open, CurOK, CutUnseen, TypeOK, TodoOK, hookVars, diskVars
<1>4. ASSUME NEW f \in File, WriteTo(f)
      PROVE  CurOK'
  BY <1>4, Bounds DEF WriteTo, CurOK, CutUnseen, TypeOK, TodoOK, hookVars, diskVars, Delete
<1>5. ASSUME NEW f \in File, SetTime(f)
      PROVE  CurOK'
  BY <1>5, Bounds DEF SetTime, CurOK, CutUnseen, TypeOK, TodoOK, hookVars, diskVars
<1>6. ASSUME NEW f \in File, NEW v \in Version \union {0}, Link(f, v)
      PROVE  CurOK'
  BY <1>6, Bounds DEF Link, CurOK, CutUnseen, TypeOK, TodoOK, hookVars, diskVars
<1>7. ASSUME NEW a \in Account, CreateAccount(a)
      PROVE  CurOK'
  BY <1>7, Bounds DEF CreateAccount, CurOK, CutUnseen, TypeOK, TodoOK, hookVars, diskVars
<1>8. CASE StartRun
  BY <1>8, Bounds DEF StartRun, CurOK, CutUnseen, TypeOK, TodoOK, hookVars, diskVars
<1>9. CASE RemoveStaleAccounts
  BY <1>9, Bounds
  DEF RemoveStaleAccounts, CurOK, CutUnseen, TypeOK, TodoOK, hookVars, diskVars
<1>10. CASE ListHooks
  BY <1>10, Bounds DEF ListHooks, CurOK, CutUnseen, TypeOK, TodoOK, hookVars, diskVars
<1>11. CASE EndRun
  BY <1>11, Bounds DEF EndRun, CurOK, CutUnseen, TypeOK, TodoOK, hookVars, diskVars
<1>12. CASE Crash
  BY <1>12, Bounds DEF Crash, CurOK, CutUnseen, TypeOK, TodoOK, hookVars, diskVars
<1>13. CASE UNCHANGED vars
  BY <1>13 DEF vars, CurOK, CutUnseen, TypeOK, TodoOK, hookVars, diskVars
<1> QED
  BY <1>1, <1>2, <1>3, <1>4, <1>5, <1>6, <1>7, <1>8, <1>9, <1>10, <1>11, <1>12, <1>13
  DEF Next

\* removeStaleFiles ends when no copy is stale.
LEMMA SweptStep ==
  ASSUME TypeOK, TodoOK, CurOK, SweptOK, [Next]_vars
  PROVE  SweptOK'
<1>1. ASSUME NEW f \in File, RemoveStaleFile(f)
      PROVE  SweptOK'
  BY <1>1, Bounds
  DEF RemoveStaleFile, SweptOK, TypeOK, TodoOK, CurOK, hookVars, diskVars, Delete
<1>2. ASSUME NEW f \in File, SkipHook(f)
      PROVE  SweptOK'
  BY <1>2, Bounds DEF SkipHook, SweptOK, TypeOK, TodoOK, CurOK, hookVars, diskVars
<1>3. ASSUME NEW f \in File, Open(f)
      PROVE  SweptOK'
  BY <1>3, Bounds, FaultCounted
  DEF Open, SweptOK, TypeOK, TodoOK, CurOK, hookVars, diskVars
<1>4. ASSUME NEW f \in File, WriteTo(f)
      PROVE  SweptOK'
  BY <1>4, Bounds, FaultCounted
  DEF WriteTo, SweptOK, TypeOK, TodoOK, CurOK, hookVars, diskVars, Delete
<1>5. ASSUME NEW f \in File, SetTime(f)
      PROVE  SweptOK'
  BY <1>5, Bounds DEF SetTime, SweptOK, TypeOK, TodoOK, CurOK, hookVars, diskVars
<1>6. ASSUME NEW f \in File, NEW v \in Version \union {0}, Link(f, v)
      PROVE  SweptOK'
  BY <1>6, Bounds DEF Link, SweptOK, TypeOK, TodoOK, CurOK, hookVars, diskVars
<1>7. ASSUME NEW a \in Account, CreateAccount(a)
      PROVE  SweptOK'
  BY <1>7, Bounds DEF CreateAccount, SweptOK, TypeOK, TodoOK, CurOK, hookVars, diskVars
<1>8. CASE StartRun
  BY <1>8, Bounds DEF StartRun, SweptOK, TypeOK, TodoOK, CurOK, hookVars, diskVars
<1>9. CASE RemoveStaleAccounts
  BY <1>9, Bounds
  DEF RemoveStaleAccounts, SweptOK, TypeOK, TodoOK, CurOK, hookVars, diskVars
<1>10. CASE ListHooks
  BY <1>10, Bounds DEF ListHooks, SweptOK, TypeOK, TodoOK, CurOK, hookVars, diskVars, Stale
<1>11. CASE EndRun
  BY <1>11, Bounds DEF EndRun, SweptOK, TypeOK, TodoOK, CurOK, hookVars, diskVars
<1>12. CASE Crash
  BY <1>12, Bounds, FaultCounted
  DEF Crash, SweptOK, TypeOK, TodoOK, CurOK, hookVars, diskVars
<1>13. CASE UNCHANGED vars
  BY <1>13 DEF vars, SweptOK, TypeOK, TodoOK, CurOK, hookVars, diskVars
<1> QED
  BY <1>1, <1>2, <1>3, <1>4, <1>5, <1>6, <1>7, <1>8, <1>9, <1>10, <1>11, <1>12, <1>13
  DEF Next

\* A copy is given the time of its link last: one that is empty has another.
LEMMA UpToDateStep ==
  ASSUME TypeOK, TimesOK, TodoOK, CurOK, UpToDateIsPublished, [Next]_vars
  PROVE  UpToDateIsPublished'
<1>1. ASSUME NEW f \in File, RemoveStaleFile(f)
      PROVE  UpToDateIsPublished'
  BY <1>1, Bounds
  DEF RemoveStaleFile, UpToDateIsPublished, CutUnseen, TimesOK, TypeOK, TodoOK, CurOK, hookVars,
     diskVars, Delete, Stale, UpToDate, Exists
<1>2. ASSUME NEW f \in File, SkipHook(f)
      PROVE  UpToDateIsPublished'
  BY <1>2, Bounds
  DEF SkipHook, UpToDateIsPublished, CutUnseen, TimesOK, TypeOK, TodoOK, CurOK, hookVars, diskVars,
     UpToDate, Exists
<1>3. ASSUME NEW f \in File, Open(f)
      PROVE  UpToDateIsPublished'
  BY <1>3, Bounds, FaultCounted
  DEF Open, UpToDateIsPublished, CutUnseen, TimesOK, TypeOK, TodoOK, CurOK, hookVars, diskVars,
     UpToDate, Exists
<1>4. ASSUME NEW f \in File, WriteTo(f)
      PROVE  UpToDateIsPublished'
  BY <1>4, Bounds, FaultCounted
  DEF WriteTo, UpToDateIsPublished, CutUnseen, TimesOK, TypeOK, TodoOK, CurOK, hookVars, diskVars,
     Delete, UpToDate, Exists
<1>5. ASSUME NEW f \in File, SetTime(f)
      PROVE  UpToDateIsPublished'
  BY <1>5, Bounds
  DEF SetTime, UpToDateIsPublished, CutUnseen, TimesOK, TypeOK, TodoOK, CurOK, hookVars, diskVars,
     UpToDate, Exists
<1>6. ASSUME NEW f \in File, NEW v \in Version \union {0}, Link(f, v)
      PROVE  UpToDateIsPublished'
  BY <1>6, Bounds
  DEF Link, UpToDateIsPublished, CutUnseen, TimesOK, TypeOK, TodoOK, CurOK, hookVars, diskVars,
     UpToDate, Exists
<1>7. ASSUME NEW a \in Account, CreateAccount(a)
      PROVE  UpToDateIsPublished'
  BY <1>7, Bounds
  DEF CreateAccount, UpToDateIsPublished, CutUnseen, TimesOK, TypeOK, TodoOK, CurOK, hookVars,
     diskVars, UpToDate, Exists
<1>8. CASE StartRun
  BY <1>8, Bounds
  DEF StartRun, UpToDateIsPublished, CutUnseen, TimesOK, TypeOK, TodoOK, CurOK, hookVars, diskVars,
     UpToDate, Exists
<1>9. CASE RemoveStaleAccounts
  BY <1>9, Bounds
  DEF RemoveStaleAccounts, UpToDateIsPublished, CutUnseen, TimesOK, TypeOK, TodoOK, CurOK, hookVars,
     diskVars, AccountsOfCur, UpToDate, Exists
<1>10. CASE ListHooks
  BY <1>10, Bounds
  DEF ListHooks, UpToDateIsPublished, CutUnseen, TimesOK, TypeOK, TodoOK, CurOK, hookVars, diskVars,
     Stale, UpToDate, Exists
<1>11. CASE EndRun
  BY <1>11, Bounds
  DEF EndRun, UpToDateIsPublished, CutUnseen, TimesOK, TypeOK, TodoOK, CurOK, hookVars, diskVars,
     UpToDate, Exists
<1>12. CASE Crash
  BY <1>12, Bounds, FaultCounted
  DEF Crash, UpToDateIsPublished, CutUnseen, TimesOK, TypeOK, TodoOK, CurOK, hookVars, diskVars,
     UpToDate, Exists
<1>13. CASE UNCHANGED vars
  BY <1>13
  DEF vars, UpToDate, Exists, UpToDateIsPublished, CutUnseen, TimesOK, TypeOK, TodoOK, CurOK,
     hookVars, diskVars
<1> QED
  BY <1>1, <1>2, <1>3, <1>4, <1>5, <1>6, <1>7, <1>8, <1>9, <1>10, <1>11, <1>12, <1>13
  DEF Next

\* A run is done with a link that it skips or copies.
LEMMA DoneStep ==
  ASSUME TypeOK, TodoOK, CurOK, SweptOK, DoneOK, UpToDateIsPublished, [Next]_vars
  PROVE  DoneOK'
<1>1. ASSUME NEW f \in File, RemoveStaleFile(f)
      PROVE  DoneOK'
  BY <1>1, Bounds
  DEF RemoveStaleFile, DoneOK, SweptOK, UpToDateIsPublished, CutUnseen, TypeOK, TodoOK, CurOK,
     hookVars, diskVars, Delete, Stale, IsMalformed
<1>2. ASSUME NEW f \in File, SkipHook(f)
      PROVE  DoneOK'
  BY <1>2, Bounds
  DEF SkipHook, DoneOK, SweptOK, UpToDateIsPublished, CutUnseen, TypeOK, TodoOK, CurOK, hookVars,
     diskVars, IsMalformed
<1>3. ASSUME NEW f \in File, Open(f)
      PROVE  DoneOK'
  <2>1. CASE Fault
    BY <2>1, FaultCounted DEF DoneOK
  <2>. SUFFICES ASSUME ~Fault
                PROVE  DoneOK'
    BY <2>1
  <2>2. /\ phase = "hooks" /\ phase' = "write" /\ hooks' = hooks /\ clean' = clean
        /\ files' = [files EXCEPT ![f] = 0] /\ cur' = {f} /\ todo' = todo \ {f}
        /\ broken \subseteq broken' /\ exposed \ {f} \subseteq exposed'
    BY <1>3 DEF Open, hookVars
  <2>3. cur = {} /\ files \in [File -> Version \union {0}]
    BY <2>2 DEF TypeOK
  <2>. QED
    BY <2>2, <2>3 DEF DoneOK, IsMalformed, CutUnseen
<1>4. ASSUME NEW f \in File, WriteTo(f)
      PROVE  DoneOK'
  BY <1>4, Bounds, FaultCounted
  DEF WriteTo, DoneOK, SweptOK, UpToDateIsPublished, CutUnseen, TypeOK, TodoOK, CurOK, hookVars,
     diskVars, Delete, IsMalformed
<1>5. ASSUME NEW f \in File, SetTime(f)
      PROVE  DoneOK'
  BY <1>5, Bounds
  DEF SetTime, DoneOK, SweptOK, UpToDateIsPublished, CutUnseen, TypeOK, TodoOK, CurOK, hookVars,
     diskVars, IsMalformed
<1>6. ASSUME NEW f \in File, NEW v \in Version \union {0}, Link(f, v)
      PROVE  DoneOK'
  BY <1>6, Bounds
  DEF Link, DoneOK, SweptOK, UpToDateIsPublished, CutUnseen, TypeOK, TodoOK, CurOK, hookVars,
     diskVars, IsMalformed
<1>7. ASSUME NEW a \in Account, CreateAccount(a)
      PROVE  DoneOK'
  BY <1>7, Bounds
  DEF CreateAccount, DoneOK, SweptOK, UpToDateIsPublished, CutUnseen, TypeOK, TodoOK, CurOK,
     hookVars, diskVars, IsMalformed
<1>8. CASE StartRun
  BY <1>8, Bounds
  DEF StartRun, DoneOK, SweptOK, UpToDateIsPublished, CutUnseen, TypeOK, TodoOK, CurOK, hookVars,
     diskVars, IsMalformed
<1>9. CASE RemoveStaleAccounts
  BY <1>9, Bounds
  DEF RemoveStaleAccounts, DoneOK, SweptOK, UpToDateIsPublished, CutUnseen, TypeOK, TodoOK, CurOK,
     hookVars, diskVars, AccountsOfCur, IsMalformed
<1>10. CASE ListHooks
  BY <1>10, Bounds
  DEF ListHooks, DoneOK, SweptOK, UpToDateIsPublished, CutUnseen, TypeOK, TodoOK, CurOK, hookVars,
     diskVars, Stale, IsMalformed
<1>11. CASE EndRun
  BY <1>11, Bounds
  DEF EndRun, DoneOK, SweptOK, UpToDateIsPublished, CutUnseen, TypeOK, TodoOK, CurOK, hookVars,
     diskVars, IsMalformed
<1>12. CASE Crash
  BY <1>12, Bounds, FaultCounted
  DEF Crash, DoneOK, SweptOK, UpToDateIsPublished, CutUnseen, TypeOK, TodoOK, CurOK, hookVars,
     diskVars, IsMalformed
<1>13. CASE UNCHANGED vars
  BY <1>13
  DEF vars, IsMalformed, DoneOK, SweptOK, UpToDateIsPublished, CutUnseen, TypeOK, TodoOK, CurOK,
     hookVars, diskVars
<1> QED
  BY <1>1, <1>2, <1>3, <1>4, <1>5, <1>6, <1>7, <1>8, <1>9, <1>10, <1>11, <1>12, <1>13
  DEF Next

LEMMA ProviderFiles ==
  ASSUME TypeOK, NEW a \in accounts
  PROVE  a \in Account /\ ProviderOf[a] \in App /\ ProviderFile(a) \in File
  BY FileHookAssumption DEF TypeOK, ProviderFile, File


\* A provider that has accounts loses its file with them, or for a new one.
LEMMA ProviderStep ==
  ASSUME TypeOK, TodoOK, CurOK, ProviderKept, [Next]_vars
  PROVE  ProviderKept'
<1>1. ASSUME NEW f \in File, RemoveStaleFile(f)
      PROVE  ProviderKept'
  <2>1. CASE f.type = "provider"
    BY <1>1, <2>1, ProviderFiles
    DEF RemoveStaleFile, Delete, ProviderKept, ProviderFile, TypeOK
  <2>2. CASE f.type # "provider"
    BY <1>1, <2>2, ProviderFiles
    DEF RemoveStaleFile, Delete, ProviderKept, ProviderFile, TypeOK
  <2> QED
    BY <2>1, <2>2
<1>2. ASSUME NEW f \in File, SkipHook(f)
      PROVE  ProviderKept'
  BY <1>2 DEF SkipHook, ProviderFile, ProviderKept, TypeOK, CurOK, hookVars, diskVars
<1>3. ASSUME NEW f \in File, Open(f)
      PROVE  ProviderKept'
  <2>1. CASE Fault
    BY <2>1, FaultCounted DEF ProviderKept
  <2>2. CASE ~Fault
    <3>1. /\ faults' = faults /\ accounts' = accounts
          /\ \A g \in File : g # f => files'[g] = files[g]
          /\ (phase' = "write" /\ cur' = {f}) \/ (files'[f] # 0 /\ cur = {f})
          /\ phase = "hooks" \/ (phase = "write" /\ cur = {f})
      BY <1>3, <2>2, Bounds DEF Open, TypeOK, TodoOK, CurOK
    <3>2. SUFFICES ASSUME faults' = 0, NEW a \in accounts'
                   PROVE  \/ files'[ProviderFile(a)] # 0
                          \/ phase' \in {"accounts", "write"} /\ ProviderFile(a) \in cur'
      BY DEF ProviderKept, ProviderFile
    <3>3. ProviderFile(a) \in File /\ a \in accounts /\ faults = 0
      BY <3>1, <3>2, ProviderFiles
    <3> QED
      BY <3>1, <3>3 DEF ProviderKept
  <2> QED
    BY <2>1, <2>2
<1>4. ASSUME NEW f \in File, WriteTo(f)
      PROVE  ProviderKept'
  <2>1. CASE Fault
    BY <2>1, FaultCounted DEF ProviderKept
  <2>2. CASE ~Fault
    <3>1. /\ faults' = faults /\ accounts' = accounts
          /\ \A g \in File : g # f => files'[g] = files[g]
          /\ (phase' = "write" /\ cur' = {f}) \/ (files'[f] # 0 /\ cur = {f})
          /\ phase = "hooks" \/ (phase = "write" /\ cur = {f})
      BY <1>4, <2>2, Bounds DEF WriteTo, TypeOK, TodoOK, CurOK
    <3>2. SUFFICES ASSUME faults' = 0, NEW a \in accounts'
                   PROVE  \/ files'[ProviderFile(a)] # 0
                          \/ phase' \in {"accounts", "write"} /\ ProviderFile(a) \in cur'
      BY DEF ProviderKept, ProviderFile
    <3>3. ProviderFile(a) \in File /\ a \in accounts /\ faults = 0
      BY <3>1, <3>2, ProviderFiles
    <3> QED
      BY <3>1, <3>3 DEF ProviderKept
  <2> QED
    BY <2>1, <2>2
<1>5. ASSUME NEW f \in File, SetTime(f)
      PROVE  ProviderKept'
  BY <1>5 DEF SetTime, ProviderFile, ProviderKept, TypeOK, CurOK, hookVars, diskVars
<1>6. ASSUME NEW f \in File, NEW v \in Version \union {0}, Link(f, v)
      PROVE  ProviderKept'
  BY <1>6 DEF Link, ProviderFile, ProviderKept, TypeOK, CurOK, hookVars, diskVars
<1>7. ASSUME NEW a \in Account, CreateAccount(a)
      PROVE  ProviderKept'
  BY <1>7 DEF CreateAccount, ProviderKept, ProviderFile, diskVars
<1>8. CASE StartRun
  BY <1>8 DEF StartRun, ProviderFile, ProviderKept, TypeOK, CurOK, hookVars, diskVars
<1>9. CASE RemoveStaleAccounts
  <2>1. \A a \in accounts : ProviderFile(a) \in cur => a \in AccountsOfCur
    BY DEF AccountsOfCur, ProviderFile
  <2> QED
    BY <1>9, <2>1 DEF RemoveStaleAccounts, ProviderKept, ProviderFile, diskVars
<1>10. CASE ListHooks
  BY <1>10 DEF ListHooks, ProviderFile, ProviderKept, TypeOK, CurOK, hookVars, diskVars
<1>11. CASE EndRun
  BY <1>11 DEF EndRun, ProviderFile, ProviderKept, TypeOK, CurOK, hookVars, diskVars
<1>12. CASE Crash
  BY <1>12, FaultCounted DEF Crash, ProviderKept
<1>13. CASE UNCHANGED vars
  BY <1>13 DEF vars, ProviderKept, TypeOK, CurOK, hookVars, diskVars
<1> QED
  BY <1>1, <1>2, <1>3, <1>4, <1>5, <1>6, <1>7, <1>8, <1>9, <1>10, <1>11, <1>12, <1>13
  DEF Next

-----------------------------------------------------------------------------
(***************************************************************************)
(* The invariant, and the theorems.                                        *)
(***************************************************************************)
LEMMA InitInv ==
  ASSUME Init
  PROVE  IInv
<1>1. TypeOK
  <2>1. 0 \in 0..MaxChanges /\ 0 \in 0..MaxFaults
    BY Bounds
  <2>2. (phase \in {"accounts", "write", "utime"}) = (cur # {})
    BY DEF Init
  <2> QED
    BY <2>1, <2>2 DEF Init, TypeOK
<1> QED
  BY <1>1, Bounds DEF Init, IInv, TimesOK, TodoOK, CurOK, SweptOK, DoneOK,
     UpToDateIsPublished, ProviderKept

LEMMA NextInv ==
  ASSUME IInv, [Next]_vars
  PROVE  IInv'
<1>1. TypeOK' /\ TimesOK' /\ TodoOK' /\ CurOK' /\ SweptOK' /\ ProviderKept'
  BY TypeStep, TimesStep, TodoStep, CurStep, SweptStep, ProviderStep DEF IInv
<1>2. UpToDateIsPublished'
  BY UpToDateStep DEF IInv
<1>3. DoneOK'
  BY DoneStep DEF IInv
<1> QED
  BY <1>1, <1>2, <1>3 DEF IInv

LEMMA Invariance == Spec => []IInv
  BY InitInv, NextInv, PTL DEF Spec

\* The links, the copies and the run stay within their types: TypeOK.
THEOREM TypeCorrect == Spec => []TypeOK
<1>1. IInv => TypeOK
  BY DEF IInv
<1> QED
  BY <1>1, Invariance, PTL

\* As long as no write failed and no run was killed, no account of a provider
\* outlives its file by a complete run: NoOrphanAccounts (main.cpp,
\* removeStaleAccounts).
THEOREM NoOrphanAccountsCorrect == Spec => []NoOrphanAccounts
<1>1. IInv => NoOrphanAccounts
  <2> SUFFICES ASSUME IInv, faults = 0, phase = "idle", clean, NEW a \in accounts,
                      hooks[ProviderFile(a)] = 0
               PROVE  FALSE
    BY DEF NoOrphanAccounts, AccountsGoWithProvider, ProviderFile
  <2>1. ProviderFile(a) \in File
    BY ProviderFiles DEF IInv
  <2> QED
    BY <2>1 DEF IInv, SweptOK, ProviderKept
<1> QED
  BY <1>1, Invariance, PTL

\* A copy that later runs take for up to date is whole and of the version of
\* its link, whatever failed or was killed, unless it was emptied in the second
\* in which the link was made or cut by a full disk (main.cpp, the utime() after
\* the write() and close() that nobody looks at).
THEOREM UpToDateIsPublishedCorrect == Spec => []UpToDateIsPublished
<1>1. IInv => UpToDateIsPublished
  BY DEF IInv
<1> QED
  BY <1>1, Invariance, PTL

\* A run that completes without a fault has made every copy from its present
\* link and left none without a link, except malformed files and the copies that
\* an earlier run cut and left with the time of their link.
THEOREM CompleteRunPublishesCorrect == Spec => []CompleteRunPublishes
<1>1. IInv => CompleteRunPublishes
  <2> SUFFICES ASSUME IInv, phase = "idle", clean, NEW f \in File
               PROVE  files[f] = hooks[f] \/ IsMalformed(f) \/ (hooks[f] # 0 /\ CutUnseen(f))
    BY DEF CompleteRunPublishes
  <2>1. f \notin todo /\ f \notin cur
    BY DEF IInv, TodoOK, TypeOK
  <2> QED
    BY <2>1 DEF IInv, DoneOK
<1> QED
  BY <1>1, Invariance, PTL

=============================================================================
