------------------------ MODULE LoggerRegistryProofs ------------------------
(***************************************************************************)
(* The loggers' safety for any number of threads, names and levels, and    *)
(* any host.                                                               *)
(***************************************************************************)
EXTENDS LoggerRegistry, TLAPS

InLambda == {"register", "setLevel", "publish", "leave"}

(* call_once: one thread at most is inside the lambda, while the flag is   *)
(* running; once initialised it is on its way out or gone for good.        *)
OneInLambda ==
  /\ \A t \in Threads : pc[t] \in InLambda => once = "running"
  /\ \A t, u \in Threads : pc[t] \in InLambda /\ pc[u] \in InLambda => t = u
  /\ initialised => once = "done" \/ \E t \in Threads : pc[t] = "leave"

(* How far the registering thread has come.                                *)
Progress ==
  /\ \A t \in Threads : pc[t] = "register" =>
       \A i \in DOMAIN AllLoggers : i < next[t] => AllLoggers[i] \in everRegistered
  /\ \A t \in Threads : pc[t] \in {"setLevel", "publish", "leave"} => everRegistered = Names
  /\ initialised => everRegistered = Names

(* Only the host takes a name out of the registry.                         *)
RegistryKeepsNames == everRegistered \subseteq registry \cup dropped

(* A warning is owed by the one thread that put the name in the memo.      *)
WarningsOwed ==
  /\ \A t \in Threads : pc[t] = "warn" => name[t] \in reported /\ warnings[name[t]] = 0
  /\ \A t, u \in Threads : pc[t] = "warn" /\ pc[u] = "warn" /\ name[t] = name[u] => t = u
  /\ \A n \in Names : n \notin reported => warnings[n] = 0

LateMissesAreTrue ==
  \A t \in Threads : pc[t] \in {"missed", "memo", "warn"} /\ lateCall[t] => name[t] \in dropped

IInv ==
  /\ TypeOK
  /\ OneInLambda
  /\ Progress
  /\ RegistryKeepsNames
  /\ AtMostOneWarning
  /\ WarningsOwed
  /\ DefaultOnlyAfterInit
  /\ LateMissesAreTrue

LEMMA LoggersType ==
  /\ Len(AllLoggers) \in Nat /\ DOMAIN AllLoggers = 1 .. Len(AllLoggers)
  /\ 1 \in 1 .. Len(AllLoggers) + 1
  /\ \A i \in DOMAIN AllLoggers : AllLoggers[i] \in Names
  /\ AllLoggers[1] \in Names
BY LoggerAssumption DEF Names

LEMMA InitInv == Init => IInv
<1> SUFFICES ASSUME Init PROVE IInv
  OBVIOUS
<1>1. TypeOK
  <2>1. next \in [Threads -> 1 .. Len(AllLoggers) + 1] /\ name \in [Threads -> Names]
    BY LoggersType DEF Init
  <2>2. pc \in [Threads -> AtRest \cup InInit \cup InAccessor]
    BY DEF Init, AtRest
  <2>3. warnings \in [Names -> 0 .. 2]
    BY DEF Init
  <2> QED
    BY <2>1, <2>2, <2>3 DEF Init, TypeOK
<1>2. OneInLambda /\ Progress /\ RegistryKeepsNames
  BY DEF Init, OneInLambda, InLambda, Progress, RegistryKeepsNames
<1>3. AtMostOneWarning /\ WarningsOwed /\ DefaultOnlyAfterInit /\ LateMissesAreTrue
  BY DEF Init, AtMostOneWarning, WarningsOwed, DefaultOnlyAfterInit, LateMissesAreTrue
<1> QED
  BY <1>1, <1>2, <1>3 DEF IInv

LEMMA InitStepInv ==
  ASSUME IInv, NEW t \in Threads, InitStep(t)
  PROVE  IInv'
<1> USE DEF Goto, shared, ghosts
<1>1. CASE EnterOnce(t)
  BY <1>1, LoggersType DEF EnterOnce, IInv, TypeOK, InInit, OneInLambda, InLambda, Progress,
     RegistryKeepsNames, AtMostOneWarning, WarningsOwed, DefaultOnlyAfterInit, LateMissesAreTrue
<1>2. CASE SkipOnce(t)
  BY <1>2 DEF SkipOnce, IInv, TypeOK, AtRest, OneInLambda, InLambda, Progress,
     RegistryKeepsNames, AtMostOneWarning, WarningsOwed, DefaultOnlyAfterInit, LateMissesAreTrue
<1>3. CASE Register(t)
  <2>1. /\ next[t] \in DOMAIN AllLoggers /\ next[t] \in Nat
        /\ AllLoggers[next[t]] \in Names
        /\ next[t] + 1 \in 1 .. Len(AllLoggers) + 1
    BY <1>3, LoggersType DEF Register, IInv, TypeOK
  <2>2. TypeOK'
    BY <1>3, <2>1 DEF Register, IInv, TypeOK
  <2>3. Progress'
    BY <1>3, <2>1 DEF Register, IInv, TypeOK, Progress
  <2> QED
    BY <1>3, <2>1, <2>2, <2>3 DEF Register, IInv, TypeOK, OneInLambda, InLambda,
       RegistryKeepsNames, AtMostOneWarning, WarningsOwed, DefaultOnlyAfterInit, LateMissesAreTrue
<1>4. CASE RegisterThrows(t)
  BY <1>4 DEF RegisterThrows, IInv, TypeOK, AtRest, OneInLambda, InLambda, Progress,
     RegistryKeepsNames, AtMostOneWarning, WarningsOwed, DefaultOnlyAfterInit, LateMissesAreTrue
<1>5. CASE AllRegistered(t)
  BY <1>5 DEF AllRegistered, IInv, TypeOK, InInit, OneInLambda, InLambda, Progress, Names,
     RegistryKeepsNames, AtMostOneWarning, WarningsOwed, DefaultOnlyAfterInit, LateMissesAreTrue
<1>6. CASE SetLevel(t)
  BY <1>6 DEF SetLevel, IInv, TypeOK, InInit, OneInLambda, InLambda, Progress,
     RegistryKeepsNames, AtMostOneWarning, WarningsOwed, DefaultOnlyAfterInit, LateMissesAreTrue
<1>7. CASE Publish(t)
  BY <1>7 DEF Publish, IInv, TypeOK, InInit, OneInLambda, InLambda, Progress,
     RegistryKeepsNames, AtMostOneWarning, WarningsOwed, DefaultOnlyAfterInit, LateMissesAreTrue
<1>8. CASE LeaveOnce(t)
  BY <1>8 DEF LeaveOnce, IInv, TypeOK, AtRest, OneInLambda, InLambda, Progress,
     RegistryKeepsNames, AtMostOneWarning, WarningsOwed, DefaultOnlyAfterInit, LateMissesAreTrue
<1> QED
  BY <1>1, <1>2, <1>3, <1>4, <1>5, <1>6, <1>7, <1>8 DEF InitStep

LEMMA AccessorStepInv ==
  ASSUME IInv, NEW t \in Threads, AccessorStep(t)
  PROVE  IInv'
<1> USE DEF Goto, shared, ghosts
<1>1. CASE FallBackQuiet(t)
  BY <1>1 DEF FallBackQuiet, IInv, TypeOK, AtRest, Returned, OneInLambda, InLambda, Progress,
     RegistryKeepsNames, AtMostOneWarning, WarningsOwed, DefaultOnlyAfterInit, LateMissesAreTrue
<1>2. CASE FindDefect(t)
  BY <1>2 DEF FindDefect, IInv, TypeOK, InAccessor, OneInLambda, InLambda, Progress,
     RegistryKeepsNames, AtMostOneWarning, WarningsOwed, DefaultOnlyAfterInit, LateMissesAreTrue
<1>3. CASE AlreadyReported(t)
  BY <1>3 DEF AlreadyReported, IInv, TypeOK, AtRest, Returned, OneInLambda, InLambda, Progress,
     RegistryKeepsNames, AtMostOneWarning, WarningsOwed, DefaultOnlyAfterInit, LateMissesAreTrue
<1>4. CASE Memo(t)
  BY <1>4 DEF Memo, IInv, TypeOK, InAccessor, OneInLambda, InLambda, Progress,
     RegistryKeepsNames, AtMostOneWarning, WarningsOwed, DefaultOnlyAfterInit, LateMissesAreTrue
<1>5. CASE Warn(t)
  BY <1>5 DEF Warn, IInv, TypeOK, AtRest, Returned, OneInLambda, InLambda, Progress,
     RegistryKeepsNames, AtMostOneWarning, WarningsOwed, DefaultOnlyAfterInit, LateMissesAreTrue
<1> QED
  BY <1>1, <1>2, <1>3, <1>4, <1>5 DEF AccessorStep

LEMMA CallInv ==
  ASSUME IInv, NEW t \in Threads,
         \/ \E l \in Levels : CallInit(t, l)
         \/ \E n \in Names : LookupHits(t, n) \/ LookupMisses(t, n)
  PROVE  IInv'
<1> USE DEF shared, ghosts
<1>1. ASSUME NEW l \in Levels, CallInit(t, l) PROVE IInv'
  BY <1>1 DEF CallInit, IInv, TypeOK, AtRest, Returned, InInit, OneInLambda, InLambda, Progress,
     RegistryKeepsNames, AtMostOneWarning, WarningsOwed, DefaultOnlyAfterInit, LateMissesAreTrue
<1>2. ASSUME NEW n \in Names, LookupHits(t, n) PROVE IInv'
  BY <1>2 DEF LookupHits, IInv, TypeOK, AtRest, Returned, OneInLambda, InLambda, Progress,
     RegistryKeepsNames, AtMostOneWarning, WarningsOwed, DefaultOnlyAfterInit, LateMissesAreTrue
<1>3. ASSUME NEW n \in Names, LookupMisses(t, n) PROVE IInv'
  BY <1>3 DEF LookupMisses, IInv, TypeOK, AtRest, Returned, InAccessor, OneInLambda, InLambda,
     Progress, RegistryKeepsNames, AtMostOneWarning, WarningsOwed, DefaultOnlyAfterInit,
     LateMissesAreTrue
<1> QED
  BY <1>1, <1>2, <1>3

LEMMA HostInv ==
  ASSUME IInv, NEW n \in Names, HostRegister(n) \/ HostDrop(n)
  PROVE  IInv'
BY DEF shared, ghosts, HostRegister, HostDrop, IInv, TypeOK, OneInLambda, InLambda, Progress,
       RegistryKeepsNames, AtMostOneWarning, WarningsOwed, DefaultOnlyAfterInit, LateMissesAreTrue

LEMMA NextInv == IInv /\ [Next]_vars => IInv'
<1> SUFFICES ASSUME IInv, [Next]_vars PROVE IInv'
  OBVIOUS
<1>1. CASE UNCHANGED vars
  BY <1>1 DEF vars, shared, ghosts, IInv, TypeOK, OneInLambda, Progress, RegistryKeepsNames,
     AtMostOneWarning, WarningsOwed, DefaultOnlyAfterInit, LateMissesAreTrue
<1> QED
  BY <1>1, InitStepInv, AccessorStepInv, CallInv, HostInv DEF Next

THEOREM Invariance == Spec => []IInv
BY InitInv, NextInv, PTL DEF Spec

(* The types of the loggers' state.                                        *)
THEOREM TypeCorrect == Spec => []TypeOK
<1>1. IInv => TypeOK
  BY DEF IInv
<1> QED
  BY <1>1, Invariance, PTL

(* initialised() is never true with a name of kAllLoggers unregistered.    *)
THEOREM InitialisedIsTrue == Spec => []InitialisedMeansRegistered
<1>1. IInv => InitialisedMeansRegistered
  BY DEF IInv, Progress, InitialisedMeansRegistered
<1> QED
  BY <1>1, Invariance, PTL

(* No name is reported twice, however many threads miss it.                *)
THEOREM OneWarningPerName == Spec => []AtMostOneWarning
<1>1. IInv => AtMostOneWarning
  BY DEF IInv
<1> QED
  BY <1>1, Invariance, PTL

(* An accessor called after initialisation reports only dropped names.     *)
THEOREM LateReports == Spec => []LateReportsAreTrue
<1>1. IInv => LateReportsAreTrue
  BY DEF IInv, LateMissesAreTrue, LateReportsAreTrue
<1> QED
  BY <1>1, Invariance, PTL

(* Once initialised, later init_logging calls change nothing.              *)
THEOREM FirstCall == Spec => FirstCallWins
<1>1. IInv /\ [Next]_vars => [initialised => level' = level /\ everRegistered' = everRegistered]_vars
  <2> SUFFICES ASSUME IInv, Next, initialised
               PROVE  level' = level /\ everRegistered' = everRegistered
    OBVIOUS
  <2>1. \A t \in Threads : pc[t] \notin {"register", "setLevel"}
    BY DEF IInv, OneInLambda, InLambda
  <2> USE DEF shared, ghosts, Goto
  <2>2. ASSUME NEW t \in Threads, InitStep(t)
        PROVE  level' = level /\ everRegistered' = everRegistered
    BY <2>1, <2>2 DEF InitStep, EnterOnce, SkipOnce, Register, RegisterThrows, AllRegistered,
                      SetLevel, Publish, LeaveOnce
  <2>3. ASSUME NEW t \in Threads, AccessorStep(t)
        PROVE  level' = level /\ everRegistered' = everRegistered
    BY <2>3 DEF AccessorStep, FallBackQuiet, FindDefect, AlreadyReported, Memo, Warn
  <2> QED
    BY <2>2, <2>3 DEF Next, CallInit, LookupHits, LookupMisses, HostRegister, HostDrop
<1> QED
  BY <1>1, Invariance, PTL DEF Spec, FirstCallWins
============================================================================
