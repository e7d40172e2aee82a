--------------------------- MODULE LoggerRegistry ---------------------------
(***************************************************************************)
(* canon's loggers (core/src/utils/logger.cpp): threads call init_logging  *)
(* and the accessors in any order, while the host program works on the     *)
(* same process-wide spdlog registry.  Each step of a thread is one access *)
(* to shared state: a registry lookup or insertion (under spdlog's mutex), *)
(* a load or store of initialised(), a critical section of the report      *)
(* memo.                                                                   *)
(***************************************************************************)
EXTENDS Naturals, Sequences, FiniteSets

CONSTANTS
  Threads,
  AllLoggers,    \* kAllLoggers, in order
  Levels,        \* default_level arguments
  HostRegisters, \* may the host register a logger under one of these names?
  HostDrops      \* may the host drop one from the registry?

Names == {AllLoggers[i] : i \in DOMAIN AllLoggers}

ASSUME LoggerAssumption ==
  /\ AllLoggers \in Seq(Names)
  /\ \A i, j \in DOMAIN AllLoggers : AllLoggers[i] = AllLoggers[j] => i = j
  /\ AllLoggers # <<>>
  /\ Levels # {}
  /\ HostRegisters \in BOOLEAN
  /\ HostDrops \in BOOLEAN

VARIABLES
  registry,     \* the names registered with spdlog
  once,         \* init_flag(): "unused", "running" or "done"
  initialised,  \* initialised()
  reported,     \* report_unregistered_once's memo
  level,        \* the level canon's loggers were last given
  pc, name, next, asked,  \* per thread: where it is, the name it looks up, the
                          \* next logger to register, the level it asked for
  everRegistered,  \* ghost: the names canon has registered
  dropped,         \* ghost: the names the host has dropped
  warnings,        \* ghost: NOT REGISTERED records per name, two standing for more
  lateCall         \* ghost: did the thread's accessor start after initialisation?

shared == <<registry, once, initialised, reported, level>>
ghosts == <<everRegistered, dropped, warnings, lateCall>>
vars == <<shared, pc, name, next, asked, ghosts>>

\* What an accessor returned last is told by where its thread stands.
Returned == {"module", "quiet", "default"}
AtRest == {"start"} \cup Returned
InInit == {"wait", "register", "setLevel", "publish", "leave"}
InAccessor == {"missed", "memo", "warn"}

TypeOK ==
  /\ registry \subseteq Names
  /\ once \in {"unused", "running", "done"}
  /\ initialised \in BOOLEAN
  /\ reported \subseteq Names
  /\ level \in Levels
  /\ pc \in [Threads -> AtRest \cup InInit \cup InAccessor]
  /\ name \in [Threads -> Names]
  /\ next \in [Threads -> 1 .. Len(AllLoggers) + 1]
  /\ asked \in [Threads -> Levels]
  /\ everRegistered \subseteq Names
  /\ dropped \subseteq Names
  /\ warnings \in [Names -> 0 .. 2]
  /\ lateCall \in [Threads -> BOOLEAN]

Init ==
  /\ registry = {}
  /\ once = "unused"
  /\ initialised = FALSE
  /\ reported = {}
  /\ level \in Levels
  /\ pc = [t \in Threads |-> "start"]
  /\ name = [t \in Threads |-> AllLoggers[1]]
  /\ next = [t \in Threads |-> 1]
  /\ asked = [t \in Threads |-> level]
  /\ everRegistered = {}
  /\ dropped = {}
  /\ warnings = [n \in Names |-> 0]
  /\ lateCall = [t \in Threads |-> FALSE]

Goto(t, from, to) == pc[t] = from /\ pc' = [pc EXCEPT ![t] = to]

----------------------------------------------------------------------------
(* init_logging.                                                           *)

CallInit(t, l) ==
  /\ pc[t] \in AtRest
  /\ pc' = [pc EXCEPT ![t] = "wait"]
  /\ asked' = [asked EXCEPT ![t] = l]
  /\ UNCHANGED <<shared, name, next, ghosts>>

\* Fault: the lambda runs whatever the flag says.
EnterUnguarded(t) ==
  /\ Goto(t, "wait", "register")
  /\ once' = "running"
  /\ next' = [next EXCEPT ![t] = 1]
  /\ UNCHANGED <<registry, initialised, reported, level, name, asked, ghosts>>

\* std::call_once lets one caller in and holds the others back.
EnterOnce(t) ==
  /\ once = "unused"
  /\ Goto(t, "wait", "register")
  /\ once' = "running"
  /\ next' = [next EXCEPT ![t] = 1]
  /\ UNCHANGED <<registry, initialised, reported, level, name, asked, ghosts>>

SkipOnce(t) ==
  /\ once = "done"
  /\ Goto(t, "wait", "start")
  /\ UNCHANGED <<shared, name, next, asked, ghosts>>

\* make_logger, for the next name: the logger gets the caller's level and is
\* registered.
Register(t) ==
  /\ pc[t] = "register"
  /\ next[t] <= Len(AllLoggers)
  /\ AllLoggers[next[t]] \notin registry
  /\ registry' = registry \cup {AllLoggers[next[t]]}
  /\ everRegistered' = everRegistered \cup {AllLoggers[next[t]]}
  /\ next' = [next EXCEPT ![t] = @ + 1]
  /\ UNCHANGED <<once, initialised, reported, level, pc, name, asked, dropped,
                 warnings, lateCall>>

\* spdlog::register_logger throws on a name already taken; call_once passes the
\* exception on and its flag stays unused.  What was registered stays so.
RegisterThrows(t) ==
  /\ next[t] <= Len(AllLoggers)
  /\ AllLoggers[next[t]] \in registry
  /\ Goto(t, "register", "start")
  /\ once' = "unused"
  /\ UNCHANGED <<registry, initialised, reported, level, name, next, asked, ghosts>>

\* Fault: the loop stops one name early.
AllRegisteredEarly(t) ==
  /\ next[t] >= Len(AllLoggers)
  /\ Goto(t, "register", "setLevel")
  /\ UNCHANGED <<shared, name, next, asked, ghosts>>

AllRegistered(t) ==
  /\ next[t] > Len(AllLoggers)
  /\ Goto(t, "register", "setLevel")
  /\ UNCHANGED <<shared, name, next, asked, ghosts>>

SetLevel(t) ==
  /\ Goto(t, "setLevel", "publish")
  /\ level' = asked[t]
  /\ UNCHANGED <<registry, once, initialised, reported, name, next, asked, ghosts>>

Publish(t) ==
  /\ Goto(t, "publish", "leave")
  /\ initialised' = TRUE
  /\ UNCHANGED <<registry, once, reported, level, name, next, asked, ghosts>>

\* Fault: the flag is left running.
LeaveOnceRunning(t) ==
  /\ Goto(t, "leave", "start")
  /\ UNCHANGED <<shared, name, next, asked, ghosts>>

LeaveOnce(t) ==
  /\ Goto(t, "leave", "start")
  /\ once' = "done"
  /\ UNCHANGED <<registry, initialised, reported, level, name, next, asked, ghosts>>

----------------------------------------------------------------------------
(* logger_for: every accessor, arena_logger() to tokenizer_logger().       *)

\* spdlog::get finds the name ...
LookupHits(t, n) ==
  /\ pc[t] \in AtRest
  /\ n \in registry
  /\ pc' = [pc EXCEPT ![t] = "module"]
  /\ name' = [name EXCEPT ![t] = n]
  /\ lateCall' = [lateCall EXCEPT ![t] = initialised]
  /\ UNCHANGED <<shared, next, asked, everRegistered, dropped, warnings>>

\* ... or does not.
LookupMisses(t, n) ==
  /\ pc[t] \in AtRest
  /\ n \notin registry
  /\ pc' = [pc EXCEPT ![t] = "missed"]
  /\ name' = [name EXCEPT ![t] = n]
  /\ lateCall' = [lateCall EXCEPT ![t] = initialised]
  /\ UNCHANGED <<shared, next, asked, everRegistered, dropped, warnings>>

FallBackQuiet(t) ==
  /\ ~initialised
  /\ Goto(t, "missed", "quiet")
  /\ UNCHANGED <<shared, name, next, asked, ghosts>>

FindDefect(t) ==
  /\ initialised
  /\ Goto(t, "missed", "memo")
  /\ UNCHANGED <<shared, name, next, asked, ghosts>>

\* report_unregistered_once, its critical section: a name already there ends it.
AlreadyReported(t) ==
  /\ name[t] \in reported
  /\ Goto(t, "memo", "default")
  /\ UNCHANGED <<shared, name, next, asked, ghosts>>

Memo(t) ==
  /\ name[t] \notin reported
  /\ Goto(t, "memo", "warn")
  /\ reported' = reported \cup {name[t]}
  /\ UNCHANGED <<registry, once, initialised, level, name, next, asked, ghosts>>

\* The record itself is written outside the lock, on the default logger.
Warn(t) ==
  /\ Goto(t, "warn", "default")
  /\ warnings' = [warnings EXCEPT ![name[t]] = IF @ = 2 THEN 2 ELSE @ + 1]
  /\ UNCHANGED <<shared, name, next, asked, everRegistered, dropped, lateCall>>

----------------------------------------------------------------------------
(* The host, through spdlog's public registry.                             *)

HostRegister(n) ==
  /\ HostRegisters
  /\ n \notin registry
  /\ registry' = registry \cup {n}
  /\ UNCHANGED <<once, initialised, reported, level, pc, name, next, asked, ghosts>>

HostDrop(n) ==
  /\ HostDrops
  /\ n \in registry
  /\ registry' = registry \ {n}
  /\ dropped' = dropped \cup {n}
  /\ UNCHANGED <<once, initialised, reported, level, pc, name, next, asked,
                 everRegistered, warnings, lateCall>>

InitStep(t) ==
  \/ EnterOnce(t)
  \/ SkipOnce(t)
  \/ Register(t)
  \/ RegisterThrows(t)
  \/ AllRegistered(t)
  \/ SetLevel(t)
  \/ Publish(t)
  \/ LeaveOnce(t)

AccessorStep(t) ==
  \/ FallBackQuiet(t)
  \/ FindDefect(t)
  \/ AlreadyReported(t)
  \/ Memo(t)
  \/ Warn(t)

Next ==
  \/ \E t \in Threads, l \in Levels : CallInit(t, l)
  \/ \E t \in Threads, n \in Names : LookupHits(t, n) \/ LookupMisses(t, n)
  \/ \E t \in Threads : InitStep(t) \/ AccessorStep(t)
  \/ \E n \in Names : HostRegister(n) \/ HostDrop(n)

Spec == Init /\ [][Next]_vars

(* A thread inside a call keeps running; nobody has to call.               *)
FairSpec == Spec /\ \A t \in Threads : WF_vars(InitStep(t) \/ AccessorStep(t))

----------------------------------------------------------------------------
(* "every logger is registered; past this point an unresolved name is a    *)
(* defect" (logger.cpp:125): initialised() implies canon registered every  *)
(* name, also when an earlier init_logging threw halfway.                  *)
InitialisedMeansRegistered == initialised => everRegistered = Names

(* "at most one record per distinct name" (logger.cpp:35), with any number *)
(* of threads missing the name at once.                                    *)
AtMostOneWarning == \A n \in Names : warnings[n] <= 1

(* Before init_logging has finished an accessor never yields the host's    *)
(* default logger (canon.api.cppm:1774).                                   *)
DefaultOnlyAfterInit == \A t \in Threads : pc[t] \in {"memo", "warn", "default"} => initialised

(* An accessor that starts after initialisation reports a name only if the *)
(* host dropped it: the report then tells the truth.                       *)
LateReportsAreTrue ==
  \A t \in Threads : pc[t] \in {"memo", "warn"} /\ lateCall[t] => name[t] \in dropped

(* "it is thread-safe and the first call wins" (canon.api.cppm:1758): once *)
(* initialised, no init_logging call changes the level or the registry.    *)
FirstCallWins == [][initialised => level' = level /\ everRegistered' = everRegistered]_vars

(* Every call returns: no thread is held in call_once for ever, unless     *)
(* init_logging throws again and again on names the host has taken, which  *)
(* may starve a caller that waits its turn.                                *)
CallsReturn ==
  <>[][\A t \in Threads : ~RegisterThrows(t)]_vars =>
    \A t \in Threads : pc[t] \notin AtRest ~> pc[t] \in AtRest

(* What report_unregistered_once requires, "init_logging() has run and     *)
(* `name` is not one of the loggers it registered" (logger.cpp:34), of a   *)
(* host that drops nothing.  A lookup that missed before initialisation    *)
(* and asked initialised() after it breaks the second half.                *)
ReportPrecondition ==
  \A t \in Threads : pc[t] = "memo" => initialised /\ name[t] \notin everRegistered \ dropped
============================================================================
