---------------------------- MODULE ArenaReplay ----------------------------
(***************************************************************************)
(* The steady state reset is for: an arena that served a sequence of       *)
(* requests serves the same sequence again, after a reset, out of the      *)
(* blocks it already has.  A client warms one arena up with anything,      *)
(* resets it, records what it asks for and where the answers lie, resets   *)
(* again and repeats its requests.                                         *)
(***************************************************************************)
EXTENDS Arena

CONSTANTS
  Subject,      \* the arena observed
  MaxRequests   \* bound: requests recorded

ASSUME ReplayAssumption == Subject \in Arenas

VARIABLES
  phase,   \* "warm", "record", "replay", or "failed" when the recording threw
  log,     \* the views recorded, in order
  cursor   \* how many of them the replay has repeated

rvars == <<vars, phase, log, cursor>>

LastView == CHOOSE v \in views' : v \notin views

ReplayInit == Init /\ phase = "warm" /\ log = <<>> /\ cursor = 0

Warm == phase = "warm" /\ Next /\ UNCHANGED <<phase, log, cursor>>

StartRecord ==
  /\ phase = "warm"
  /\ blocks[Subject] # <<>>
  /\ Reset(Subject)
  /\ phase' = "record"
  /\ UNCHANGED <<log, cursor>>

\* The loop's own steps, whichever pass they serve.
Loop ==
  /\ phase \in {"record", "replay"}
  /\ \/ Advance
     \/ \E h \in HeapBlocks : Grow(h)
  /\ UNCHANGED <<phase, log, cursor>>

RecordRequest ==
  /\ phase = "record"
  /\ Len(log) < MaxRequests
  /\ \E s \in Sizes, a \in Alignments : Allocate(Subject, s, a)
  /\ UNCHANGED <<phase, log, cursor>>

RecordAnswer ==
  /\ phase = "record"
  /\ Bump
  /\ log' = Append(log, LastView)
  /\ UNCHANGED <<phase, cursor>>

RecordingFails ==
  /\ phase = "record"
  /\ GrowFails
  /\ phase' = "failed"
  /\ UNCHANGED <<log, cursor>>

StartReplay ==
  /\ phase = "record"
  /\ Reset(Subject)
  /\ phase' = "replay"
  /\ UNCHANGED <<log, cursor>>

ReplayRequest ==
  /\ phase = "replay"
  /\ cursor < Len(log)
  /\ Allocate(Subject, log[cursor + 1].size, log[cursor + 1].align)
  /\ UNCHANGED <<phase, log, cursor>>

ReplayAnswer ==
  /\ phase = "replay"
  /\ Bump
  /\ cursor' = cursor + 1
  /\ UNCHANGED <<phase, log>>

ReplayNext ==
  \/ Warm
  \/ StartRecord
  \/ Loop
  \/ RecordRequest
  \/ RecordAnswer
  \/ RecordingFails
  \/ StartReplay
  \/ ReplayRequest
  \/ ReplayAnswer

ReplaySpec == ReplayInit /\ [][ReplayNext]_rvars

(* As FairSpec: one thread runs the allocate loop and nothing suspends it. *)
FairReplay == ReplaySpec /\ WF_vars(AllocatorStep)

(* The replay's answers are the recording's, address for address: it takes *)
(* nothing from the system allocator.                                      *)
ReplayRepeatsAddresses ==
  phase = "replay" => {v \in views : v.id \in Held(Subject)}
                        = {log[i] : i \in 1 .. cursor}
============================================================================
