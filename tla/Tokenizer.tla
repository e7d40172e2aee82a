----------------------------- MODULE Tokenizer -----------------------------
(***************************************************************************)
(* Tokenizer (core/src/tokenizer/tokenizer_engine.cpp): the parser of one  *)
(* stream, the stream's declared context and year reference, and the       *)
(* events its lines become.  The tokenizer leaves its parser in detection. *)
(* A span document handed to the batch door is unpacked into records.      *)
(***************************************************************************)
EXTENDS LogParser, YearResolution

CONSTANTS
  Contexts,   \* the contexts a caller declares
  TimeOf,     \* the stamp each class of line carries
  Bodiless,   \* classes that a strategy keeps no content of
  Documents,  \* classes whose first key is the span export's
  Unpacks,    \* the records of each document, none of a truncated one
  Batches     \* the batches tried

ASSUME TokenizerAssumption ==
  /\ TimeOf \in [Lines -> {NoStamp} \cup {Instant(t) : t \in Instants}
                                    \cup {Yearless(s) : s \in Stamps}]
  /\ Bodiless \subseteq Lines
  /\ Documents \subseteq Lines
  /\ Unpacks \in [Documents -> Seq(Lines)]
  /\ Batches \subseteq Seq(Lines)

VARIABLES
  context,           \* the declared context, and with it the declared runs
  reference,         \* year_reference
  nextId, produced,  \* next_id, produced
  emptyProjections,  \* empty_projections
  event,             \* the last event
  batch, records,    \* process_batch: the lines and unpacked records to come
  out,               \* and the results so far
  stream,            \* ghost: the lines parsed since the context was declared
  request            \* ghost: the batch as it was handed over

tokenizer == <<context, reference, nextId, produced, emptyProjections, event, stream>>
call == <<batch, records, out, request>>
allVars == <<vars, tokenizer, call>>

NoEventYet == [id |-> -1]
Empty == <<>>

InitTokenizer ==
  /\ Init
  /\ context \in Contexts
  /\ reference = Absent
  /\ nextId = 0 /\ produced = 0 /\ emptyProjections = 0
  /\ event = NoEventYet
  /\ batch = Empty /\ records = Empty /\ out = Empty
  /\ stream = Empty /\ request = Empty

Clock ==
  LET resolved == ResolveEventTime(TimeOf[outcome'.line], reference)
  IN  reference' = IF outcome'.counted # "parsed" \/ resolved = Absent THEN reference ELSE resolved

\* Fault: the id is the number of lines seen.
IdOfLine == nextId' = parsed' + failed' + skipped'

IdOfEvent == nextId' = IF outcome'.counted = "parsed" THEN nextId + 1 ELSE nextId

CountBodiless ==
  LET bodiless == outcome'.counted = "parsed" /\ outcome'.line \in Bodiless
  IN  emptyProjections' = emptyProjections + (IF bodiless THEN 1 ELSE 0)

(* make_event: what a parsed line becomes.                                 *)
MakeEvent ==
  /\ Clock
  /\ IdOfEvent
  /\ CountBodiless
  /\ IF outcome'.counted = "parsed"
     THEN /\ event' = [id |-> nextId, line |-> outcome'.line, strategy |-> outcome'.strategy,
                       context |-> context,
                       time |-> ResolveEventTime(TimeOf[outcome'.line], reference)]
          /\ produced' = produced + 1
          /\ stream' = Append(stream, outcome'.line)
     ELSE UNCHANGED <<event, produced, stream>>
  /\ UNCHANGED context

Tokenize(door, l) == ReadLine(door, l) /\ MakeEvent

InCall == batch # Empty \/ records # Empty

ProcessLine(l) == ~InCall /\ Tokenize("line", l) /\ UNCHANGED call

ProcessStableLine(l) == ~InCall /\ Tokenize("stable", l) /\ UNCHANGED call

\* What each number of a batch's last lines comes to: each document replaced by its records.
SplicedLast(lines) ==
  LET spliced[n \in 0 .. Len(lines)] ==
        IF n = 0 THEN <<>>
        ELSE LET l == lines[Len(lines) - n + 1]
             IN  (IF l \in Documents THEN Unpacks[l] ELSE <<l>>) \o spliced[n - 1]
  IN  spliced

Spliced(lines) == SplicedLast(lines)[Len(lines)]

ProcessBatch(lines) ==
  /\ ~InCall
  /\ parsed + failed + skipped + Len(Spliced(lines)) <= MaxLines
  /\ batch' = lines /\ request' = lines
  /\ out' = Empty
  /\ UNCHANGED <<vars, tokenizer, records>>

Result == <<outcome'.line, IF outcome'.counted = "parsed" THEN "event" ELSE "error">>

\* Fault: the records of a document wait for the rest of the batch.
UnpackLast ==
  /\ records = Empty /\ batch # Empty /\ Head(batch) \in Documents
  /\ batch' = Tail(batch) \o Unpacks[Head(batch)]
  /\ UNCHANGED <<vars, tokenizer, records, out, request>>

(* A document in the batch is replaced by its records.                     *)
Unpack ==
  /\ records = Empty /\ batch # Empty /\ Head(batch) \in Documents
  /\ records' = Unpacks[Head(batch)]
  /\ batch' = Tail(batch)
  /\ UNCHANGED <<vars, tokenizer, out, request>>

BatchRecord ==
  /\ records # Empty
  /\ Tokenize("line", Head(records))
  /\ out' = Append(out, Result)
  /\ records' = Tail(records)
  /\ UNCHANGED <<batch, request>>

BatchLine ==
  /\ records = Empty /\ batch # Empty /\ Head(batch) \notin Documents
  /\ Tokenize("line", Head(batch))
  /\ out' = Append(out, Result)
  /\ batch' = Tail(batch)
  /\ UNCHANGED <<records, request>>

\* Fault: the year reference outlives its context.
DeclareContextKeeping(c) ==
  /\ ~InCall
  /\ context' = c
  /\ stream' = Empty
  /\ UNCHANGED <<vars, reference, nextId, produced, emptyProjections, event, call>>

(* declare_context: the parser and the counters are untouched.             *)
DeclareContext(c) ==
  /\ ~InCall
  /\ context' = c
  /\ reference' = Absent
  /\ stream' = Empty
  /\ UNCHANGED <<vars, nextId, produced, emptyProjections, event, call>>

NextTokenizer ==
  \/ \E l \in Lines : ProcessLine(l) \/ ProcessStableLine(l)
  \/ \E lines \in Batches : ProcessBatch(lines)
  \/ Unpack
  \/ BatchRecord
  \/ BatchLine
  \/ \E c \in Contexts : DeclareContext(c)

SpecTokenizer == InitTokenizer /\ [][NextTokenizer]_allVars

----------------------------------------------------------------------------
(* An event is a function of its context's declaration and of the lines    *)
(* since, whatever the tokenizer read before it and through whichever      *)
(* door: the times replayed from no reference, the strategy detected from  *)
(* the bytes.  It takes claims that exclude one another (LogParser).       *)
ReferenceAfter(lines) ==
  LET after[n \in 0 .. Len(lines)] ==
        IF n = 0 THEN Absent
        ELSE LET time == ResolveEventTime(TimeOf[lines[n]], after[n - 1])
             IN  IF time = Absent THEN after[n - 1] ELSE time
  IN  after

EventOfItsStream ==
  stream # Empty =>
    /\ event.context = context
    /\ event.line = stream[Len(stream)]
    /\ event.strategy = Detect[event.line]
    /\ event.time = ResolveEventTime(TimeOf[event.line], ReferenceAfter(stream)[Len(stream) - 1])

(* An id names an event: ids are dense and count what lines_parsed counts, *)
(* refused lines and unpacked documents included                           *)
(* (test_tokenizer.cpp BatchUnpacksAnOtelSpanDocumentIntoOneResultPerSpan).*)
IdsAreDense ==
  /\ nextId = produced
  /\ produced = parsed
  /\ event.id = nextId - 1

(* "the fan-out is spliced IN POSITION" (test_tokenizer.cpp): the results  *)
(* of a batch are those of its lines in order, each document's records in  *)
(* its place, and all of them once the call returns.                       *)
FanOutInPlace ==
  LET expected == Spliced(request)
  IN  /\ Len(out) <= Len(expected)
      /\ \A i \in DOMAIN out : out[i][1] = Normalize[expected[i]]
      /\ ~InCall => Len(out) = Len(expected)

(* A line that yields no event leaves the stream's clock alone.            *)
OnlyEventsMoveTheClock ==
  [][reference' # reference => produced' = produced + 1 \/ stream' = Empty]_allVars
============================================================================
