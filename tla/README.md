# A TLA+ model of insight-canon

insight-canon turns CI and service logs into identified events: it normalises a line, finds its format,
parses it, masks what varies, and names the template that is left. This directory holds a model of the
parts of it that keep state or decide between claims, the TLC configurations that check the model on small
instances, and proofs checked by TLAPS for every value of the constants. Every definition is translated from the code under `src/`;
`PROJECT.json` maps each to its lines.

Paths below are relative to `src/core/` unless they start with another directory of `src/`.

## 1. The system

A host declares how a stream was delivered (transport), who wrote it (packages, dialect, channel) and,
perhaps, how it ended. Per stream one `Tokenizer` owns one `LogParser`, which owns one arena and borrows
strategies from a `FormatDetector`:

    line -> peel transport -> LogParser: route to a strategy, parse, lift the level
         -> Tokenizer: resolve the year, mask, hash, number -> CanonicalEvent
    packages -> compose -> for_stream -> the view the walkers, the lift and the outcome resolver read
    every layer -> the logger registry (process wide, any thread)

Calls are synchronous. The library starts no thread; a tokenizer belongs to one thread at a time and keeps
everything per stream, so the only state that threads share is the logger registry and `call_once` in front
of it. Nothing is persisted: a crash loses only memory, so there is no recovery to model.

| Component | State | Operations | What is hard | What makes it correct |
|---|---|---|---|---|
| Arena (`src/arena/arena_allocator.cpp`) | blocks, active index, bytes used, policy | construct, allocate, store_string, reset, move, destroy | growth that re-enters old blocks, allocation that fails halfway, two allocators to free to, moves | live views never overlap, are aligned, lie in memory that is owned once; a reset replays without new memory |
| Logging facade (`src/utils/logger.cpp`) | once flag, `initialised`, registry, report memo, level | init_logging, the accessors, the host's own (de)registration | any interleaving of threads, a throw between two registrations | first call wins, one warning per name, warnings tell the truth, calls return |
| Format detector (`src/parse/format_detector.cpp`) | built-in and package strategies | register, detect, strategy_for | shortlist bound, ties, fallback | the best claim wins; no line is dropped |
| Log parser (`src/parse/log_parser.cpp`) | sticky, active, auto-detect, counters, last format, arena | set_format, set_auto_detect, parse (two doors) | state left by earlier lines and modes | routing is per line where claims exclude one another; counters tell what happened |
| Event time (`src/utils/time_utils.cpp`, tokenizer) | the year reference | utc_mktime, yearless resolution, declare_context | New Year, leap days, ties, drift along the chain | a dense stream is dated as it was written |
| Tokenizer (`src/tokenizer/tokenizer_engine.cpp`) | context, reference, next id, counters | process_line, process_batch, declare_context | documents unpacked inside a batch, refusals, streams one after another | an event depends on its own stream alone; ids dense |
| Composition (`src/compose/compose.cpp`, walkers) | composed rows, the stream's view | compose, for_stream, resolve_stream, classify, recognize, lift_level | order of packages, gates, shadowing prefixes | views unambiguous and independent of order and of earlier views |
| Run outcome (`src/compose/outcome.cpp`) | the last verdict seen | scan, resolve_run_outcome | nested prefixes, two verdict shapes, three suppliers | last verdict line wins, strict ladder, no silent miss |
| Declared transport (`src/transport/transport.cpp`) | none beyond a stack of rows | resolve stack, peel, peel_raw, render prefix | wrong declarations, two stamps on a line, instants before 1970 | peeling undoes delivery, takes only what it claims, renders what it reads |
| Strategies (`src/strategy/*`, `src/scan/*`) | none (a scratch buffer for JSON) | score, parse, unpack an export | a score and a parse are two looks at one line; fields without their terminator; two JSON readers | a claim is a commitment, the message reaches the content, neither reader nor spelling shows |
| Masking (`src/mask/mask.cpp`) | none | member order, rules, dispositions, segment values, declared runs | a dozen rules in order, each with its own notion of an extent | statuses stay apart, a parameter for every hole, presentation does not show |
| Intent identity (`src/identity/intent_identity.cpp`) | none | class, version, discriminant | two loops over one name | class and discriminant lose nothing between them |
| Identity text, projection, lexicon | none | pure functions | | not modelled, see section 7 |

The conformance kit, tools, benchmarks, scripts and corpora measure or test the library and are left out.
`PROJECT.json` lists every component with its status and, under "hazards", each hard place at its line.

## 2. Modules

| Module | Models | Extends |
|---|---|---|
| `Arena` | The arenas of a program over one heap. `heap`, `block` and `blocks` are the system's memory, the Block objects and `blocks_`; `views` (ghost) are the regions handed out. `Allocate` starts a call, `Advance`, `Grow` and `GrowFails` are turns of its loop (the loop can throw between any two), `Bump` is its end; `Construct`, `Reset`, `MoveConstruct`, `MoveAssign`, `Destroy` are the rest. | |
| `ArenaReplay` | A client that warms an arena up, records a sequence of requests after a reset, resets, and repeats it. | `Arena` |
| `LoggerRegistry` | Threads with a `pc`: one action per step of `init_logging` and of an accessor that other threads can come between; a host that registers and drops loggers of the same names. | |
| `FormatDetector` | Shortlist by shape, scoring, choice, as functions of a line's class. | |
| `LogParser` | `ReadLine` is one call of either door and has four ends (`SkipEmpty`, `SkipBlank`, `Succeed`, `Decline`), with `SetFormat` and `SetAutoDetect`. | `FormatDetector` |
| `LineRouting` | Abstract: routing that remembers no line. `LogParser` implements it through the refinement mapping of its instance `PerLine`. | |
| `Calendar` | `utc_mktime`. | |
| `YearResolution` | The candidate years of a yearless stamp and the nearest of them. | `Calendar` |
| `StreamClock` | Lines written by a clock, each with a full stamp, a yearless one or none; the time the tokenizer gives them. | `YearResolution` |
| `Tokenizer` | `process_line`, a batch unfolded line by line with documents unpacked in place, `declare_context`, composed with the whole of `LogParser`. | `LogParser`, `YearResolution` |
| `Composition` | Manifests as sets of rows; compose with its fences and shadow report, the filter of a stream, the walkers. | |
| `RunOutcome` | The scan of a log's lines and the ladder over the composed rows of `Composition`. | `Composition` |
| `Transport` | What a line was wrapped in, stage 1, peeling row by row, and rendering a prefix. | `Calendar` |
| `Texts`, `Bytes` | Words for sequences of cells; classes of bytes, the shell of a token, declared runs. | |
| `Masking` | The composite rules in catalogue order, the status carve-out, dispositions, segment values: what becomes of one token. | `Bytes` |
| `JsonOrder` | The rewriting of a JSON content with its members in order. | |
| `TemplateLoop` | The loop of `stateless_template` over the tokens of one line: `Begin`, then per token `KeepStatus`, `Composite` or `ByValue`, whose ends are `MaskWhole`, `KeepAddress` and `KeepNormalForm`. | `Masking` |
| `Templates` | `PutInOrder` puts the members of a content in order and hands the line to that loop; what the template of a content says. | `TemplateLoop`, `JsonOrder` |
| `Shapes` | Lines of cells with widths: the takers and prefix recognisers of the scanner. | `Texts` |
| `Strategies` | Score and parse of the text strategies. | `Shapes` |
| `Detection` | The shapes of a line, the brace strategies over such lines, the table of scores; `FormatDetector` is instantiated with them. | `Strategies` |
| `JsonRecord` | Objects by their members: roles, ordinals, the OTEL fields and spans, the fast reader and the full one, CloudWatch and journald. | |
| `SpanUnpack` | The walk of an export: every span of every scope of every resource as one canonical flat span. | `JsonRecord` |
| `Intent` | Class, version envelope and discriminant of an intent's name. | `Bytes` |
| `LineRecord` | The record of one line: `DetectText`, `ParseText`, `ReadObject`, `ReadExport` (a document unpacked, its spans read one by one); what claims, objects, exports and the names of intents promise. `Detection`, `JsonRecord` and `SpanUnpack` are its instances. | `Intent` |
| `LineReading` | One line from its bytes to its template: the steps of `LineRecord`, then those of `Templates` on the content that the parse gave. | `Templates`, `LineRecord` |

`MC*` modules give the constants finite values; `*Proofs` modules hold the theorems.

What the data became:

- A line is a class: the shapes the detector's byte tests see, the score of each strategy, whether parsing
  declines, what stage 1 makes of it. `MCLogParser`, `MCMixedStream` and `MCTokenizer` take the scores from
  the shipped strategies.
- In `Composition` and `RunOutcome` bytes matter (prefixes nest), so a line is a sequence over a small alphabet.
- In `Transport` a line is a sequence of cells, a stamp being one cell with a width and the fields it writes.
- A time is a count of slots; how many slots a day has is a constant.
- In `Shapes`, `Strategies` and `Detection` a line is a sequence of cells: a run of digits of a given length, a
  word of a given width and case, or one punctuation byte. Sizes and offsets are counted in bytes, so a
  minimum length in the code is a minimum length here. No cell is a tab. A line is its cells, which are maximal runs; a
  taker that stops inside a run (two digits of a longer day, eight bytes from the middle of a stamp) leaves the rest of it.
- A read past the end of a line gives what stands in memory there, a nondeterministic choice from `Memories`, which
  detection and parse each make for themselves (`LineRecord`).
- In `Masking` and `Intent` a token is a sequence of single bytes or words, with the two alphabets (digits, hex
  letters) small and the lengths of a hash, a UUID and a status scaled down by constants.
- In `JsonRecord` a member is a key of segments (a dotted key has two) and a typed value. A record's text is a
  value the stamp, level and number tables know or do not know. No name is given twice, and no key is escaped.
- Digests and texts of notes are left out, or are the record of what they depend on.

## 3. Runs

All instances are explored completely; there is no constraint but the bounds named here.

| Run | Question | Instance and bounds | Shows |
|---|---|---|---|
| `arena` | Do arenas sharing a heap ever hand out bad memory, and does a steady state allocate? | 2 arenas, 3 blocks, sizes 1 and 5, alignments 1 and 4, initial size 4, `MaxViews` = 3; a client that repeats `MaxRequests` = 2 requests after a reset | Views allocated, disjoint, blocks owned once, through failed growth, moves, NUMA fallback; a repeated sequence gets the same addresses; every call returns |
| `logger` | Is the facade safe in every interleaving? | 2 threads, 2 names, levels info and off, the host registers and drops | Its safety properties and that calls return |
| `logger_race` (violation) | Does the report's precondition hold? | 2 threads, host passive | It does not, see section 6 |
| `parser` | Do earlier lines change what a line becomes? | 10 classes, 3 formats, `MaxLines` = 4 | With exclusive claims the parser implements `LineRouting`; counters are true |
| `mixed_stream` (violation) | The same with the shipped, overlapping scores | 6 classes | The sticky strategy captures lines |
| `stream_clock` | Is each line dated as written? | 2 slots a day, 2021 to 2029, four starts around turns of the year, seven moves, `MaxLines` = 4 | Dense streams are dated truly |
| `tokenizer` | Is a stream's event a function of the stream? | 11 classes, 4 batches, `MaxLines` = 4 | Events, ids, fan-out |
| `composition` | Can order or an earlier view show, and which supplier and which line decide the outcome? | every sequence of up to 3 of 8 packages, every declaration, lines of up to 3 bytes; 2 package sets, logs of up to `MaxLines` = 3 of 12 lines, 20 side inputs | Views unambiguous, ordered by nothing but names, shadows reported; last verdict line, ladder, notes |
| `transport` | Does peeling undo delivery? | layers and declarations of up to 2 rows and one of 3, 12 payloads, both doors; 279 turns of days between 1678 and 2262, first and last tick | Peeling and rendering laws |
| `one_line` | What becomes of one line? | some forty layouts of the built-in formats, each with one cell cut, added or replaced by a stray one, cells of one run that meet being joined; syslog stamps with the day glued to the clock and seven things behind it, over two memories; about 100 shapes of token alone and behind a key, with `mask_ip` on and off and with and without declared runs; JSON objects of up to three members and their escaped and nested forms; exports of up to three spans in two scopes and two resources; every pair of intent names | Claims are kept, messages arrive, readers and spellings do not show, a document tells what its spans tell, masking keeps its promises, identities lose nothing |
| `header_trims` (violation) | Do the trims of a syslog stamp stay in the line? | the stamps with a glued day | The header is read behind the line, see section 6 |
| `claims` (violation) | Does every claim parse? | lines led by a date and a time | The IIS strategy claims lines it refuses, see section 6 |

Why the bounds are enough:

- Arena: the interesting cases are a request that overflows the active block, one that overflows the retained
  next one too, padding at the last byte, and a move between owners. Three blocks, two alignments over base
  addresses modulo 4 and a size larger than every initial block reach all of them. The proofs remove the bound.
- Logger: two threads meet in every pair of steps; the memo, the once flag and the host add a third party. The
  safety properties are proved for any number of threads.
- Parser: a routing decision depends on mode, sticky and the line, so two lines after a declaration show every
  pair; four allow a change of mode between. The scores and classes are those on which strategies differ.
- Clock: one move can be half a year either way; four lines let a bare or yearless line stand between two
  stamped ones. `DenseIsTrue` is proved for every instance.
- Composition: two rows of different packages interact through one prefix relation and one pair of gates; the
  third package settles whether order shows.
- Outcome: the verdict kept, the verdict overwritten and the line in between are three lines.
- Transport: a row sees only the head of a line, so two layers over a payload that itself looks like a layer
  show every confusion of neighbours.

- One line: the strategies look at a line cell by cell and disagree where one cell is missing, doubled or of
  another kind, so one damaged cell per layout reaches each test of a claim without its twin in the parse. A cut that
  lets two runs of digits or of letters meet makes one run of them. The day and the hour of a syslog stamp are the one such
  place where two walks of the code part, and the glued stamps are followed by nothing, by less and by more than the second walk takes.
  Masking looks at a token and the one before it, so two tokens are enough; the shapes are an address whose port is as
  long as a hash, which a composite claims before the switch for addresses is asked, and the product of heads (keys, quotes, brackets), cores (numbers, hashes, UUIDs, instants, addresses, markers) and tails, with
  the paths under each ephemeral root. Three members are two that compete for a role and a third of another.

Deadlock is checked in every run but `arena` (the client stops when it has repeated its requests),
`composition`, `transport`, `one_line`, `header_trims` and `claims` (composing, resolving, peeling and reading a line end).

Each property of a passing run has a mutant in `PROJECT.json`: a definition with a bug that the code could
have (a dropped guard, a missing reset, a swapped order), under which the run fails on that property.

## 4. Fairness and liveness

- `Arena!FairSpec`, `ArenaReplay!FairReplay`: weak fairness of the allocate loop's own steps. One thread runs
  the loop without suspension. Nobody is obliged to start a call.
- `LoggerRegistry!FairSpec`: weak fairness of each thread's steps inside a call; the scheduler eventually runs
  a runnable thread. Entering a call and the host's acts are not fair. `CallsReturn` is conditional on
  `init_logging` throwing only finitely often: with a host that keeps taking names, `call_once` can hand its turn to another thread
  each time, and a waiter can starve.

There is no other fairness: the remaining properties are invariants and action properties.

## 5. Proofs

The theorems hold for every value of the constants that satisfies the named ASSUMEs, which TLC evaluates in the runs.
Most only give types, non-zero sizes and consistent tables. These say more of the code's inputs:

- `ChannelAssumption`: a marker row's channel is one its package declares, or any. Compose does not check it; the
  catalogue of a package does (`all_channel_gates_declared`, `api/canon.spi.cppm`).
- `TransportAssumption`: a delivered line is a sequence of cells under layers the catalogue knows. Nothing is asked of the
  payload, which may look like any layer, or of the declaration.
- `LogAssumption`, `BytesAssumption`: log lines and keys are sequences of bytes.
- `TextLinesAssumption`, `ObjectsAssumption`, `NamesAssumption`: lines, names, introducers and markers are sequences, an object is a
  sequence of members with a key and a value, and a string value is its text and whether its bytes hold an escape.
- `MemoriesAssumption`: something stands behind a line, and it is a sequence of cells.
- `AlphabetAssumption`: a punctuation byte the rules name is neither a digit nor a letter.

| Theorems | Argument |
|---|---|
| `ArenaProofs`: `TypeCorrect`, `ViewsStayInside`, `ViewsNeverOverlap`, `OneOwner`, `TailStaysRewound`, `OneGrowthSuffices`, `ViewsStartAligned` | `IInv`. Disjointness alone is not inductive: a re-entered block is rewound, so the blocks after the active one must be known empty (`TailRewound`) and every view below its block's offset (`HandedOutExtent`). `OneGrowthSuffices` needs the padding lemmas: the block appended holds the request with any padding. `ViewsStartAligned` is arithmetic: base, offset and the padding added to them are a multiple of the alignment, whatever it is. |
| `ArenaProofs`: `ReplayGetsItsAddressesBack`, `ReplayTakesNothing` | `ReplayInv`. While recording, each answer is the first place in the row of blocks that takes the request, at or after the place of the answer before (`AnswerFollows`): blocks are only appended, so that stays true of the grown row. After `cursor` repeated requests the arena stands where it stood after as many recorded ones (`StandsAfter`), and the first place that takes a request is unique. |
| `LoggerRegistryProofs`: `TypeCorrect`, `InitialisedIsTrue`, `OneWarningPerName`, `LateReports`, `FirstCall` | `IInv`. At most one thread is inside `call_once` (`OneInLambda`), its progress is what has been registered (`Progress`), a thread about to warn owns the memo entry (`WarningsOwed`), and a late miss is true when made (`LateMissesAreTrue`). |
| `TokenizerProofs`: `WinnerBeatsAll`, `NoneOnBlanksOnly` | From the choice's definition; a finite non-empty set of scores has a maximum. |
| `TokenizerProofs`: `TypeCorrect`, `SkipsAreExact`, `FallbackIsLast`, `PinForgotten`, `EchoWins`, `StoredOnlyIfRouted`, `RoutedFormat`, `StickyIsInvisible` | `IInv`; the last is the refinement of `LineRouting` under `ExclusiveClaims`: the sticky strategy scores on a line only if detection would choose it. |
| `TimeProofs`: `DenseIsTrue`, `DenseIsTimed`, `YearsAreRead`, `TypeCorrect` | `IInv` ties the reference to the last true time. The core lemma: in a dense stream the year written is among the candidates and any other candidate is farther away, leap days included. |
| `TokenizerProofs`: `DenseIds`, `ClockMovesWithEvents` | Ids, counters and parsed lines move together through every door, the queue of a batch included. |
| `TokenizerProofs`: `TokenizerImplementsParser`, `EventsAreOfTheirStream` | Every step of a tokenizer is a step of its parser or leaves it alone, so the parser's theorems carry over, `StickyIsInvisible` among them. The reference is then what the stream's own lines leave behind, replayed one by one from a fresh context (`ReferenceAfter`, a recursive function). |
| `TokenizerProofs`: `BatchAnswersInOrder` | `FansOut`: what is left of the batch is its end (`IsEndOf`), and the results so far with what is to come, documents unpacked, are the whole batch unpacked (`Answers`). |
| `CompositionProofs`: `UniqueRules`, `ViewsAreFresh`, `ShadowsAreNoted`, `OrderNeverShows`, `WithholdingIsRight`, `LadderIsStrict`, `NoMissIsSilent` | `ViewIsAdmitted`: a view is a filter of the composed rows by the declared dialect, and two rows of one key that one declaration admits have gates that intersect, which the fence refuses. `ShadowsAreNoted`: two prefixes of one line nest, so a longer one that takes a line from a shorter one extends it, and the report names the pair. `OrderNeverShows`: packages are placed by name, which the fence keeps distinct, so their order in the call is forgotten. The outcome theorems use `OutcomeInv`: every resolution is that of its side input over the composed rows, with at most one verdict kept. |
| `CompositionProofs`: `LastLineWins` | The segments of a line are a pass: the match kept after each is the best of those read, by prefix length and then position. Over the lines, `VerdictInv`: the verdict kept is that of the last line with one. |
| `TimeProofs`: `RenderingReadsBack` | Not inductive in the delivery; the work is arithmetic. A day of an era lies in one of its years, the era repeats the calendar, each month from March starts where the offsets say: `CivilIsCalendar`. `SlotOfDay` does the slots within a day by floor division, which is where truncation before 1970 would fail. |
| `TimeProofs`: `NothingElseIsTaken`, `InnermostStampDecides` | `PeelInv`: the content is an end of the line that was started with, what is gone is what the rows took with the spaces behind it, and the time is that of the last stamp gone. |
| `TimeProofs`: `DeclarationUnwraps` | `UnwrapInv`: under a right declaration, after k rows the content is the line inside k layers, its spaces stripped when the last layer was a stamp. Stage 1 takes nothing from a layer and the ending only from the payload, so it commutes with wrapping (`NormalizeInside`); the spaces stripped behind an outer layer belong to it, because what follows begins with a bracket, a stamp or a mark, or is the payload itself. |
| `LineProofs`: `TemplateTellsItsParams`, `SwitchIsForAddresses` | `LoopInv`: what has been appended for each token read is its form (`InForm`), and the parameters bind the wildcards in order (`Binds`). A token is a parameter exactly when its form is the wildcard: a status value is made of digits, and an address contains a dot (`AddressHasADot`, its octets unfolded one by one), so neither kept token is one. The theorems are of `SpecLoop`, whose lines are any sequences; each step that `LineReading` takes on a content is a step of `SpecLoop`, as each step that it takes on a line is one of `SpecRecord`. |
| `LineProofs`: `ReaderHolds`, `SpellingHolds` | `RecordOfObject`: an object that has been read holds its `ObjectRecord`. Two objects are `ReadAlike` when all that a reader asks of them (names, texts, numbers, levels, the offers it chooses between) is answered alike. An escape changes no answer and sends the object to the full reader, which gives what the flat scan gave: where that one is taken, no OTEL member stands (`FlatIsSlow`). The offers of a nested member are those of the dotted one (`SpelledOffers`), and the best of them is the same choice (`SpelledChosen`). |
| `LineProofs`: `ClaimHolds` | One case per strategy: what the parse needs is what the recogniser of the claim has seen. For syslog, where the trims stay in the line, claim and parse read one header whichever way the stamp is walked; where they leave it, two memories are read and nothing is claimed. `LineIsScored` carries the scores from the detection to the claim. |
| `LineProofs`: `ReachHolds` | A line with eight words behind it `EndsIn` so many of them (`ExtraEnds`). Each taker of a field keeps them all or takes one, when a delimiter is what it looks for and none of the words is one (`UntilKeeps`); the glued walk takes at most eight bytes. One lemma per layout counts what its fields can take: fewer than the eight that are there, so the last stands last in the content (`LayoutsReach`). |
| `LineProofs`: `ShortlistHolds` | What a line opens with decides its shapes, and what `candidates_for` offers for these stands in four seats of its table and the last four (`OfferedTogether`): at most eight, so none is cut off and the best offer is detected (`DetectIsBest`). Every claim outside `NeverOffered` has the shape that offers it (`ClaimHasShape`), one lemma per strategy from its recogniser to the gate. Log4j needs the most: its stamp is looked for behind a prefix of bounded size, in the line as given and in the trimmed one, and is found at the same place (`StampsShift`). |
| `LineProofs`: `IdentityHolds`, from `IntentProofs` | The scan of a name is a recursive function over its positions, met by the function it defines (`ScanExists`), so its spans are a row inside the name (`SpansType`). The class is then what stands before the first span, a mask and what follows, and what stands behind the last (`MaskedEnds`); the discriminant is what stands between, its declared runs replaced, which commutes with cutting the envelope out (`ReplacedInside`). Two texts of three parts whose outer parts are as long are equal part by part (`SameEnds`). Nothing is asked of the names but that they are sequences. |

Induction. The library's induction theorems take an operator as a parameter, which the provers here cannot instantiate.
`Induction` states what these proofs need over sets instead: a non-empty set of naturals has a least element, a set with
0 that is closed under successor holds all naturals, and a recursive function over positions is met by the function it
defines (`PassExists`, `PassType`); `ScanExists` and `Downwards` of `LineProofs` and `IntentProofs` are the same for a function that reads on at any
later position. Definitions that the proofs are about are therefore written as recursive functions, and the folds of the
community modules, which are defined by recursion over an operator, are not used in them.

Several theorems state properties no run lists, where a run would only repeat the proof: the four type
invariants `TypeOK`, `AtMostOneWarning`, `RoutedFormatNeedsAnEvent`, `NoYearInvented`, `OnlyEventsMoveTheClock`, `TailRewound`,
`GrowsAtMostOnce`, `ViewsAligned`, `NeverOutOfBlocks`, `DetectionForgetsThePin`, `EchoOutranksLift`, `OnlyRoutedLinesAreStored`,
`StampedIsTimed`, `RecordOfObject`, `LineIsScored`, the implementation of the parser by the tokenizer, and the two of the detector.

Checked by TLC only:

- Liveness: `CallsReturn` of the arena and of the logger.
- `MemberOrderIsPresentation`: the rewriting of an object's members is recursive over nested objects (`JsonOrder`), and the provers
  have no induction over a tree of data.
- `StatusStaysDistinct` and `RootsIgnoreTheirLead`: what a catalogue of two dozen rules makes of a token and of another one beside it.
  Which rule answers first is a question of the catalogue rule by rule, and the recursion of the segments runs through all of them.
  That at most one composite rule in a list gives a form is read from the order of the catalogue, and the model takes the
  form that is given (`ClaimedForm`).
- `ExportTellsTheSpans`: the walk flattens arrays of arrays of arrays, and what it writes is read back by the reader of flat spans,
  record by record.

## 6. What the model found

Each has a run that TLC violates.

- `logger_race`: an accessor's lookup and its question `initialised()` are two steps (`src/utils/logger.cpp:82`,
  `:84`). A lookup that misses just before `init_logging` completes reports a registered logger as not
  registered. The cost is one misleading warning and one record on the default logger; what a late call
  reports is always true (`LateReportsAreTrue`).
- `mixed_stream`: the sticky strategy keeps any line it scores on, so a CloudWatch record after a JSON line is
  parsed as JSON, against "a line's template is a pure function of its bytes".
- `header_trims`: `is_bsd_syslog_prefix` takes at most two digits for the day and asks for no blank behind them
  (`src/scan/canon.detail.scan.cppm:223`), so `Jun 0312:34:56x` is a syslog stamp. `scan_syslog_header` walks the stamp a second
  time, over all four digits, and adds the eight bytes of a clock (`src/strategy/syslog.cpp:48-55`): `ts_end` is 16 on a line of
  15 bytes, and both trims (`:56-57`) leave the line, against "the prefix predicate already proved the walk lands a full time
  field inside the line" and "so the two trims below are in range by construction" (`:45-47`). The model reads a header from
  whatever stands behind the line, once for the score and once for the parse; a library that checks the trims would stop
  instead, which is not modelled. Where two bytes or more follow the clock the trims are in range and take those two
  along: the host or a part of it goes with the stamp. `ClaimIsCommitment` is stated of the lines where they are in range, that case included.
- `claims`: the IIS strategy scores 0.87 on any line led by a date, a space and a time
  (`src/strategy/iis_w3c.cpp:143`) and refuses it for want of an HTTP method (`:100`), so `2024-01-01 10:00:00 text`
  yields no event, against "non-zero only if parse() is structurally committed to succeeding"
  (`api/canon.spi.cppm:204`). `ClaimIsCommitment` shows which strategies do keep that promise.

Disagreements between comment and code noticed while reading, without a run:

- The batch door probes the raw bytes for a document (`src/tokenizer/tokenizer_engine.cpp:238`), the strategy refuses one on
  the bytes stage 1 has cleaned (`src/strategy/json.cpp:687`): a document wrapped in terminal escapes is not unpacked and comes
  out as an error, where `tokenizer_engine.cpp:236` unpacks an export 1 to N. `MCBatches` has such a batch.
- `semantic/gitlab/src/gitlab_strategy.cpp:116` scores 0.92 on a line that is only a prefix and then declines it, where
  the strategy interface (`api/canon.spi.cppm:200`) expects a score to be a claim.
- A blank line under a pinned strategy counts as failed (`src/parse/log_parser.cpp:130`), where
  `src/parse/canon.detail.parse.cppm:154` counts it as skipped. `SkipsExactlyNoEvents` is therefore stated under
  detection.
- `api/canon.cppm:294` says a half pair "falls back to `stream_view`"; `src/compose/outcome.cpp:93` terminates.
- `src/compose/outcome.cpp:146` says a bare CR starts a line and the last verdict line wins; inside one
  CR-framed line the longest prefix wins, then the first segment. `LastVerdictLineWins` is stated of newline-framed lines, with those ties.
- When both the side input and the console token miss, the first note overwrites the second; a note remains, which is
  what `NoSilentMiss` asks.
- The renderer's law (`api/canon.transport.cppm:202`) fails for instants in the cut-off years 1677 and 2262, which
  a timestamp holds and the parser refuses. `RenderedReadsBack` is stated for the years the parser represents.
- The gate before the composite rules (`src/mask/mask.cpp:1127`) asks for one of `: / # - =` or a bracket, where
  `src/scan/canon.detail.scan.cppm:128` says every rule but one carries its own trigger: a path of backslashes only
  (`\Users\u\AppData\Local\Temp\k`) is masked behind an opener and kept bare. `RootsIgnoreTheirLead` is stated of
  the tokens that pass the gate.
- Some claims are never asked: the shortlist does not offer SparkHDFS an HDFS line (`081109 203615 148 INFO ...`, 0.85),
  CLF a record without `HTTP/`, HPC a line without ` node-` or ` unix.`, syslog a month glued to its day, although
  `src/parse/format_detector.cpp:158` says that every built-in claimant is offered. `NeverOffered` names them, and
  `ShortlistLosesNothing` is stated of the rest. One was found by the proof: a line led by an RFC 3339 instant (with a `T`) that holds a
  second, space-separated stamp is scored by Log4j, which locates that stamp, and is not offered to it, where
  `src/parse/format_detector.cpp:136` says that "the same bounded locator Log4jStrategy uses decides here, so the gate and the
  claim cannot disagree". TLC confirms it on such a line; Rfc3339Text takes the line either way.
- A class and a discriminant separate two names that are masked in the same place. Two names of one class whose first or last
  spans stand in different places can share a discriminant (`src/identity/intent_identity.cpp:195` says "whose spans occupy
  the same class positions"): `IdentitySeparates` asks for equal ends, and its proof uses both.
- A dotted key and its nested form are one document only for plain values and outside the names that the OTEL readers ask an
  object for (`body`, `status`, `resourceSpans`): an array or an object under a dotted key is not looked into, and those names
  decide by themselves which reader takes the object.
- An escape inside a text that a probe of the raw bytes looks for (`"logGroup"` as a value, say) hides it from the probe.
  `ReaderIsInvisible` is stated of the other texts.
- A `resourceSpans` document that mentions `"logGroup"` is a CloudWatch record on the single-line door; the refusal at
  `src/strategy/json.cpp:687` is not asked.
- An export's service name is read unescaped and written into the flat span as it is (`src/strategy/span_unpack.cpp:203`),
  and an attribute array of nothing but blanks (`[ ]`) is spliced as a trailing comma (`:211`): either span is then no JSON,
  where the comment at `:205` splices an interior "when it is non-empty".
- The acquisition door answers true for any line that quotes `"resourceSpans"` (`src/tokenizer/tokenizer_engine.cpp:215`), a
  log message that mentions it included, where `api/canon.cppm:136` says false for what is no export: such a line gives no record.
- A span without `traceId` comes out of an export with an empty one, so its trace is present; as a line of its own it has none.
- A status inside a compound value (`x;status=200`) is masked, where `technical_docs/masking.md:230` keeps it.
- Several minimum lengths are larger than the predicate they guard, and `a=""` counts for a key-value score but gives
  no pair.
- Stage 1 is not idempotent on a line that ends in a CR followed by an escape: the escape goes and leaves the CR.

## 7. Not modelled

- Stamp grammars, the vocabulary of level words, number and UTF-8 grammars: pure functions whose result (a time, a
  level, a number or none) is a constant of the models.
- What is left of a word that is cut in the middle (only behind a glued syslog day) is a word and taken for no level, and a
  crash or an assertion on a trim out of range is not modelled.
- Malformed JSON, a name given twice in an object that is read for roles, escaped keys, tabs, and the vectorised scans.
- The bytes of an export: a document cut short, a service name with an escape, an array of blanks. `Tokenizer` takes
  the records of a document as a constant; `SpanUnpack` says which they are.
- The textual form of a template identity, projection, n-gram identity: functions of the template alone.
- The failure lexicon is a table of words; the GitLab strategy and the GitHub provenance hook are code of their packages.
- `det_int128` and the UTF-8 validator, the conformance kit, tools, benchmarks and scripts.
- The arena's size arithmetic is over the naturals: the code's missing overflow test (`arena_allocator.cpp:191`)
  would show only for a request near the size of the address space.
- spdlog, libnuma, simdjson and the hash are external and appear only through the answers the code depends on.
- Package tables are constants: the shipped ones are data.

## 8. Plan

Done, in this order: arena; logger; detector, parser and abstract routing; calendar, years and stream clock;
tokenizer; composition; outcome; transport; masking, JSON order and templates; the strategies and the shapes of
a line; JSON records; the walk of an export; intent identity; all of one line composed in `LineReading`; the proofs of section 5.

Next, model:

1. Documents cut short: which spans are out before the end is missed, and what the two doors say of it.
2. The GitLab strategy and the GitHub provenance hook; the scores of `MCMixedStream` taken from `Detection`.
3. Projection and the textual form of an identity over `Templates`.
4. `NumaLibrary`: loading of symbols, policy resolution, partial availability; composed with `Arena`.
5. 128-bit arithmetic at a small width against integers; UTF-8 well-formedness against its definition.
6. The stamp parsers as a table of which fields each reads and leaves out.

Next, prove: that a status value keeps its digits through the normal form (`StatusStaysDistinct`, for the spots of a shell and of a
key); that roots ignore their lead (`RootsIgnoreTheirLead`); the walk of an export (`ExportTellsTheSpans`).
