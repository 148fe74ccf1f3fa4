# Specifications of jsonize

`jz` turns the output of a command, a file or a pipe into JSON by definitions
that say what such output looks like. This directory holds TLA+ specifications
of the parts of it whose correctness is in the order things happen or in rules
that interact, the TLC runs that check them, and the proofs TLAPS checks.
`PROJECT.json` lists every component, run, mutant, finding, hazard and theorem,
and maps every definition to the lines it stands for.

## The system

| Component | State it keeps | Operations | Interacts with |
|---|---|---|---|
| `cmd/jz` | none | start, exit status | calls `internal/cli` |
| `internal/cli` convert, run, stream | the exit status being made up, what was written, the lines held while a format is being settled | `cmdParse`, `cmdRun`, `runStream`, `stream`, `readHead` | calls selector, engine, runner; writes standard output |
| `internal/cli` keys | the keys named, those records had and those shown | `know`, `apply`, `streamEmit`, `unseen` | wraps the emitter of a conversion |
| `internal/cli` new | the values read once for all documents | `cmdNew`, `newEach`, `eachDocument` | jsonbuild, datafile |
| `internal/cli` sources | none | `sources`, `loadRegistryFor` | registry |
| `internal/cli` flags, list, explain, test, completion, version | none | print | registry, conformance, schema |
| `internal/runner` | the child process, its pipe, the limited buffer, the result, the signal relay | `Run`, `Stream`, `forwardTo`, `stop` | os/exec, signals, the consumer of `Stream` |
| `internal/recordio` | the record being read | `Read` | engine, datafile |
| `pkg/selector` | none (`Select`), the candidates still possible (`Watch`) | `Select`, `Candidates`, `Watch.Decide` | registry |
| `pkg/engine` | the pipeline's held lines, group and record being folded, the ledger of what was read | `Parse`, `Stream`, `ParseComposite`, `StreamComposite` | recordio, convert |
| `pkg/registry` | the merged index, disable rules, problems | `Load`, `Lookup`, `Variants` | definition |
| `pkg/definition` | the definition being validated | `Load`, `LoadInline`, `WithTypes` | yaml |
| `pkg/convert`, `pkg/jsonutil` | none | conversions, ordered objects, encoding | engine |
| `internal/yaml` | the parse position | `Parse`, `Unmarshal` | definition |
| `internal/datafile` | the value counter | `Read`, `Stream` | recordio |
| `internal/jsonbuild` | the tree of placements | `Parse`, `Build`, `Fixed.With` | datafile |
| `internal/schema`, `internal/conformance` | none | derive, compare, check | definition, engine, selector |
| `registry/` | the official definitions (YAML data) | | registry |

The behaviours that are hard here are of three kinds. In the runner, four
goroutines of jz, three of the standard library, the command, a process it may
leave behind and the people who send signals act at once, against two deadlines.
In the readings, the same text is read twice by code arranged differently: the
selector and the engine decide on a prefix of a stream what the whole text would
have them decide, and must be right about text nobody has written yet. In the
schemas, three pieces of code (what the engine produces, what the generator says
of it, what Compare calls a break) must agree about every definition and every
change of it, through histories no single change shows.

What makes each part correct:

- **runner**: output that ends as whole is all of it and of a command that ended
  by itself; a command that was cut is never reported as one that finished; a
  limit is exact; the run ends whatever the consumer and the command do, and whatever
  is left behind does, unless that goes on printing to a streamed run; a signal reaches
  the command, and once unless it was sent to the whole group or the groups changed.
- **run**: status zero means a whole document was written; the command's own
  failure is what jz ends with; a command jz stopped is not blamed for it.
- **selector**: what a stream chose by its first lines is what the whole text gives.
- **engine**: the two readings agree on records, errors and unread lines; a
  record is handed over as soon as nothing can change it; what is held is charged.
- **data**: an argument of `jz new` is at its place or refused, whatever came before it; a
  record of a stream is what it is in the whole; limits are of the document,
  however it is counted; a named key is refused just when nothing has it; an
  option that is accepted does something.
- **registry**: what is loaded is what the layers say; reading only part of a
  registry answers as if all of it had been read; every definition that is
  counted has been decoded.
- **schemas**: documents fit the schema they were written under and the ones
  published after it under the same version; readers of one still read the other.

## Modules

```
ExecChild ----+-- StreamRunner ---+-- RunStream ------+
              |                   |                   +-- RunStreamProofs
              |                   +-- OutputFeed, the abstract feed StreamRunner implements
              +-- CollectRunner ----- RunCollected ------- RunCollectedProofs
SignalRelay ----- SignalRelayProofs
Selection ---+--- MCSelection
             +--- SelectionProofs
Registry ----+--- MCRegistry
             +--- RegistryProofs
Reading --------- Streaming ---+--- MCStreaming
                               +--- StreamingProofs
Definitions --+-- Documents --+
              +-- Schemas ----+-- Outputs --+
Contract ------------------------------------+-- MCContract
    +------------ ContractProofs
Formats ---+-- DataFiles --+-- Narrowing ----------+
           |               +-- Building -----------+
Planning --|---------------+                       +-- Texts --+
   |       +-- Options ----------------------------+           +-- DataCommands --- DataClaims --- MCDataCommands
   +-----------+-- Settling -----------------------------------+
KeyFilters ----+       +--- SettlingProofs
```

### The runner

`ExecChild` is the command as os/exec and the kernel present it: `plan` (how many
chunks it prints if let alone, and whether it then ends), `proc`, `end` and `endedBy`, the pipe (`wrote`, `piped`), the
process left behind (`heir`, `late`), the context (`timedOut`, `cancelled`) and
the goroutines of os/exec (`watch`, `copier`, `waitPc`). It is external code,
modelled from how `internal/runner` uses it, and mapped as such.

`StreamRunner` is `runner.Stream`. `main` is the goroutine inside `Stream`,
`waiter` the one that waits, sets the read deadline and closes the pipe,
`reader` the read the consumer is blocked in, `draining` the one that reads what
the consumer left. `feed` is what the end of the output told the consumer: open,
whole or cut. A read that ends decides that in two steps, as the code does: what the read
returned (`ReadEOF`, `ReadTimesOut`), then what is made of it once the command
has been waited for (`EndOfOutput`). `OutputFeed` is what this promises a
consumer, without any of the goroutines, and `ImplementsFeed` is the refinement.

`CollectRunner` is `runner.Run`: the copying goroutine of os/exec writes into the
limited buffer (`kept`, `keptLate`, `over`), which cancels the context with a
cause that stands only if it is first (`cause`).

`RunStream` and `RunCollected` add what `internal/cli` makes of either: the head
of a stream, its records, the end of it, and the status jz ends with; the cut, the
blank and the unreadable document.

`SignalRelay` is `forwardTo` with its buffered channel: a signal may end jz
before the subscription, wait in the queue, find it full, be skipped because the
terminal delivered it to the command's group already, or be sent on. A terminal sends an
interrupt to its foreground group; a process sends an interrupt or a SIGTERM to the
whole group, which reaches the command as well, or to jz alone (`Kinds`). A shell moves
jz's job between foreground and background (`JobMoves`) and the command makes a group of its own
(`CommandRegroups`) at any moment, so that the groups the relay reads need not be those
the signal met; `met` remembers whether they are.

### The choice of a definition

`Selection` holds a text that grows by a line, what of it has been read, how far
each expression is judged and what was answered. `Select` is the selector on a
window; `judge`, `decide` and the two `settledBetween` are `Watch.Decide`;
`LineComes`, `ReadLine`, `EndOfInput` and `Choose` are `readHead`. After the
choice `GoesOn` lets the text continue, and `Choice` is what the text as it then
is would give. A line is a value, an expression what it matches: `Matches`,
`EndsText` (may it look at the end of the text) and `ClosedBy` (can what follows
no longer change it, the walk through the compiled program) are constants, and
`MatchAssumption` is all that is asked of them.

### The registry

`Registry` has for each layer a list of files and a disable list. `Walk` lists
them in any order, workers claim indices and decode (`Claims`, `Decodes`),
`Take` merges one definition into the index or switches it off, and `Returned`
is `Load`. `Reload` is `loadRegistryFor` finding that the names on the command
line are not all answered by what it read. `Layered` is the reference: what the
layers say, written without any of that.

### The two readings

`Reading` is `Parse`: folding, selecting, each kind of parser, composites, and
the accounting of what nobody read. `Streaming` is `Stream`: one action per line
that arrives (`Reads`), one for the end (`Ends`), one for a failing input
(`ReadFails`), each the whole path of a line through folding, selection, the
parser of each part and the fate of a line several parts were offered. `Whole`
is the same text read by `Reading`, so every property of the run compares them.

### The data commands

`jz` reading data or text, and `jz new` making it of arguments, as one state
machine over operators that stand for the packages they call. `DataFiles` is
`internal/datafile`: a text is a sequence of letters, each of them what some reader
of it tells from the rest (a digit for a number, a mark, a line ending, a byte that is
no text); a whole file is read by `Read`, a record by `RecordOf`. `Planning` and `Building` are
`internal/jsonbuild`: an argument is cut into where, how and what (`parseArg`),
placed among the nodes the earlier ones planned (`place`, a step of its location at a time, by
`intoObject` and `intoArray`), read (`value`) and made into a document (`Build`; `Fixed` and `With`
for `--each`). `Planning` also has what the arguments say, worked out from all of them at once:
the place each one names (`Said`), when a place can be had (`IsSayable`) and which nodes that makes
(`IsPlanOf`). `KeyFilters` and `Narrowing` are the filter of keys, before and after anything is
read, `Formats` what a file's name says of it, `Options` which combinations of options are
refused, in the order they are, and what they do to the definition (`settle`), and
`Texts` the little of an engine that the plumbing needs: a line stands for the
keys it yields.

`DataCommands` has the steps: an argument (`Given`), the start (`NewStarts`,
`ConvertStarts`), letters that come to a whole reading (`Comes`) and its end
(`WholeEnds`, `WholeFails`), and for a stream `RecordGrows`, `RecordEnds`,
`StreamEnds` and `StreamFails`; a write of any document may find the output closed
or failing (`Writes`). `DataClaims` is what is promised of it, each without
the steps that come to it: the places of all arguments worked out at once, every
record on its own, the whole reading, a line given to `jz new` by itself.

`Settling` is what comes before the first read. Of `jz`: options are given, and what they settle is
worked out or refused (`Settles`, the part of `ConvertStarts` that sets `settled`). Of `jz new`: one
argument after another is planned or refused (`Gives`, which `Given` is with what `parseArg` makes of
an argument), and the plan is settled when there are no more (`AllGiven`, in `NewStarts`). No other action of
`DataCommands` changes the command, what is settled, the places or the plan. This reaches no input, so it needs
nothing that recurses over documents, and can be proved about; what it says an option does is `Effect`,
the definitions that read and how, the keys and how the output is written. `Placements` stands for
what `parseArg` makes of any argument: a location, or a refusal.

### The output contract

`Definitions` is what a definition may say and which definitions load.
`Documents` is what the engine produces of a text, `Schemas` is `Generate`,
`Validate` and `Compare`, and `Outputs` makes tables of them: which schema is the same,
which change breaks, whose documents fit whose schema. `Contract` is the
repository's own procedure over those tables: edit a definition, write its
schema by `Update` or by hand, run the tests that compare it with the generated
one and with the base, merge, retire. It is kept free of the tables, which use
recursive operators, so that it can be proved about for any.

## Runs

| Run | Distinct states | Question |
|---|---|---|
| `run_stream` | 295,792 | Does a streamed run hand over all of the output, say rightly how it ended, return unless what is left behind prints for ever, implement `OutputFeed`, and is the status `jz run --stream` ends with earned, whatever the head, the records, the command and the deadline do? |
| `collected` | 165,529 | Is what `jz run` collects exact against the limit, what it writes whole, and does it end under a process that prints for ever? |
| `relay` | 2,933,034 | Of signals of either kind, from the terminal and from processes, to the group or to jz alone, while the groups change: which may arrive twice, which are kept from the command, and does a SIGTERM arrive? |
| `selection` | 372,800 | Does what a stream chose stand however the text goes on? |
| `registry` | 274,704 | Is the merged index what the layers say, for every three layers of small registries, any order of walking and decoding? |
| `streaming` | 63,186 | Do the two readings agree on every text of up to five lines, at every prefix of it? |
| `data` | 1,732,368 | Is every document what the arguments or the records say, whole or streamed, within the limits and with the keys named, and does every option that is accepted do something? |
| `contract` | 88,870 | Over any history of edits and merges, do documents and readers of a version stay good? |

Four more are expected to be violated, each by what the code does against what
the repository says of it (`findings` in `PROJECT.json` has both lines):

- `collect_limit`: a run whose deadline has cancelled the context no longer
  records that the limit was passed; the surplus is dropped and the run is
  returned as a result (`runner.go:174` against `runner.go:27`). A command
  that exits with zero once it was asked to go is an error (`runner.go:97`); but one that handles
  SIGTERM and exits with a status of its own, or that had ended with zero just before the
  deadline while its output was still being copied, has a truncated document written
  as if it were whole.
- `select_blank`: a stream's window that ends with a blank line is read as if the
  text ended there (`selector.go:855` against `:852`). `SettledStands` and
  `FullWindowStands` hold; this case is the one the second leaves out.
- `stream_trailer`: in a composite, a line that a block of a `records` part
  leaves to another part is unread for the stream and read for the whole text
  (`stream.go:530` against `engine.go:11-12`).
- `contract_items`: the items of an array under a rule with an optional group may be
  null where the schema says string (`generate.go:337` against `:23`).

These cases are left out of the passing runs only where the property names them
(`FullWindowStands` says "unless the window ends with a blank line") or the
constants do (`MCDefinitions` has no composite with a trailer, `MCFamilies` not
the ninth family); the models are the same in both.

## Bounds, and why they are enough

Runner: two chunks printed by the command and a pipe with room for one
(`MaxWrites = 2`, `PipeCap = 1`), so that the command may block on a full pipe,
be read between chunks and leave one behind; the process it leaves prints for ever
if it likes (`Chatty`). `LateWrites` counts what it printed where that matters: up to three
chunks against a limit of two in `collected`, none in `run_stream`, which has no limit. Only
`collect_limit`, whose violation needs none of this, has a process that prints one chunk at most. All counters are only ever compared with each other, with
the capacity or with the limit, so a longer run repeats these cases. Platform:
`HasSignals = TRUE` is everything but Windows; the theorems hold for both.
`Copied` says whether standard error is copied by os/exec, which adds a
goroutine to wait for: `run_stream` has it, and the theorems hold for either.

Relay: three signals, numbered as they come, and a channel of two, so that it is full with
one more to come; each may be of any kind, and the groups change as often as they like. The
code has room for four, and the theorems hold for any capacity and any number of signals.

Selection: windows of up to three lines and texts of up to four, so that a text
ends before, at and after its window; the seven definitions (drawn in any
subset) compete by precedence, by priority, by a second line, by an expression
that may look past the window and by one that must not match. The theorems hold
for any definitions, windows and texts.

Registry: three layers, two names with two variants, aliases, disabled commands
and variants, and garbage and refused files; two workers, so that an index may
be claimed by one while the other finishes. A path may name any
number of layers, but they are merged one at a time into what those before left:
the disable lists, the definitions and the problems. Three layers have all the cases
of that: a rule of the first meets the second and the third, one of the second
the third alone.

Streaming: texts of five lines, which hold a header, a record that is continued,
a separator, a second record and what ends a region; each of the seventeen
definitions has just the letters it treats differently. The theorem
`BooksAlwaysBalance` holds for any definitions and texts.

Data: every three of twenty arguments, which append, enter, index, repeat and
collide; every combination of options over twenty-five ways to name the input, with no input (the
theorem `OptionsAlwaysHeard` holds for any registry, files and options, `PlanAlwaysSaid` for any list of
locations); and
for each format every input of up to three to six letters (ten where a record of
several letters comes at once), so that a record is blank, marked, cut, too long,
bad, last without an ending, and followed by another. A record holds nine letters, a document six
values and three levels, and the message about keys one key, so that each limit
is met, passed by one and, for the levels, passed by a place alone. The places, the keys and the
records are judged one at a time against what is there, so a fourth meets the kinds of neighbour a third
does.

Contract: forty-seven drafts in eight families, two values worth listing and two
versions. Within a family every two drafts are compared, so every change Compare
tells apart happens (the `about` of the run says what they are). A third version would
only repeat the second.

## Fairness and timing

Liveness is stated only for what goroutines do that can run, timers that fire
and a killed process that dies. `RunStream` (`RunFairness`) adds that a command not blocked
on its pipe prints what its plan says and exits if the plan is to end, and that the
consumer deals with each piece it is given and returns at the end. The print is strongly
fair (`SF`), since a process left behind may fill the pipe each time there is room, and a
writer that waits on a pipe gets its turn all the same. Not
assumed: that the command heeds SIGTERM, that what it leaves behind ever lets go or is silent, that
the consumer returns early, that a deadline comes. So `ReturnsOnceEnded` has an exception, which it
names (`HeirGoesOn`): while jz reads, what is left behind prints again and again, each read that
finds something moves the deadline on (`runner.go:310`), and `Stream` returns only when
that stops or `consume` does.
`CollectRunner` assumes nothing of either: `ReturnsInTime`
holds by the limit, the deadline and the grace period alone. The relay's goroutine
is fair, the senders of signals are not.

Timing is kept out of the models but for these orders, which the durations in
the code make certain for any machine that is not stalled: a read that finds
bytes in the pipe returns before the deadline that was set when the command
ended; three seconds of grace are enough to copy what a pipe holds; the copy of
standard error keeps up; the consumer comes back for more in the end. A pipe on
Windows takes no deadline, so `DeadlineSet` requires `HasSignals`. The check for
deadlock is on everywhere: an explicit stuttering action (`Returned`,
`Finished`, `Over`, `Chosen`) marks the states in which the code is done, and
any other state without a step would be an error.

## What is proved

Every theorem is for all values of the constants that meet the named
assumptions, and none of them is taken on trust. `PROJECT.json` lists them.

`RunStreamProofs`, from `ChildAssumption`, begins with the runner by itself. The properties are not inductive:
they are about what the end of the output says, and that rests on what was
recorded before it. The strengthening adds, of the command, how each way to end goes
with who ended it (`Endings`) and that nobody is asked to go without a reason
(`Requests`); of the waiting goroutine, that it follows exec's own (`WaitOrder`) and
that what it recorded is how the process ended (`Recorded`); of the reader, that it reads
only inside `consume` (`ReadOrder`), that until `consume` returns what the command wrote is with the consumer
or in the pipe (`Accounted`), and that at the end the pipe held nothing of a
command that was gone (`AtEnd`).
From them `NothingIsLost`, `EndsAreHonest`, `StatusIsKept`; and
`FeedImplemented` takes each disjunct of `Next` to a step of `OutputFeed` or a stutter.

Its second half is `jz run --stream` on top of that: every step of
`RunStream` is a step of `StreamRunner` or leaves it alone but `FormatChosen`,
after which the consumer asks once more for output that may have ended; the inductive
invariant of the runner is weak enough to allow that, so `RunnerIsKept` and
`RunImplementsFeed` carry over what was proved of the runner by itself. On top
of it stand four facts that no status can be judged without: what the stream came
to is what the consumer told the runner (`Codes`); `Stream` returns after
`consume` did (`Order`); only a stream that failed, or the deadline, asks the command to go before
that (`Asking`); and the result says "stopped" of exactly those commands
(`Verdict`). From them `ZeroIsOfTheWhole`, `FailuresAreMirrored` and
`StopsAreNotBlamed`.

`SelectionProofs`, from `TextAssumption`, `DefinitionAssumption` and
`MatchAssumption`. The argument: every verdict a watch has recorded was final at some
beginning of the present window, verdicts are monotone in the window, and
windows only grow. What is `settled` at a prefix is therefore what `Select` says of every
extension (`SettledIsRight`), and a full window that does not end with a blank
line is the window of the whole text (`FullWindowIsRight`).

`SignalRelayProofs`, from `RelayAssumption`. The queue holds each queued signal
once and only signals whose fate is queued (`Queued`). Of a queued signal the groups it met
say whether it has reached the command, as long as nobody changed them (`Waits`, `Reach`); and what
nobody changed is what the relay reads. Hence `NoneRepeated` (a signal reaches the command twice
only if it was sent to the whole group and the relay could not know that, or the groups changed
while it waited) and `SkippedRightly`.

`ContractProofs`, from `PairsAssumption` and `MaxVersionAssumption`. While a
contract goes on its version never goes down (`Climbs`), so what was kept under the
version that is published now was kept since that version began, and every merge
since then was of a change that breaks nothing. `DocumentsStillFit` and
`ReadersStillRead` follow that chain a merge at a time (`Kept`) under the hypothesis
`SoundFor`: a change that does not break keeps what held of the earlier documents. That
hypothesis is exactly what the run `contract` checks of the code's generator and
Compare, as `CompareIsSound`.

`RunCollectedProofs`, from the assumptions of `ExecChild` and `CollectRunner`.
Until there is too much, what was printed is what the buffer keeps and what the pipe
holds (`Buffer`); the copy ends with an empty pipe unless somebody was asked to go
(`CopyEnd`), nobody is without a cause (`Causes`), and output is called cut
whenever the command did not end by itself (`Outcome`). `WholeIsKept`, `LimitHolds`,
`DocumentsAreWhole` and `FailuresAreMirrored` follow for any number of chunks, any
limit and heirs that print without end.

`RegistryProofs`, from `SourceAssumption`: the files of a registry are
finitely many, each at its own place, a directory that is absent holds none, and there is
a built-in registry. `AllAreDecoded` is the argument about the workers: a number up
to `next` is decoded or with one of them (`Claimed`). The index is not described by the
steps that built it but by the definitions that stand in each source as far as it was
read (`Indexed`): every entry is the first of its name and knows those it hides, every first one has
its entry, and every name that stands is there. `AddsNew` and `AddsHidden` carry that over one
definition added, and with what the rules, the counts and the problems come to it is
inductive (`IInv`). A full load therefore ends at `Layered` (`LoadsAsLayered`), a scoped one at
the part of it that answers to the names (`NamesAnswerAlike`), and the rules reported are
those without an effect (`WarnsRightly`) - for any number of layers, files, workers and names.

`StreamingProofs`, from `DefinitionsAssumption`: every definition has parts, of the
kinds of parser there are, and does not read one value at the top; what its selection skips, the
bytes it may hold and the record its consumer stops at are natural numbers. The code refuses the others:
`load.go:877` a composite without parts, `load.go:403` a negative skip, and `Stream`
itself (`stream.go:48`) a definition that does not stream; `engine.go:74` replaces a bound
that is not positive. `BooksAlwaysBalance` says of every
definition, text and bound what the run checks of seventeen. The inductive
invariant is `Balanced`; its parts, and why each is needed:

- What is charged is what the streamer and each of its parts hold (`Books`). A step of one part changes
  its group by the lines it takes and gives back and the charge by their bytes (`Step`), and leaves the
  other parts as they were; that is proved of each kind of parser, then of the fold,
  the selection, the csv record and the empty lines before it.
- A line is open for as many parts as hold it. A line that is offered opens its own
  fate with the number of parts that took it (`Handed`), and a part that is read
  settles each line it held once (`Settles`). This counts right only if no open
  fate has the number of the line that comes.
- So numbers must be new: what waits in the csv record, the fold or among the empty
  lines goes on after later lines have come, but in the order it came (`Ordered`, `FoldOrdered`,
  `AllOrdered`). A reading in which one of these let a later line pass would
  charge the right bytes and still settle the wrong fate.
- Nothing is held that was not written (`Fresh`, `LinesOfIs`, `InputBytes`): a
  part holds at most the bytes of the text, each line once, so that a text within the bound
  is too large only for the lines that several parts hold.

The account of a whole text needs none of this. `Parse` folds, selects, reads and
leaves out disjoint sets of lines, and their sizes add up to the text
(`WholeAddsUp`), because a fold joins what it takes out (`FoldIs`) and a selection
cuts what it does not pass on (`PreparedSplits`).

Both rest on facts about folds over sequences of any length. The library's induction theorems are
of no use here, but a set of numbers has a least one
(`NatLessThanWellFounded`), which gives induction over sets of numbers (`Reaches`), from that the
table a fold works out (`TableExists`), and what a sum and a fold are one element at a time. `Reading`
therefore names the k-th of some positions (`Nth`), where the community module's sorted sequence
takes an operator as an argument.

`SettlingProofs` is of `SettlingSpec`, and so of what `DataCommands` does to `cmd`, `settled`,
`places` and `plan`. `OptionsAlwaysHeard`, from `SettlingAssumption`: options and definitions are records, the registry
keeps one definition of a command and variant, and some definition of it reads a year
and some a zone, as `journalctl/short` and `date/posix` do of those built in. Without the
last, `OptionsAreHeard` is false: where every such definition was disabled and no parser is named, nothing
is asked whether it has use for `--assume-year`. What is inductive is short (`SettledAlways`: what is
settled is what `settle` makes of the options); the work is in why no rule is missing. How the
output is written, and the keys, are in the effect as they were given (`WrittenHeard`,
`KeysHeard`). The rest needs a reader to hear it: an accepted command reads data, or text
with one definition or with those in scope (`KindIs`, `ReaderIs`); `--raw` and the assumptions are
refused for data (`NoneForData`, `RawHeard`), and an assumption is accepted only if a definition
in scope has use for it, which is then a reader (`ScopeReads`, `YearHeard`, `ZonesHeard`). Columns
and types go to the one definition that is named (`OneReader`), which is the same definition without them
(`SameTarget`) and another definition with them (`ChangeIs`), so that what reads is not the same
(`ShapeHeard`).

`PlanAlwaysSaid`, from `PlacementsAssumption` (a location has at least one step, each a key or the
end of an array; the root is an array or it is not), says that the plan is what the arguments say
together, and that the next one is taken when its place can be had and refused when not. The two sides work
quite differently: the code enters and makes nodes one step at a time and takes the index of an
element from the number of nodes it finds, while what is said is worked out from the places of
all arguments. The argument:

- A location goes by a walk of places (`Walks`, `WalkIs`), and it can be said when each of its
  steps can be gone (`Goes`, `SayableIs`).
- What is on the way to a place is a prefix of it, so of a walk the first places are on the way
  to what was said before and the rest are not; the last that is, is its edge `e` (`IsEdge`, `EdgeIs`).
- Each step of the code leads to the next place of the walk, with what is new past the edge
  appended to the plan, or is refused just when the step cannot be gone (`MoveLeads`, a case for
  each of `create`, `Enter`, `intoObject` and `intoArray`). So an argument is placed with the plan
  `Grown` by the places past the edge, or refused (`PlaceIs`).
- `Grown` is again the plan of what is said (`PlanKept`): the nodes are those on the way
  (`PathsThen`), what there was keeps its kind and who made it (`KindThen`, `FirstThen`), the
  order stays (`OrderThen`), and the elements of an array are numbered in the order they were made (`RanksThen`).

That last step is not inductive with `IsPlanOf` alone. `PlanInv` adds that no place said is on the
way to another (`Apart`, or a value could become a container), that the elements of an array are
numbered from zero without a gap (`Numbered`, or the number of an array's nodes would not be its next index), and that a root
that is an object has no element (`Rooted`, since an empty document shows neither). The inductive
invariant is `Planned`: `PlanInv` of all that was said so far, while `jz new` is not settled.

Only model-checked: all liveness (`ReturnsOnceEnded`, `FailureStopsCommand`,
`EarlyEndDrains`, `ReturnsInTime`, `TermIsRelayed`), which under fairness is out of
the prover's reach; that the two readings agree and a stream is not late (`Agrees`, `NoneLate`), which
compare two different recursions over the text, parser by parser; `CompareIsSound`, a
statement about the table of drafts the run compares; and of the run `data`, `DocumentIsAsPlanned`,
`EachIsNew`, `StreamIsWhole` and `KeysJudged`, which are about values and documents of any
depth, and what reads, counts and narrows them recurses over them. `Agrees` is moreover not
true of every definition: the run `stream_trailer` shows one.

## What the models leave out

- *Runner*: `BuildEnv`; the bytes of a chunk; the text of errors. Of `RunStream`, which of jz's own
  failures it was, but for that of an option: a stream that cannot be read, written or chosen for fails alike.
- *Relay*: that it takes a signal, reads the three groups and sends it on is one step; a kill
  of the group reaches jz and the command at one moment; a group that cannot be read is
  one jz is not in the foreground of.
- *Selection*: aliases, NUL-separated records, the explanation of a choice, and
  the syntax of an expression. The order of candidates that tie is a set. A choice
that begins from the guess a path makes is in `DataCommands`, with windows of one
line, and not in the properties of `Selection`.
- *Registry*: a file's size limit and the most definitions of a source (`registry.go:309`), which ends
  the load; a parsers directory that is none, which is a problem and no definitions
  (`registry.go:227-236`); the order of what is listed; what a definition says beyond its names.
- *Readings*: a line is a letter that stands for all lines the definition says
  the same of, and a line made of several is matched by how it opens; a record is
  the lines it came from and the header it stands under. The bound on the
  number of values and on the bytes of a whole document are left aside, the
  bytes a stream holds are not. A tree has no greatest depth (`tree.go:113`), and a csv keeps a row
  that repeats its header: both readings ask `RepeatedHeader` (`csv.go:76`, `stream.go:683`), which
  `definition.go:566` answers with no for every csv.
- *Data*: a definition yields keys from a line and declares, assumes or reads
  the rest (`Definition`), the values are those of `Reading` and `Documents`; csv and
  tsv are read by it and not letter by letter; YAML is read in its flow style; the
  position in an error, `--explain`, help and the syntax of options are left out. A
  file is what it holds and what it is packed with; that it is there is settled once.
- *Contract*: headings come normalised and inputs cut into cells; ranges of
  characters and durations are left out; the order of keys is a set. `TestSchemas` compares what two schemas
  say, where the test compares how they are written, so that the model goes on where a
  file merely written differently would be refused. Definitions that refer to themselves are trees
  alone, and of what may go wrong when Compare meets a pair again only that much is met.
- *Not modelled*: the components listed as such in `PROJECT.json`, each with its
  reason there. Of those with rules of their own, the conversions of times and the
  conformance of definitions come next. `internal/yaml` is a grammar over characters: what
  could go wrong in it is told by texts, not by states.

## Noticed while modelling

Not refuted by a run, since no line of the repository states the opposite plainly or a
run would add nothing:

- A process left behind is read for as long as it prints more often than the settle
  period, since each read moves the deadline on (`runner.go:310`). The comments speak of one
  period: "after that, only what is already in the pipe is read [...] and the output ends there"
  (`runner.go:281-283`), and jz stops reading "a grace period after the child ended" (`:60-61`).
  `ReturnsOnceEnded` names the exception; without it, `run_stream` shows a run that never ends.
- `website/content/design.md:361` says that "an assumption that no field in the chosen format asks for
  is not an error"; the code refuses it when no definition that could be chosen has a use for it
  ("could change nothing, and is refused", `run.go:630`), as `usage.md:809` has it.
  `OptionsAreHeard` states the latter.
- An interrupt of the terminal that comes between the subscription and the start of the command
  waits in the channel and is then skipped as one the command has (`runner.go:354`), though it never had
  it, and neither of the two ends. The same happens when a job or the command moves to another group and back while
  a signal waits; `runner_unix.go:31` gives up only "an interrupt sent with kill to jz alone".
  `SkippedHadArrived` names both.
- `Stopped` is set for a command an outside signal ended when the consumer
  failed as well (`runner.go:267`).
- A command that ends with zero after the deadline is an error to `Run`
  (`runner.go:97`), and `LeftOpen` stays unset when it failed (`runner.go:71`).
- A SIGTERM that comes while four signals wait is dropped (`runner_unix.go:31`);
  `TermIsRelayed` is about those that found room. An idle interrupt between two subscriptions ends jz
  (`runner.go:340`).
- A stream's hold charges a line once for each part that reads it alone and
  counts the final newline, so a document just within the limit may fail as a stream.
- A rename of the leading label makes the schema require a key the document
  lacks (`table.go:196` against the generator's leading label).
- A whole list of JSON lines (`datafile.go:176`) is one level deeper than its
  records: one whose records nest as deep as is allowed is written and cannot be read back
  as JSON.
- A guess from a path that reads the text but lacks a named key is refused and
  not taken back (`convert.go:255`), while the other ways a guess may fail are.
- A definition that is retired and comes back starts again at version 1.

## Plan

Done, in this order: the runner and its proofs, the two commands over it, the
relay, the selection and its proofs, the registry, the two readings, the
contract and its proofs, the data commands, the proofs of the two commands over the
runner and of the registry, of the books of a stream, of the options, and of the plan of `jz new`. Next:

1. Cells of aligned and boxed tables, cut by the columns of a header.
2. Durations, zones and years, against a reference definition; the conformance
   of definitions.
3. Of `Streaming`, for definitions that fold nothing, a proof that the records handed over are a
   beginning of those of the whole text.
