# A verification development for coderoller

coderoller reads an XML description of data classes and generates C++ code for
them, together with a small runtime that ships serialised objects in a stream
and dispatches them to handlers.  The modules in this directory model the parts
of it that have a state to get wrong; TLC checks them on small instances and
TLAPS proves the theorems listed below for all of them.

## The system

| part | source | state it keeps | operations |
| --- | --- | --- | --- |
| main | `app/linux_main.cpp`, `src/cr_globals.cpp` | `g_inputFile`, `g_outputDir`, `g_codeGenerators`, the exit status | parse the command line, make the output directory, parse, generate, catch everything |
| parser | `src/parse/parse.cpp`, `src/cr_util.cpp` | the `GenConfig`: mtime, languages, the package of classes and fields | read the mtime, load the document, walk root, classes and fields, convert attributes |
| generator | `src/generate.cpp`, `src/languages/cpp/*.cpp` | the two text streams, two hash positions, the output files | per class: test whether the outputs are dirty, make directories, compose both texts, substitute the hash, write both files |
| File | `src/core/file.cpp` | path, directory, name, the cached answers of the last `stat` | construct, evaluate, parent, mkdir, rm, concatenate, mtime, list |
| stream roller | `src/base/stream_roller.cpp`, `.tpp` | a buffer | create a stream of objects, list its contents, inflate one |
| stream dispatcher | `src/base/stream_dispatcher.cpp` | handlers by class hash, the tolerance for missing ones | set, clear, configure, handle a stream |
| generated code | composed by `cpp_class_generator.cpp` | an object's fields | serialize, getSerializedSize, internalize, the class hash |
| log, exceptions | `src/core/log.cpp`, `src/core/exception.cpp` | mode and lowest level, a buffer per line, an exception's text | configure, compose a line and print it, warn of one that is too long |

main calls the parser, whose `GenConfig` the generator reads; both use `File`.
Nothing is shared between the generator's processes but the file system: the
input, its mtime, the output files and their mtimes.  The stream roller calls
the `serialize` of the objects it is given; the dispatcher lists a stream with
the stream roller and calls handlers, which may call the dispatcher again.

What is hard: an invocation makes dozens of system calls with decisions in
between, and the input, the outputs and other invocations move meanwhile;
mtimes are in whole seconds; a kill or a failed write goes unnoticed; `File`
caches what it once saw; offsets in a stream are the sum of sizes that two
parties must agree on; handlers change the dispatcher under its own loop; what
a generated class reads must be what another version of it wrote.

What makes each part correct:

* generator: a class that is skipped needs no work, whatever happened before,
  and running the generator again repairs what can be repaired;
* stream roller: nothing is written outside the buffer, and the receiver finds
  every object where the sender put it;
* dispatcher: every object of a stream meets exactly one fate, in order;
* `File::mkdir` and main: directories are made where they were asked for, or
  the program says that they were not;
* generated code: the size announced is the size written, and what is read is
  what was written;
* parser: a field lands in the section its attributes ask for, or the program
  fails before it wrote anything;
* log: no line is written past its buffer, and one that is cut is announced.

## Modules

| module | models | composed of | proofs |
| --- | --- | --- | --- |
| `Generate` | invocations of the generator on one output directory | | `GenerateProofs` |
| `StreamRoller` | one transmission, from sender to receiver | | `StreamRollerProofs` |
| `Dispatch` | what the dispatcher promises (abstract) | | in `StreamDispatcherProofs` |
| `StreamDispatcher` | `StreamObjectDispatcher` and its handlers | implements `Dispatch` | `StreamDispatcherProofs` |
| `Delivery` | a stream, from its objects to the handlers of the receiver's dispatcher | extends `StreamRoller`, instantiates `StreamDispatcher` | `DeliveryProofs` |
| `FilePath` | the class `File` over a tree of files | | in `MakeDirectoryProofs` |
| `MakeDirectory` | `File::mkdir` and `File::rm`, called by several processes | extends `FilePath` | `MakeDirectoryProofs` |
| `OutputDir` | the path from `argv[2]` to a header | extends `MakeDirectory` | in `MakeDirectoryProofs` |
| `ClassHeader` | the text around the class hash, and putting the hash into it (operators) | | |
| `ClassSerialization` | the functions the generator writes, at work | extends `ClassHeader` | `ClassSerializationProofs` |
| `Configuration` | from the document to composed classes | | `ConfigurationProofs` |
| `Messages` | `Log`, `CRException` and main's report of an exception | | `MessagesProofs` |

The `MC*` modules give the constants of these modules values for TLC.  A
definition whose comment begins with "Mutant of" is what a plausible mistake
would make of the definition it names; no specification uses it.

### Generate

A step is one system call: `stat` of the input (`ReadMTime`), loading it
(`LoadFile`), `stat` of each output for existence and again for its mtime
(`CheckExists`, `CheckMTime`, since `File::exists` and `File::getMTime` each
call `evaluate`), the early return (`Decide`), the directories (`CheckParent`,
`Mkdir`), the composition in memory that may throw (`Render`), the two
`ofstream`s (`Open`, `Flush`, and their failures).  `kind` is the position
within the pair header/source, `cls` the position in `CPPGenerator::generate`'s
loop.  Around it are the clock (`Tick`), the editor of the input (`Edit`), a
user who deletes outputs (`Clean`) and kills (`Crash`).  The text of a file is
the version of the input it came from, or `Empty` (opened, not written) or
`Torn` (two texts, one over the other).

`seen` and `calm` are history: which version of the input was there when a file
was last written, and whether an invocation ran undisturbed.

### StreamRoller

`SizeObject` and `WriteObject` are the two passes of `createStreamContents`,
`WriteHeader` and `WriteEnd` what it puts before and behind the objects;
`ListHeader`, `ListObject` and `ListEnd` are `listStreamContents`, `GetObject`
is `getObject`.  The buffer is a set of fields with offsets and lengths, and
writing a field destroys those it overlaps.  Objects may answer another size in
the second pass than in the first, and write another number of bytes than they
answer; `serialize` returns the number that it wrote, as `Serializable` asks, and an
object that misreports it is not modelled.  The count is stored modulo
`CountModulus`, 2^32 in the code.  The index of `getObject` is signed and is compared
with an unsigned size: `Unsigned` is that conversion, modulo `IndexModulus`, 2^64 in
the code, and `Offsets` what a fetch with the index gets, which for an index that is none
may be anything.

### Delivery

The receiver of `StreamRoller` either fetches objects by index (`Transmit`
includes `GetObject`) or hands its stream to a dispatcher.  `handleStream` calls
`listStreamContents` and walks its result, so `HandleListed` is
`StreamDispatcher`'s `HandleStream` on the hashes that `StreamRoller` listed, and
`CallHandler` is its `CallHandler` with the address taken from the same list.
The configuration is chosen where the loop first reads it; what handlers do to
it meanwhile is `StreamDispatcher`'s own subject.  `calls` is history: what each
handler was called with.  `Handled` is the set of the positions that have a handler
in the configuration the loop found; that it determines the calls is what
`Delivered` says of the end, and `DeliveryProofs` of every point of the loop.

### Dispatch and StreamDispatcher

`StreamDispatcher` has an explicit stack of activations of `handleStream`, each
with its list, its position and its copy of the handler.  While a handler runs,
all of the public operations are enabled.  `Unwind` takes an exception through
any number of activations, since handlers may or may not catch.  `Dispatch`
knows no stack: only the streams, the fates of their objects, and that the
stream begun last is the one that advances.  `Promise` is `Dispatch`'s
specification under the mapping in `StreamDispatcher`.

### FilePath, MakeDirectory and OutputDir

A path is a sequence of separators and names; names are tokens, since the code
looks for separators and nothing else.  `NewFile` is the constructor with
`initialize`, `ParentDir` is `getParentDir` with its `npos` and its unsigned
arithmetic, and `Walk` the way that the system goes along a path, where a
separator more or less changes nothing.  `MakeDirectory` has a stack of activations per process, since
`mkdir( true )` calls `mkdir( false )` for each ancestor.  `rm` is `CheckFile`
and `Unlink`; `maker` and `remover` are history, and together with the first
tree they account for every node.  `found` is the tree that a call began with and
`raced` what others made during it, so that an exception has no excuse in what
came before or after the call.  `OutputDir` puts
`parseCL` and the part of `CPPClassGenerator::generate` that makes directories
around it; `header` is where the user asked for the header to be, as opposed to
`hFile`, where the code puts it.  A step is one system call with one exception:
in `EnsureParent` the `stat` of `File`'s constructor and that of `exists` are one
step, at the time of the second.  Invocations only make nodes, so that what the first
finds as a directory the second does too; the path, the only thing the first decides,
is used for nothing then.

### ClassSerialization

`Members`, `Includes` and `Declarations` are how the generator orders the fields
and what its header says of them;
`SizeField`, `SerializeField`, and `InternalizeValue` with
`InternalizeContents` are one turn of the generated functions, `EnterObject` and
`LeaveObject` their recursion into members that are objects.  Sender and
receiver are built from two versions of the input, and `EndSerialize` lets an
object through when the class hashes are equal.  The hash is the text it is taken
of, so that no two texts share one.  `ReadsBack` and its theorem rest on that: the
code's hash has 32 bits (`cpp_util.cpp:173`), and between two headers that collide
an object would be accepted and misread.  `HeaderShowsHash` does not rest on it.
What a member's write advances the buffer by is `WriteReturns`, what the library
returns, and not `SizeOf`, what the generated `getSerializedSize` counts.  The text that is hashed is
what `ClassHeader` cuts out of the header: `Header` composes it with eight zeros
in two places, `HashedText` begins `PlaceBytes` behind the first of them, and
`WithHash` puts the digits into both.  The hash function itself (37 h + c, modulo
2^32) is left out; its value is any of the digits in `HexHashes`.

### Configuration

One action for each part of the walk over the document: root, class, field, the
end of each, then the generator's turn.  Every exception is a step to an exit.
`Class::_serializable`, which no constructor sets, is any of the enumerators.
Two things that `CPPClassGenerator::generate` does before it composes a class are
left out here: the early return for outputs that are up to date, and the exceptions
of mkdir (`cpp_class_generator.cpp:46-67`; `Generate` and `MakeDirectory` have them).
So what `EveryFieldPlaced` says of an exit with 0, that every class was composed,
holds where no outputs are there yet, and what `FailsForCause` says, that a failure has
its cause in the document, for a healthy file system.

### Messages

A step is one write of `vlog` into its buffer: `vsnprintf` (`Format`), the
comparison of what it returned with the space, and the warning (`Measure`, which
puts a second activation of `vlog` on the stack), the suffix (`Suffix`), `puts`
(`Puts`).  A text is its length and a buffer is the set of the zeros in it, which
is what decides what `puts` prints.  `Throw`, `Catch` and `Exit` are the
exception, main's `Log::i` of its text, and the end.  `LogAtDefault` is
`Log::log`, which calls itself: an activation that takes no step.

## Runs

| run | instance | what it shows | distinct states |
| --- | --- | --- | --- |
| `gen_faults` | `MCGenerate`: one invocation at a time, 2 classes, 2 versions, 3 seconds; crashes, I/O failures, deletions | `TypeOK`, `SkipIsSound`, `UndisturbedRun`, `RejectedNeverWritten`. One invocation, run again and again over two classes, with crashes, failing I/O and deleted outputs: the early return is wrong in the named ways only, and an undisturbed invocation leaves clean what it has passed, and fails only for the input's sake. | 1.9 million |
| `gen_settles` | `MCGenerate`: 2 invocations started again and again, 4 versions with any mtime, one unparsable, one with a class that is rejected | `EmptiedOnlyInFlight`, `EveryRunEnds`, `Settles`. Two builds that keep running the generator on one output directory, across four versions of the input that may carry old mtimes: an empty output is always in the hands of a writer, every invocation ends, and the outputs settle. | 364 thousand |
| `stream` | `MCDelivery`: up to 3 objects, 3 sizes, 2 hashes, 2 versions, 2 handlers | `TypeOK`, `InBuffer`, `EndsAtSize`, `NoneOverwritten`, `RoundTrip`, `Delivered`. Every transmission of up to three objects, of sizes that may differ between the passes and from what is written, with two versions and a count that wraps around: where each byte goes, what the receiver finds (offsets of the objects' bytes, where `stream_roller.h:52` says of their sizes), and which handlers its dispatcher calls with what, in every configuration of two classes. | 590 thousand |
| `dispatch` | `MCStreamDispatcher`: 2 streams, 2 objects, 3 changes | `TypeOK`, `RunsWhatWasFound`, `Promise`, `EveryStreamEnds`. Two streams of up to two objects, one inside the other or one after the other, with three changes of the configuration at any time, by handlers too: the dispatcher implements Dispatch, and handleStream ends if every handler does. | 191 thousand |
| `mkdir` | `MCMakeDirectory`: 2 processes, 6 paths to make and 2 to remove, trees of up to 3 nodes below the root | `TypeOK`, `ReturnedMeansMade`, `OnlyOnTheWay`, `ThrownForCause`, `SomeoneSucceeds`, `RemovedByOne`, `EveryCallEnds`. Two calls of mkdir or rm at once, on trees with files in the way, for relative and absolute paths, paths that end in one separator and in two, and a path that is its own parent. | 93 thousand |
| `out` | `MCOutputDir`: 2 processes, 7 arguments, trees of up to 3 nodes below the root | `MadeInside`, `ExitedMeansWritten`, `EveryInvocationEnds`. Two invocations at once, on trees of up to three nodes below the root, with six spellings of the output directory and one that lies where the other invocation puts its header. | 113 thousand |
| `out_spelling` | `MCOutputDir`: 1 process | `OutputUnderBaseDir`. An output directory a/b that does not exist yet is made, and the files are put into a. | violation |
| `serialization` | `MCClassSerialization`: 72 versions in all pairs, 2 objects, 2 times, 3 hashes | `TypeOK`, `WritesItsSize`, `ReadsBack`, `HeaderShowsHash`. All pairs of 72 versions of an outer and an inner class, with fields in different orders, privacies and types, and two objects each: what is accepted is restored, if no two headers share a hash; and the header of each version, composed at two times, with hashes of one, seven and eight digits. | 228 thousand |
| `serialization_hash` | `MCClassSerialization`: the same | `HashFollowsSemantics`. A class whose member's class changed keeps its hash: the receiver accepts and misreads its objects. | violation |
| `config` | `MCConfiguration`: some 3000 documents | `TypeOK`, `EveryFieldPlaced`, `NothingFromMalformed`, `FailsForCause`. Some 3000 documents of up to two classes of up to two fields, with attributes missing, empty, valid and invalid, and with any content of the uninitialized member; where no outputs are there yet and the file system is healthy. | 141 thousand |
| `config_serializable` | `MCConfiguration`: the same | `SerializableAsWritten`. defaultSerializable="true" is read as NO, and "no" and "false" as YES. | violation |
| `messages` | `Messages`: 3 calls, 7 lengths of messages and 4 of exceptions, every mode and level | `TypeOK`, `WithinBuffer`, `CutIsAnnounced`, `ExceptionReported`, `EveryCallReturns`. Three calls of Log and of its setters and an exception, with messages around every boundary of the buffer in all modes and levels: what is written where, what reaches the console, and what is said of the rest. | 78 thousand |

Every run but those of `Generate` switches the deadlock check off: the systems
they model stop when their work is done.  `Generate`'s invocations can always be
started again.

### Bounds, and why they are enough

* `Generate`: two versions of the input are what a stale output needs (one that
  made it and one that should have); the other two of `gen_settles` are the one
  that cannot be parsed and the one that is rejected.
  Two classes are what "some of the classes were generated" needs, two
  invocations what a race needs.  `MaxTime = 2` gives an input older than, as old
  as, and younger than an output.  `gen_settles` gets by with one tick of the
  clock, since backdating already separates the mtimes from the order of events.
* `StreamRoller`: three objects put one between two others; the sizes 0, 1 and 5
  are the empty object, one that differs from its neighbours, and one longer than
  the end designation.  `CountModulus = 3` makes the count wrap around at the
  largest list, and `IndexModulus = 8` keeps -1 apart from every index of a list.
  In `Delivery` two classes and one handler besides the empty function give a
  list every mixture of handled, ignored and rejected objects.
* `StreamDispatcher`: two streams, so that one can be inside the other, two
  objects each, and three changes of the configuration: enough to clear the
  running handler, change the tolerance, and set a handler again.
* `MakeDirectory`, `OutputDir`: paths of up to four names, trees of up to three
  nodes below the root, with a file anywhere among them, and two processes.  The
  argument `a/inc/h/` puts the output directory of one invocation where another has
  its header, before it or after it.  The paths removed are one that lies on the way
  of most targets and one that is none.
* `ClassSerialization`: an outer class with a fixed, a varying and an object
  member, in three orders and four combinations of privacies, and three inner
  classes; strings of lengths 0, 1 and 2, so that contents are mistaken for a
  length when they can be.  Hashes of one, seven and eight digits, and times of two
  lengths, so that the places of the hash move.
* `Configuration`: two classes of two fields is what "a mistake in a later class"
  and "a default that leaks into the next class" need.
* `Messages`: lengths one below, at and above the space that each mode leaves
  (4085, 4087, 4088, 4095), and at and beyond the buffer's size; texts of
  exceptions that fill the buffer only with main's own 31 characters, and the
  longest that `CRException` has room for.  Three calls are two settings and a
  message, or a message before and after.

### Fairness

* `Generate!FairSpec`: an invocation that was started is scheduled until it ends.
  The program has no blocking call but local file I/O.  `RerunSpec` adds that
  the build starts it again when it has ended, as a build rule does.  Neither the
  clock, nor edits, nor deletions, nor crashes are fair.
* `StreamDispatcher!FairSpec`: the one thread of the dispatcher runs, and every
  handler ends; a handler that never returns is the user's, and excluded.
* `MakeDirectory!FairSpec`, `OutputDir!FairMainSpec`: every process is scheduled.
* `Messages!FairSpec`: the one thread goes on with a line it has begun.

All of it is weak fairness: a step that stays enabled, as each does until it is
taken or its process is killed, is taken some day.

## Proofs

The theorems hold for every value of the constants that satisfies the named
assumptions: `BoundsAssumption` and `InputAssumption` (there are classes and
versions, bounds are numbers), `StreamAssumption` and `DeliveryAssumption` (sizes and
counts are numbers, the empty function is a value of the handlers),
`DispatcherAssumption` (the same, and bounds are numbers), `DocumentsAssumption` (the classes and the fields of a document come in an order), `MakeDirectoryAssumption` (the first tree
is a tree in which the working directory exists, paths are made of names and
separators), `SpellingAssumption` (between two names of a path there is a separator: two
tokens in a row would be one name of the code's), `HeaderPathAssumption` (the header has a
name, which is the last of its path), `PackagesAssumption` (no class contains itself, which would not compile:
there is a rank below `Depth` that falls from each class to those of its members; data
types take at least a byte; no class is named like the end of a line),
`ObjectsAssumption` (an object has a length for each of its members),
`HeaderAssumption` (a hash has at most eight hexadecimal digits, and neither times nor
names contain the two texts that it is shown behind),
`MessagesAssumption`.  TLC evaluates each on the instances of the runs.
None limits how many processes, objects, classes, fields, names in a path, or
activations of the dispatcher there are, as the instances do.

`GenerateProofs` proves `TypeCorrect`, `UndisturbedRunHolds`,
`RejectedNeverWrittenHolds`, `SkipIsSoundHolds` and `EmptiedOnlyInFlightHolds`.
The inductive invariant `IInv` adds to the properties what an invocation knows
at each point: an undisturbed one knows the input's mtime and version
(`LoadedInv`), what it found clean still is (`CheckedInv`), and what it opened is
(`WrittenInv`), because nothing in the model makes an output older and no mtime
lies in the future (`ClockInv`).  A file written before the last edit is not
younger than the input (`EditInv`), which is what `SkipIsSound` comes down to.
Other invocations are harmless for the same reason: whatever they do to a file
makes it younger.  `UndisturbedRun` also says why an undisturbed invocation fails, and
for that `FoundInv` says that what `exists` found is there when `getMTime` asks, and
`AloneInv` that nobody makes the directory that the only invocation is about to make.
`EmptiedOnlyInFlight` needs an induction of its own on top.

`StreamRollerProofs` proves `TypeCorrect`, `InBufferHolds`, `EndsAtSizeHolds`,
`NoneOverwrittenHolds`, `RoundTripHolds` and `FetchesObjectHolds`.  `PlanInv`
says what the first pass added up, `PassInv` and `LayoutInv` where the second
pass is and that nothing lies beyond it, `AgreeInv` that the two agree while the
objects keep to their sizes, `KeepInv` that what was written is still there, and
`ReadInv` that the receiver's cursor runs over the sender's starts.  The step that
matters is `WriteObjectStep`: the three fields of the new object are apart from
every field before them.

`MessagesProofs` proves `TypeCorrect`, `WithinBufferHolds`, `CutIsAnnouncedHolds`
and `ExceptionReportedHolds`, for messages of any length.  `ActivationInv` says
how far an activation has come with its buffer: which zeros are in it and what it
counts its message as.  `WarningInv` says that a warning is on top of the line it
is about and then the last line on the console, which is why the type invariant,
with its bound of two activations, needs it; `StatusInv` that nothing is logged
between the exception and the end.

`StreamDispatcherProofs` proves `TypeCorrect`, `RunningIsFound` and the refinement
`Implements`: `StreamDispatcher!Spec => Promise`.  `StackInv` says of every
activation that its stream is its own, that the streams still open are exactly those
on the stack, oldest below, and that the fates recorded are as many as the objects
its loop is through with.  That is what the mapping needs: `Dispatch` has only the
set of the open streams and lets the youngest advance, and `StackInv` makes the
youngest the top of the stack, so that `IgnoreStep`, `CallHandlerStep`, `UnwindStep`
and the others each map to a step of `Dispatch` or to a stutter; an exception that
passes several activations is one step of both.

`DeliveryProofs` proves `DeliveredHolds`.  `IsTransmission` is what carries
`StreamRollerProofs` over: a run of `DeliverySpec` is, for the variables of
`StreamRoller`, a run of its `Spec`, so that its invariant `IInv` holds here too.
`DeliveryInv` adds where the loop is: `Called` says that the objects passed are a
beginning of the list, that the calls made are as many as there are handled
positions among them, and that the call for a handled position is the one whose
number is the count of handled positions up to it.  Counting (`UpToNext`) is where
finite sets and their cardinality come in.

`ConfigurationProofs` proves `TypeCorrect`, `FieldsArePlaced`,
`NothingComposedFromMalformed` and `FailuresHaveCauses`.  `ClassesInv` says that the
classes parsed are the first ones of the document, each read as it is there and
without a mistake, and that when composing begins they are all of them, which is why
a mistake in the last class prevents the first from being composed.  `ComposedInv`
says that every class composed has each field in the section wanted of it and in the
document's order; `Resolved` is the case distinction on what a field, its class and
the default may say.

`MakeDirectoryProofs` proves `TypeCorrect`, `ReturnedHasMade`, `MadeOnTheWay`,
`RemovedByOneOnly`, `CauseOfThrow` and `NotAllFail`, for any number of processes and
paths of any length.  The invariant `IInv` has `TreeInv` (the tree is what was there, plus what was made,
minus what was removed, and each parent of a node is a directory), `StackInv` (every
path that an activation holds, its file, its ancestors and the parent it climbs to,
leads along the way to the target of the call; the second activation works on an
ancestor of the first), and `EndInv` (what a call that ended has done).  The
interference of the others is small and named: they add nodes, and remove files, but
neither remove a directory nor turn a node into another kind.  Below it are lemmas
about paths: `Node`, the node that a path leads to, is the recursive function
`Walk`, and `WalkEquation`, `WalkPrefix` and `WalkSame` are proved for paths of any
length by induction on the set of the positions they hold for (`Least`,
`Induction`, from the well-foundedness of the natural numbers), since an induction
theorem with an operator for a parameter cannot be used.

`CauseOfThrow` and `NotAllFail` are about races, and rest on a second invariant,
`RaceInv`, on top of `IInv`.  A call is `Sound` if it has an anchor, nothing in its way
and no separators at its end.  `FirstWay` says of its own activation that it climbs
along beginnings of its path (`Begins`: never past the last anchor, which is why the
climb of a sound call has an end), and that in the list of what is to be made each
needs nothing but what comes before it (`Link`: a path that ends in a separator leads
to the same directory as one further down the list); `SecondWay` and `Ready` say of the
activation for an ancestor that its parent is there, or the ancestor itself, which
another process then made.  So a sound call with `createParents` can fail on nothing but
a node that it found missing and that is there now.  `RacedInv` says that this
node is in `raced`, and lies on the way: `Clear` holds at every point of a call until
another process breaks it (`OwnClear`, `RacedStep`), and then it is recorded.  That is
`CauseOfThrow`.  For `NotAllFail`, `SomeInv` names a process that is not overtaken: whoever
made the last directory is `Clear` (`MakesClear`), stays so until another process makes a
directory and takes over the role, and a process that is `Clear` does not throw
(`ThrowCause`).  Whether the paths have anything in common does not matter.

The same module proves `MainInvariant`, `InsideOnly` and `ExitedHasWritten` about
`OutputDir`.  The invariant `MainInv` is one of its own: `IInv` speaks of a call whose
path is given from the start, in a tree that gets nothing but directories, while an
invocation composes the path, calls mkdir at most once, and adds a file.  `ComposeInv` says
how text and tree go together on the way to the header: a well spelt output directory
is held as a path with a separator at its end (`Closed`), which leads to the node that
the user asked for, and `header(p)` is what is found behind it (`NodeOfJoined`,
`HeaderFile`).  `MkdirInv` says that the mkdir of the generator is for the directory
that the header lies in, `Front(header(p))`, and that every path in its activations
leads along the way there.  Of the nodes on that way (`PrefixesMeet`) those down to the
output directory are there already, so that what mkdir makes lies below it
(`MadeBelow`); that is `InsideOnly`.  `WrittenInv` says that the directory of the header
is there when the header is opened, and stays.  `ExitedHasWritten` as first stated, that
a file lies at `header(p)`, was no consequence, and is false: see below.

`ClassSerializationProofs` proves `TypeCorrect`, `SizeIsWritten`, `ReadBack` and `ShowsHash`, for any
classes with any members, inside each other to any depth.  It has two halves.  The
first is about texts: `HashDetermines` says that two versions of a class with one hash
have the same members in the same order.  The hashed text shows the includes, the end of
a line, and the declarations; the includes end at the first entry that is no class, so that
they are equally many, and what is left is the members.  The second half is about
walks: `Trace` is the sequence of stacks that getSerializedSize goes through, and it only
goes forward, by at least a byte for each member that is no object (`NextGood`,
`TraceExtended`).  `IInv` says that serialize is at some step of the whole of that
trace (`Writing`), with the buffer holding exactly what the steps before it wrote, and that
internalize is too if the two programs agree on the members (`Reading`), having read each
member from where it was.  So the unit found at a place is the one that was written for
it (`FoundIsOf`), and the walks end with the same count.  Recursive functions on lists
(`WithPrivacy`, `Includes`) are shown to exist by induction on their length (`GrownExists`).
`ShowsHash` needs no invariant but the types: `HeaderPlaces` says where the two labels and the
zeros are in the text of a header, whatever the lengths of the time, the includes and the
declarations, so that the offsets that `generate` counts by hand are the right ones;
`Overwritten` what printing the digits there leaves; and both `HeaderPlaces` for a time and
for none that what is hashed is the same (`HashAtAnyTime`).

The proof of `MakeDirectoryProofs!StackInv` did not go through at first: an ancestor need not be shorter
than the file, see `OwnParent` below.

`FetchesObject` has a theorem and is part of `Delivered`, which is what the run
checks.

Only model-checked:

* liveness (`EveryRunEnds`, `Settles`, `EveryStreamEnds`, `EveryCallEnds`,
  `EveryInvocationEnds`, `EveryCallReturns`), which the prover does not do under fairness.

Every other property of a run that passes has a theorem.

## Where code and documentation disagree

Three runs expect a violation:

* `out_spelling`: for an output directory `a/b` that does not exist yet, a/b is
  made and the files go to `a/include` and `a/src`.  `g_outputDir` is constructed
  before the directory is (`linux_main.cpp:96`) and never refreshed, so that its
  `_dir` is what precedes the last separator.
* `serialization_hash`: the class hash is to change with the class's
  serialization semantics (`serializable.h:43`), but it is taken of the class's
  own header, where a member that is an object is only the name of its class.
* `config_serializable`: two calls of `strcmp` are not compared to 0
  (`cr_util.cpp:108`), so `true` is read as no, and every other word as yes.

Met while modelling, and named in a property, which says what the code does instead
(`RoundTrip`) or excludes the case (the others):

* `RoundTrip`: `stream_roller.h:52` documents the offset that `listStreamContents` returns
  for an object as "pointing directly to the size of the object".  It points to the
  object's own bytes, `PrefixBytes` further (`stream_roller.cpp:42-47`), which is where
  `getObject` and the dispatcher take it to point: the property contradicts the
  comment for every object of every stream, and says so.

* `SkipIsSound`: an output is taken for current when it carries the second of a
  later edit, when the input was edited between being loaded and the output being
  written, and when the writer was killed between truncating and writing
  (`cpp_class_generator.cpp:46`, `:219`).
* `ThrownForCause`: of two processes that make one directory, the slower one gets
  an exception though the directory is there, against `file.h:64`.
* `ThrownForCause` (`OwnParent`): `mkdir( true )` of a path with two separators at
  its end, `a/b//`, takes `a/b/` for the parent, makes it, and then throws since the
  directory it was called for exists (`file.cpp:96`, `:133`), though by `file.h:64`
  a directory that exists "will silently be ignored".
* `EveryCallEnds` (`Anchored`): on a relative path none of whose ancestors is
  named and exists, `mkdir( true )` never ends, since `getParentDir` of a plain
  name is the name itself (`file.cpp:133`).
* `ExitedMeansWritten`: if a directory lies where the header is to be, the header cannot be
  opened, nobody looks (`cpp_class_generator.cpp:219`), and the program exits with 0.
* `EveryFieldPlaced`: an unknown language is logged with "Rethrowing." and not
  rethrown (`parse.cpp:74`): the program composes nothing and exits with 0.
* `EveryInvocationEnds`: `linux_main.cpp:106` refuses what neither exists nor is a
  directory, where it should be either; a file passes for an output directory.
* `CutIsAnnounced`, `WithinBuffer`: `log.cpp:72` means to "ensure we don't overflow
  and warn if we exceeded max size".  A message of exactly the space there is
  loses its last character without a warning (`log.cpp:123` has `>` where
  `vsnprintf` needs `>=`); a warning is not printed when the lowest level is
  above it; and the zero of a line that is too long lies one byte behind the
  buffer, with the carriage return behind the zero of `vsnprintf`, so that it is
  never printed.
* `EveryCallReturns`: `Log::log` calls itself (`log.cpp:46`).
* `HeaderShowsHash`: a hash below 0x10000000 is printed over the first of eight
  zeros (`cpp_class_generator.cpp:526`), so that the header shows it multiplied by
  a power of 16: not the hash, but the same number in both places.

And outside of the properties: the eight
bytes for the git hash are never written (`stream_roller.h:33`);
`Class::_serializable` is never set; the result of `LoadFile` is not looked at;
`File::operator+=( File )` appends to the path where `operator+` appends to the
directory (`file.cpp:230`, `:225`).

## Not modelled

* tinyxml2, the shell, the file system and `Serialization::write`/`read` (a
  submodule) are external: modelled as the code uses them.
* The text of the generated files beyond sections, includes, the order of members
  and the class hash; copies and moves are one statement for each member.
* The wording of messages; texts of exceptions longer than the 4095 characters
  that `CRException` allocates room for, which `vsprintf` writes behind its buffer;
  what is built for Windows and Android.
* The cut of the command `mkdir argv[2]` to 4096 bytes, and its split at blanks by the shell
  (`linux_main.cpp:102-104`).
* Objects whose `serialize` returns another number than it wrote, and two headers
  with one 32-bit hash.
* main's `catch(...)`, which has nothing to return and exits with 0: nothing in the
  repository throws what is no `std::exception`.
* `File::listFiles`, `getSize`, `refresh`, its comparisons and its operators that
  append: nothing calls them, and none of them changes the file system.
* The arithmetic of `hash`, and the names of generated files, which are cut to 127
  characters (`cpp_generator.cpp:37`): texts and names have no characters here.
* Damaged streams: what the receiver reads beyond its buffer is undefined.
* Alignment and byte order of the stream's integers.

## Plan

Order of the work so far: `Generate` (the program's purpose), `StreamRoller`, the
dispatcher and its promise, directories, the generated code, the parser, the log,
the composition of stream and dispatcher, and their proofs.  What is left:

1. The generated copies and moves, as walks over the members like the three of
   `ClassSerialization`.
2. The file names cut to 127 characters, in `Generate` or `OutputDir`: two classes
   that share their files.

New questions join a run whose instance can answer them.
