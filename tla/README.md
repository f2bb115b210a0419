# A TLA+ model of clp_ffi_py

clp_ffi_py is a C++ extension that lets Python encode, decode and search CLP IR
streams of log events. These modules model its decoding side, the part that
keeps state across calls: the read buffer, the decoding methods on it, the
stream reader over them, the queries they filter with, and the log events,
metadata and queries as Python objects; and the encoder, as the other end of a
stream that must be read back as it was logged. TLC checks the modules on small
instances, and TLAPS proves the main invariants for every stream, capacity,
width of timestamps and schedule.

## The system

| component | state | operations | what makes it correct |
|---|---|---|---|
| `DecoderBuffer` (`PyDecoderBuffer.{hpp,cpp}`) | allocation and capacity, `m_buffer_size`, `m_num_current_bytes_consumed`, buffer-protocol flag, metadata, reference timestamp, message count | `populate_read_buffer`, `try_read`, `py_getbuffer`, `commit_read_buffer_consumption`, `metadata_init`, `test_streaming` | bytes are neither lost, repeated nor altered; the view handed to `readinto` has room; memory follows the backlog |
| decoding methods (`decoding_methods.cpp`) | locals of one call | `decode_preamble`, `decode_next_log_event` | indices and timestamps are those of the stream; every match is returned once; every call ends |
| `Query` (`Query.{hpp,cpp}`) | time range, termination timestamp, wildcards, attributes | construction, matching | no match is skipped; no overflow |
| `PyQuery`, `WildcardQuery`, `QueryBuilder` | a `Query`, or the pieces of one | setters, `build`, `reset`, pickling | a rebuilt or unpickled query answers as the original |
| readers (`readers.py`) | stream, decoder buffer, metadata, two flags | `read_preamble`, iteration, `search`, `close` | iterators and generators share one position; the preamble is read once; a search ends, and has read what it had to |
| `Metadata`, `PyMetadata` | reference timestamp, format, time zone, attribute table and index map; reference counts | construction from JSON, `get_timezone`, deallocation | every reference timestamp is read back; every attribute name has its column's index; nothing is freed in use |
| `LogEvent`, `PyLogEvent` | message, timestamp, index, attributes, metadata, cached formatted timestamp | formatting, matching, pickling | the cache never shows through, whatever other threads do |
| encoder (`encoding_methods.cpp`) | none | one function per piece of a stream | what it writes is what the decoder reads |
| utilities, casts, module registration | none, or set at import | conversions | out of the models' interest |
| CLP core (`ffi::ir_stream`, `wildcard_match_unsafe`) | none | parsing of one unit | a git submodule, external to this repository |

The components interact by calls. A reader calls a decoding method; the method
loops over the parser; when the parser finds the buffer incomplete the method
calls `try_read`, which compacts or doubles the buffer and calls back into
Python, to the stream's `readinto`; `readinto` calls `py_getbuffer` for a view
of the free part of the buffer. Whoever writes the stream does so meanwhile.
The hard behaviour is in that loop: short, empty and failed reads, a buffer that
is full or moved, a log event consumed before the query that decides its fate
has run or thrown, a stream that is incomplete now and longer later, and
several generators that take turns on one buffer. Formatting a log event also
calls back into Python, where other threads may format, pickle or drop the same
objects; and the bounds of a query are machine integers that a margin from
Python may overflow. Metadata and time zone objects are shared by reference
counts that several functions keep, and the reference timestamp travels from the
encoder to the decoder as a decimal string.

`PROJECT.json` lists these hazards, each at its line, with the properties that
cover it or what is missing.

## The modules

**ByteQueue** is what a buffer promises: a first-in first-out queue of the
stream's bytes.

**DecoderBuffer** is the read buffer under its most general client. A byte is
represented by its offset in the stream, so the buffer's contents say which
bytes it holds.

| code | module |
|---|---|
| `m_read_buffer` and its size | `mem`, `cap` |
| `m_buffer_size`, `m_num_current_bytes_consumed` | `bufSize`, `numConsumed` |
| `m_py_buffer_protocol_enabled` | `protocolEnabled` |
| `populate_read_buffer` up to `readinto` | `BeginRead` (`Grown`, `Shifted`), `GrowFails` |
| `readinto`, the end of `populate_read_buffer`, `try_read` | `ReadReturns`, `ReadFails` |
| `py_getbuffer` | `ViewSize`, the guard `protocolEnabled` of `ReadReturns` |
| `commit_read_buffer_consumption` | `Commit` |
| the input stream and its writer (external) | `streamPos`, `avail`, `ReadSizes`, `StreamGrows` |

`populate_read_buffer` is split at its call of `readinto` because the stream may
be written to, or raise, in between. `memcpy` between overlapping regions is
undefined: `CopyOrders` lists the orders in which the build may copy, and
`Shifted` is what each leaves. `mem` is compared position by position, so a
byte of the wrong offset is visible.

**Query** holds the operators of a query: construction with the saturating
termination timestamp, and matching. A wildcard query is the set of messages it
matches. Attribute matching returns a set of answers, because the queried names
are visited in the order of a hash map and one may raise where another would
have said no.

**LogEventStream** is what `decode_next_log_event` promises: a filtered reader of
a sequence of log events, which answers None only when nothing is left that the
request asks for.

**Decoder** is `decode_preamble` and `decode_next_log_event` over one instance of
`DecoderBuffer`. The stream is a sequence of units (magic number, preamble, log
events, end-of-stream tag, and units that fail in each way the code
distinguishes); `Start`, `Index` and `Time` are the running sums of their
lengths, log events and timestamp deltas.

| code | module |
|---|---|
| `m_metadata`, `m_ref_timestamp`, `m_num_decoded_message` | `hasMetadata`, `refTs`, `numDecoded` |
| the call in progress, with `decode`'s local `timestamp` | `call` |
| what the call gave Python | `ret`; `delivered` is the history of log events |
| `decode_preamble`, its two loops | `CallDecodePreamble`, `DecodeEncodingType`, `DecodePreamble` |
| `decode_next_log_event` before `decode` | `CallDecodeNextLogEvent` |
| one pass of `decode`'s loop | `DecodeLogEvent`: `ConsumeLogEvent`, then `FilterLogEvent` and `ReturnLogEvent` |
| `try_read` and the exits it causes | `TryRead`, `ReadReturns`, `ReadFails` |

One pass of a loop is one action: between its calls of `readinto` a decoding
method runs without giving up the interpreter lock. The parser is external: a
unit decodes once all its bytes are at the front, is incomplete before, and
anything else is malformed (`Ready`, `Incomplete`, `Malformed`). A client with
`ClientResumes = FALSE` stops at the first None or error, as a `for` loop over a
reader does; with TRUE it calls again whatever happened. A failed read raises: a
stream whose own `readinto` raised this library's `IncompleteStreamError`, which
`decode` would take for the end of the stream, is left out.

**LogEvent** is the log events Python holds, used by several threads.

| code | module |
|---|---|
| `m_log_event`, `m_py_metadata` of each object | `objects`; its field `source` is the log event it stands for |
| a call of `get_formatted_timestamp` in progress | `calls` |
| what calls returned or raised | `answer`; `shown` and `pickled` are histories |
| `PyLogEvent_init`, `create_new_log_event`, `PyLogEvent_dealloc` | `PyLogEventInit`, `CreateNewLogEvent`, `Dealloc` |
| `PyLogEvent::get_formatted_message` (`str` too) | `GetFormattedMessage`, then `FormatReturns` if it formats |
| `PyLogEvent_getstate` | `GetState`, then `FormatReturns` if it formats |
| `PyLogEvent_setstate` | `SetState`, from any state that was pickled |
| `get_formatted_timestamp`, `format_android_log` | `Formatted`, `DefaultZone`, `IsAndroid` |
| attribute tables to and from dictionaries | `AsDict`, `FromDict` |

A call that formats is two actions, since Python code runs in the middle of it.
A text stands for what it depends on: the time zone, and whether the Android
attributes follow. A table of attributes is empty, whole, or lacking one of the
values its format needs. `Representable` says which timestamps Python can format
in which time zone; the caller may pass something that is no time zone.

**PyQuery** is query objects in Python, over the operators of `Query`.

| code | module |
|---|---|
| the settings of a `QueryBuilder` | `builder`; Python integers, so unbounded |
| a `Query` object | `query`; `built` is the object as it was constructed |
| `PyQuery_init`, `PyQuery::init` | `NewPyQuery`, `Construct` |
| setters, `reset` and its parts, `build` | `SetTimes`, `AddQueries`, `Reset` (`Configure`), `Build` |
| `PyQuery_getstate`, `PyQuery_setstate` | `Pickle`, with `StateOf`, `Serialized`, `Deserialized` |
| `parse_py_int`, and the parsing of arguments | `Parses` |
| `PyQuery_match_log_event`, `PyLogEvent_match_query` | `MatchLogEvent`, `MatchQuery` |
| whether the interpreter still runs | `running` |

Timestamps have a width, `MinTs .. MaxTs`, and sums and differences wrap
(`Wrapped`): signed overflow is undefined in C++, and two's-complement wrapping is
what the compilers this extension is built with produce for these expressions.

**StreamingTest** adds to `DecoderBuffer` the client that the repository's unit
tests run, `PyDecoderBuffer::test_streaming`, on a new buffer: `Draw`, `Refill`,
`Refilled`, `RefillFails`, `Consume` and `Returned` are the points of its loop, in
order. The first sizes are drawn from `uniform_int_distribution(1, 0)`, whose
range is empty; what comes out is up to the library, so `Draw` takes any size, 0
included, or a negative one with which `subspan` ends the process. What is shown of
`test_streaming` is of the draws that are not negative.

**Reader** is `ClpIrStreamReader` over `Decoder`.

| code | module |
|---|---|
| `_metadata`, `_allow_incomplete_stream` | `readerMeta`, `allowIncomplete` |
| a generator of `search` | `searches`, by its query: not created, created, running, suspended at `yield`, returned or raised |
| which Python code a decoder call is made from | `caller` |
| `read_preamble`, `read_next_log_event` | `ReadPreamble`, `ReadNextLogEvent` |
| `search` until its first `next` | `Search`, which runs nothing of the body |
| `next` on a generator, the end of its preamble | `Advance`, `BeginLoop` |
| what is done with an answer | `Answer`, `AfterAnswer`, joined with the decoder's own step |

`__iter__` and `__enter__` are `ReadPreamble`, `__next__` is `ReadNextLogEvent`. The
client goes on after any answer to its iteration; whether it also goes on after a
search has ended, with the deltas that search lost, is `ResumesAfterSearch`
(`MayUse`).

**MetadataObjects** counts the references to `Metadata` and time zone objects.
Its steps are those of `Decoder`, each with the references it takes (`Created`,
`InitPyTimezone`, `MetadataInit`, `SetMetadata`), and the steps by which the client
lets go of the buffer, its metadata, the time zone and log events, in any order
between calls (`DropBuffer`, `DropMetadata`, `DropTimezone`, `DropLogEvent`), where
`Release` is `Py_DECREF` with the deallocator behind it. `ObjectsAlive` compares
the counts with the pointers (`Holders`).

**Metadata** is what the constructor reads from a preamble's JSON, by key
(`Readable`, `MetadataOf`), with `std::stoull` and the cast that follows it
(`RefTsReads`, `Wrapped`), the index map (`IndexMap`), and attributes looked up by
column, as a search does, and by name (`ByColumn`, `ByName`).

**IrStream** is a stream from end to end. A logger calls the functions of
`FourByteEncoder` (`EncodePreamble`, `EncodeAndroidPreamble`, `EncodeMessage`,
`EncodeTimestampDelta`, `EncodeMessageAndTimestampDelta`, `EncodeEndOfIr`) and
keeps the timestamp the next delta is taken from. The pieces of a log event are
encoded together, in one call or two; they are written one at a time, and a reader
decodes them in between (`DecodePreamble`,
`DecodeNextLogEvent`). A preamble may also be another encoder's, which spells a
reference timestamp as an unsigned integer and declares its own attributes. The
bytes of a piece are not modelled: `Decoder` has the buffer between the two ends.

**MCDecoderBuffer**, **MCStreamingTest**, **MCDecoder**, **MCReader**,
**MCMetadataObjects**, **MCIrStream**, **MCLogEvent** and **MCPyQuery** give the
instances of the runs, and **DecoderBufferProofs**, **ByteQueueProofs**,
**DecoderProofs**, **ReaderProofs**, **MetadataObjectsProofs**, **IrStreamProofs**,
**LogEventProofs** and **PyQueryProofs** the theorems.

How they are composed: `DecoderBuffer` is instantiated by `Decoder` and extended by
`StreamingTest`; `Decoder` is extended by `Reader` and by `MetadataObjects`; `Query`
is extended by `Decoder`, `PyQuery` and `Metadata`; `IrStream` extends `Metadata`.

Definitions commented "mutant" are plausible wrong versions of the definition
after them; no specification uses them.

## The runs

| run | configuration | shows |
|---|---|---|
| `buffer` | `MCStreamingTest.cfg` | the buffer is a queue of the stream's bytes; an incomplete stream is reported only when drained; the protocol is off outside `readinto`; the buffer grows only for bytes not consumed yet; `test_streaming`, unless it draws a negative size, reads the stream from its first byte on, each byte once |
| `buffer_overlap` | `MCDecoderBuffer_overlap.cfg` | violation: an undefined `memcpy` may corrupt bytes |
| `buffer_zero` | `MCDecoderBuffer_zero.cfg` | violation: a buffer of capacity 0 never grows |
| `search` | `MCReader_search.cfg` | a reader iterated and searched by turns on disordered timestamps, through failures, until a search has ended: every log event asked for is given, in order, with index and timestamp, and None only when none is left; memory follows the longest unit |
| `resumed_search` | `MCDecoder_resumes.cfg` | violation: after None the timestamps are wrong |
| `damaged` | `MCMetadataObjects.cfg` | on a stream with bad units, with retries, indices stay those of the stream, each step of a call uses up what there is to read (`CallBudget`) and every call ends; whatever is dropped in whatever order, nothing is freed in use, and what leaks is known |
| `tail` | `MCReader.cfg` | a reader with two generators, used also after one of them ended, reads the preamble once, is given by a search only what matches, ends its searches having read what they had to, and reads everything in the end. Deadlock is checked. |
| `round_trip` | `MCIrStream.cfg` | what is logged is what is read, with every reference timestamp, delta and attribute in its place; a search by column agrees with a match by name; everything logged is read |
| `log_event` | `MCLogEvent.cfg` | the cached timestamp never changes what a log event says or how it is pickled; an explicit time zone is honoured |
| `pickle_android` | `MCLogEvent_android.cfg` | violation: an Android log event that lacks an attribute cannot be pickled |
| `query_objects` | `MCPyQuery.cfg` | pickling keeps a query, and no search ends within its range, overflow included |
| `match_query` | `MCPyQuery_match.cfg` | violation: an unknown attribute in `match_query` ends the interpreter |

Bounds. `buffer` has an initial capacity of 3 and a stream of 8 bytes: the buffer
doubles twice, both growth and compaction happen with every number of consumed
and unconsumed bytes, overlapping and not, and every short read is possible. An
odd capacity is used because `cap / 2` rounds. Sizes drawn while the range is empty
go up to `MaxRequest = 4`, above the capacity. The stream of `search` and
`resumed_search` has four log events of 1 to 3 bytes with timestamps 1, 4, 3, 9 and
a buffer of 2 bytes that must grow to hold the largest. There are three queries (by
message with a margin that covers the disorder; by attribute; by message with an
attribute that has another value in some log events and one that none has) and
the absence of one, each a generator of its own in `search`, where both settings
of `allow_incomplete_stream` are tried and the client stops once a search has
ended (`ResumesAfterSearch = FALSE`). `tail` has three log events in the order of
time, 2, 9, 10, a buffer of 1 byte and a client that goes on after a search
(`ResumesAfterSearch = TRUE`). Its two generators matter together: one skips the
second log event, and loses its delta if reading fails before the third, so that
the other is given the third 7 too early, while its own search is to end at a log
event past 4. `damaged` has an encoding that is not supported,
a preamble with invalid metadata, a second preamble, a log event with attributes
the metadata does not declare, and two good log events; a magic number where a
log event is expected stands for corrupt bytes. Its client keeps up to two log
events (`MaxLogEvents`), so that one may be dropped before, between and after the
buffer and the metadata; the preamble that comes second makes the object that
leaks. Timestamps end at `MaxTs = 15`, so one query's
termination saturates. `StreamLen` and the end of the stream bound every
counter; no state constraint is used. `search`, `resumed_search`, `damaged` and
`round_trip` do not check deadlock since their client, the decoder buffer or the
stream ends, nor does `buffer`, where a negative draw ends the process.

`round_trip` has timestamps of `-3 .. 2` and deltas of `-2 .. 1`, so that the
encoder refuses some deltas and every reference timestamp, negative ones and
unsigned spellings included, goes through the string and back; two log events
(`NumLogEvents`), since a delta error shows in the second; the four columns of an
Android stream in the order of `encode_android_preamble` with values that differ
between columns, a foreign table of one, and no attributes; a time zone that
Python does not know; and queries on the first attribute, on two of them and on an
unknown one.

`log_event` has two threads, two objects (one may be the unpickled copy of the
other, or of a log event that is gone), and three log events: one created in Python
without metadata, one of an Android stream, one whose timestamp cannot be
formatted. Time zones are UTC, another one, and an object that is none. Threads
and objects are symmetric. Two threads are enough for one to cache while the other
is formatting, and two objects for a copy beside its original. Deadlock is
checked. `pickle_android` uses Android log events with and without the
attributes. `query_objects` gives timestamps three bits, `-4 .. 3`, and
constructs queries with every pair of bounds and every margin, and a margin below
the type; every sum that can overflow does. The builder has the boundary values
and the first integer above the type. `match_query` has a log event without
attributes. The two check no deadlock, as the interpreter may end.

Fairness. `ObjectsFairSpec` is weak fairness of the steps of a call: a C++ call
runs to its end, and `readinto` is assumed to return or raise. `ReaderFairSpec`
adds what a tailing client needs and says so: the writer finishes the stream, the
client asks again and again, the reader and its generators (strongly, for it can
ask only between calls), a generator's code runs to its next `yield` or `return`,
and neither allocation nor reading fails for ever (the two other strong
conditions). `FairSpec` of `IrStream` is weak fairness of the write of what was
encoded and of the reader's two calls: nothing obliges the logger to log, or to end
the stream. No fairness is assumed of any error, or of dropping anything.

## What is proved

`tlapm` checks every theorem, for every value of the constants under the named
assumptions: capacities, lengths and copying orders have their types, and
`Start`, `Index` and `Time` are the running sums of the stream, each entry the one
before it plus what the unit adds (`LayoutAssumption`). TLC evaluates these for the
streams of the runs. What follows from them for the whole stream is proved, by
induction on its units. The induction theorems of the library take an operator, so
the induction is made of a set: every non-empty set of naturals has a least
element (`LeastNatural`, from the well-foundedness of strict inclusion between
finite sets), so a set of positions that has the first and with each the next has
all (`UnitInduction`). From it: offsets grow (`StartsIncrease`), `Index` counts the
log events before a unit (`IndexCounts`), and a stream with no negative delta is in
the order of time (`OrderedHasNoDisorder`).

*DecoderBufferProofs.* The cursors are ordered within the allocation
(`TypeCorrect`), by the invariant `TypeInv`, which adds `NoPhantomBytes`: no more is
unconsumed than the stream handed out. The protocol flag follows `readinto` (`ProtocolCorrect`). The view handed to
`readinto` is never empty (`ViewHasRoom`), by `RoomInv`, which adds `0 < cap`:
after compaction at most half of the capacity is taken, after growth less than
all of it; so an empty read means a drained stream (`IncompleteMeansDrained`).
Both assume an initial capacity of at least 1, and `buffer_zero` shows that they
must. `GrowthFollowsBacklog`: the capacity never shrinks, and grows to less than four
times the bytes not consumed at that moment, from the rule alone (`DoubledCapacity`,
`CapacityKept`); `BacklogBoundsCapacity` draws the conclusion for a session whose
backlog has a bound. `BytesStayIntact` holds for a
`memcpy` that copies upwards, and `buffer_overlap` shows that it must be assumed.

*ByteQueueProofs.* `BufferImplementsByteQueue`: from intact bytes, the unconsumed
part of the buffer is a span of consecutive offsets, and each step maps to a
step of the queue or leaves it alone. `StreamingReadsTheStream`: what
`test_streaming` has read is the span from 0 to the consumed offset (`ReadIsSpan`).
It needs `LoopInv`: the loop consumes no more than is there, and all that is there
once the end of the stream was reported. Its one step that the buffer's other
clients do not take, `Commit(0)`, leaves the buffer as it is. Both
theorems assume a `memcpy` that copies upwards.

*DecoderProofs.* `DecoderIsBufferClient`: every step of the decoder is one that
`DecoderBuffer` allows, so its theorems carry over. On that rest
`DecoderTypeCorrect`; `MemoryBound` (a growth starts from fewer bytes than the
incomplete unit has); `DeliveryInOrder`; `IndexStaysPosition`, for any client and
any failures, where intact bytes make the unit that decodes the one the decoder
stands at; `SearchGivesMatches`, for any client too, since what is matched is what
is returned, with the index of that unit; and `TimestampsStayExact` for a client
that stops at None or an error, or that resumes and never searches (`LosesNoDelta`).
The last needs `ClockInv`: the timestamp of the last log event before the
position is `call.ts` during a call (`CallClockInv`), and `refTs` between calls as
long as no search ended without a log event. `ClockStep` is its one lemma about a
step, for any client; which answers keep the clock (`KeepsClock`) is then a matter of
the client. After a search that ended it is neither, which is what
`resumed_search` shows. What is left then is `TimestampsOnlyLag`: on a stream in the
order of time (`InTimeOrder`), no timestamp is later than the
one logged, nor earlier than one given before. It rests on `LagInv`, that both
`call.ts` and `refTs` are at most the timestamp of the position, and on
`BehindRefTs`, that nothing delivered is later than `refTs`, nor that than `call.ts`.

`CallsMakeProgress` is the argument why a call ends, as an action property: with
`CallBudget` the bytes still to be read, twice, those still to be consumed and one
for a read not begun, each step of a call ends it or lowers the budget, a natural
number by `BudgetType`, and only the end of a call raises it (a failed read goes
back to where a read may begin). It needs no assumption on the stream, the client
or `memcpy`. What it leaves to TLC is that a step is always possible and is taken.

`DecoderImplementsStream` maps each step of the decoder to one of
`LogEventStream`, or to none. Three facts make a None right. At the end-of-stream
tag no log event follows (`EofIsLast`, assumed). After a log event safely
outside a query's range no later one is in it (`MarginCoversDisorder`). And for an incomplete stream, the unit that
`decode` waits for is still incomplete when a read brings nothing (`AwaitsUnit`),
and the read had room (`RoomInv`), so that all of the published log events were
read. The index in the answer is the abstract one by `IndexIsPosition`, the
timestamp by `CallClockInv`: `ExactCallsRefine` is the refinement for any client of
which that holds.
`MarginSearchesStream` replaces `MarginCoversDisorder` by what a client chooses: if no
log event has a timestamp more than `d` below that of one written before it
(`Disorder`) and queries are made by the constructor with a margin of at least `d`
(`MarginsAtLeast`), the termination timestamp, saturated or not, is far enough
(`MarginKept`).
`OrderedStreamIsSearched` is the case of a stream in the order of time, where any
margin will do. `EofIsLast` stays an assumption: `Decoder` takes streams with units
in any order, and no encoder goes on after `EncodeEndOfIr`.

*LogEventProofs.* `DefaultTextIsOne`, `PickledStateIsOne` and `ExplicitZoneIsUsed`
rest on one invariant, `CacheCoherent`: the cached text of an object is the
default text of the log event it stands for, an object that has lost its
metadata has its text cached (so the default is never computed again
without it), and a call in progress that will cache a text formats the default
one. It is inductive only with the call's part, because an object may be cached,
by another thread, between the two actions of a call. `LogEventTypeCorrect` is the type.

*PyQueryProofs.* `PickledQueryIsTheQuery`: the margin computed from a saturated or
overflowed termination timestamp gives that timestamp again, for every width of
timestamps. `SearchIsNotCutShort`: the termination timestamp is never below the
upper bound, whatever the margin. `QueryTypeCorrect` includes that no way of making
a query gives an empty range.

*ReaderProofs.* `ReaderIsDecoderClient`: a step of the reader is one of `Decoder`,
or leaves it alone, so delivery in order carries over to any number of interleaved
generators (`ReaderDeliversInOrder`), and so do matches
(`ReaderSearchGivesMatches`). `CarefulTimestampsExact` and `ReaderImplementsStream`
are about a client that iterates and advances its generators by turns, goes on after
None, errors and failed reads, and stops once a search has ended (or never
searches: `CarefulClient`). They rest on `ReaderClock`, that `CallClockInv` holds and
`refTs` is right between calls until a search has ended, with `CallerInv` saying
whose call is in progress: the answer that loses deltas is one that ends a search.
The refinement then is `ExactCallsRefine`. `PreambleIsReadOnce` rests on `RInv`: the
reader has metadata exactly when the buffer does, which needs that a call for the
preamble is in progress only without metadata, and that an answer with metadata
is given only when the buffer has it.

`SearchesReadAll` covers generators that go on after others have ended, where
timestamps may be wrong. `SearchReadsAll` is about streams in the order of time
(`InTimeOrder`), where lost deltas only make timestamps too low (`LagInv` of
*DecoderProofs*): a log event that decode takes for safely past the range is past it,
and what is exhausted stays so while others read. `EofIsLast` is assumed. Nothing is
claimed of a stream with disorder there: a negative delta that was lost makes later
timestamps too high, and a search may end before its last match.

*MetadataObjectsProofs.* `ObjectsIsDecoder`: counting references changes nothing
of what the decoder does, so its theorems hold with objects dropped in any order
(`CountedDeliveryInOrder`, `CountedCallsProgress`). `LeaksAreKnown` and `ObjectsStayAlive` rest on `OInv`:
the types, with the client's metadata being the buffer's; `BufferMeta` (the buffer
has a metadata object exactly when `Decoder` says so, and there is none before);
and the exact counts of `OnlyTheseLeak`. Counts that were only positive would not be
inductive: a release must be known to be the last one or not.

*IrStreamProofs.* `LoggedIsRead`, `StreamTypeCorrect`, `PreambleIsAccepted` and
`SearchIsMatch`, for every width of timestamps and deltas, rest on `IInv`:
`PreambleOK` (the first piece is a preamble that spells the reference timestamp,
signed or unsigned), `PiecesOK` (the pieces after it are the message and delta of
each logged event, and `last` is the timestamp of the last one), and `ReaderOK`
(the position is that of the number of log events read, and `refTs` is the
timestamp of the last of them). It is assumed, and named in `IrStreamAssumption`,
that the names of a table are distinct and that a delta's range lies within that
of timestamps.

Model-checked only: the liveness properties `EveryCallReturns`,
`TailReaderCatchesUp`, `SearchEnds` and `EverythingLoggedIsRead` (liveness under
fairness, and that an action is enabled, are outside the prover; of
`EveryCallReturns` the decreasing measure is proved).

## Disagreements between code and documentation

1. `PyDecoderBuffer.cpp:248` compacts the buffer with `memcpy` between regions
   that may overlap (`buffer_overlap`).
2. `initial_buffer_capacity=0` is accepted and gives a buffer that never grows: a
   complete stream raises `IncompleteStreamError` (`buffer_zero`).
3. `decode` writes the reference timestamp back only when it returns a log event.
   After a search that ended in None, or with an error in a query, the deltas of
   the log events it consumed are lost, and later log events on the same buffer
   have wrong timestamps (`resumed_search`).
4. `PyLogEvent.cpp:47` requires the Android attributes whenever it formats, and
   pickling formats: a log event of an Android stream in which one of them is null
   or not declared cannot be pickled (`pickle_android`), though the README says that
   log events can.
5. `LogEvent.match_query` (`PyLogEvent.cpp:398`) lets the exception of an unknown
   attribute out of a C function, which ends the process; `Query.match_log_event`
   catches it (`match_query`).

The runs also show what no documentation speaks of: the metadata object of a
second preamble is never released, and every metadata object leaks one reference
to its time zone (`OnlyTheseLeak` states both); and `read_preamble` raises
`IncompleteStreamError` on a stream whose preamble is not all there, also with
`allow_incomplete_stream=True`, which `decode_preamble` is not given.

## Not modelled

- Re-entrant or concurrent calls on one buffer while `readinto` runs, and exported
  views that outlive it: the models take one call at a time on a buffer, and
  neither the code nor its documentation promises anything about a second one. What
  the code would do is access freed memory, of which no specification can say more.
- `ClpIrStreamReader.close`, `ClpIrFileReader` with `dump`, and decompression: they
  open, close or wrap the stream, which here is what `readinto` answers.
- `Metadata.__init__` from Python, which stores its arguments unchanged, and the
  getters that return a stored value.
- Reference counts other than those of metadata and time zone objects, so the leak
  of `PyQuery.cpp:259` at each pickling; objects that live within one call
  (`PyObjectPtr`) or for ever (`PyObjectGlobalPtr`).
- An `IncompleteStreamError` that `readinto` itself raises: with
  `allow_incomplete_stream`, `decode` would answer None
  (`decoding_methods.cpp:77-84`).
- Overflow of the running timestamp of a foreign stream: `IrStream` shows that it
  cannot happen to what a logger logs.
- Attribute tables that repeat a name: `emplace` then gives indices below the
  columns (`Metadata.cpp:99`), and the encoders here never write one.
- The types of attributes, whose check is in the parser's library; the copy of a
  log event's encoded bytes; the texts of `__str__` and `__repr__`; arguments of a
  wrong Python type and failed allocations outside `populate_read_buffer`.
- Casts, the exception type and module registration, which keep no state.
- The parser, the encoder's bytes and the wildcard matcher, which are a submodule
  that is not in the repository.
