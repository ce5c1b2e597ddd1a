# A TLA+ model of sseer

sseer is a Rust library that turns the bytes of a server-sent event stream into
events, and keeps a client connected to the server that sends them. This
directory models its core in TLA+, checks the models with TLC on small instances
and proves their main properties with TLAPS for all values of the constants.

## The system

| Part | Code | State | Operations |
|---|---|---|---|
| line parser | `src/parser.rs` | none | `find_eol`, `split_at_next_eol`, `read_line`, `parse_line`, `parse_line_from_buffer`, `parse_line_from_bytes`, `validate_bytes`, `validate` |
| event builder | `src/event_stream.rs` | the fields of the event being received, `is_complete` | `add`, `dispatch`, the data buffer's `push_str`, `starts_with_bom`, `parse_event` |
| `EventStream` | `src/event_stream/generic.rs` | byte buffer, builder, NotStarted/Started/Terminated, last event id | `poll_next`, `set_last_event_id` |
| `EventStreamBytes` | `src/event_stream/bytes.rs` | the same, and a remainder | `poll_next`, `try_parse_remainder`, `set_last_event_id` |
| retry policies | `src/retry.rs` | their parameters | `retry`, `set_reconnection_time` |
| `EventSource` | `src/reqwest.rs` | Connecting/Retrying/Open/Closed with the state of the last retry, last event id, policy | `poll_next`, `initiate_connection`, `handle_successful_response`, `handle_error`, `handle_event`, `start_retry` |
| `Utf8Stream` | `src/utf8_stream.rs` | bytes held back, Active/Terminated | `poll_next` |
| `JsonStream` | `src/json_stream.rs` | Active/Inactive | `poll_next` |
| errors, crate root | `src/errors.rs`, `src/lib.rs` | none | types, wording, re-exports |

They are layers. An `EventSource` opens a connection and wraps its body in a new
`EventStreamBytes`. A stream is polled by its consumer, polls the inner stream
of byte chunks, appends what it gets to its buffer, takes lines off the buffer
with the line parser and passes them to the builder, which makes events of them.
There are no threads. Everything that is hard comes from the order of things:

* chunks end anywhere, inside a name, a character, a CRLF or a byte order mark;
* between two chunks the inner stream pauses and fails, and a poll returns from
  the middle of a buffer that holds several events;
* the end of the stream closes a line that still waited for its second half;
* two buffers hold the bytes of one stream in `EventStreamBytes`;
* an event depends on lines sent long before it, through its id;
* connections break at any point, half an event received, and the state of the
  last retry, the policy and the last event id live on;
* a character of several bytes is held back until it is whole, over pauses and
  errors, and may never become so;
* an event that cannot be read must not cost the ones after it.

## The modules

| Module | Models | Uses |
|---|---|---|
| `Options` | Rust's `Option` | |
| `Text` | bytes, `ValidUtf8`, the byte order mark | `Options` |
| `SseParser` | the line parser, as operators on byte sequences | `Text` |
| `LineBuffer` | a buffer that fills, chunk by chunk, while the line parser looks at it | `SseParser` |
| `EventBuilder` | the builder, the byte order mark, one turn of the parse loop (`ParseStep`) | `SseParser` |
| `SseDecoder` | **abstract**: the decoding of a whole text, without chunks, polls or buffers | `EventBuilder` |
| `SseReference` | **reference**: what a text says, read off all its lines at once, without a builder | `SseDecoder` |
| `EventStream` | the generic stream, poll by poll | `EventBuilder`, implements `SseDecoder` |
| `EventStreamBytes` | the stream over `Bytes` chunks | `EventBuilder`, implements `EventStream` |
| `Utf8Stream` | the stream of strings | `Text` |
| `JsonStream` | the stream of deserialised events, over an `EventStream` | `EventStream` |
| `RetryPolicy` | the three policies | `Options` |
| `EventSource` | requests, connections, retries | `EventBuilder`, `RetryPolicy` |
| `Resumption` | an `EventSource` and a server that resumes | `EventSource` |
| `MCText`, `MC*` | the instances for TLC | |
| `*Proofs` | lemmas and theorems of the module they are named after; those of `SseParser` are in `EventBuilderProofs`, of `SseReference` in `SseDecoderProofs`, of `Resumption` in `EventSourceProofs` | |

Operators named after `Wrong:` in a comment are the changed forms of a
definition that break a property; `PROJECT.json` pairs them with it.

**Bytes.** A text is a sequence over `Byte`. Only the bytes that the code looks
at are told apart: CR, LF, colon, space, NUL, the three bytes of U+FEFF, the
letters of the four field names, and bytes that occur in no UTF-8 text (`Ill`).
`ValidUtf8` is `from_utf8` on these: no ill-formed byte, and every byte of the
multi-byte character part of a whole one. `Millis` is `str::parse::<u64>`: a
function on the values that do parse. The default type and the names are
constants. A byte
slice, a `Str` and a `Bytes` of the same bytes are the same value, so what is
copied and what is shared is not modelled.

**`SseReference`** says what the events of a text are in the way a reader of the
format would: where its lines end (`EndsLine`), that the id is the last one
without a NUL of this block or an earlier one (`IdOf`), that the data are all
data lines of the block with a LF between them (`DataOf`), and so on. It shares
with the code only how a single line is read (`ReadLine`). `SourceSpec` runs the
decoder and keeps the text it began with.

**`EventStream`.** `wire` is what the inner stream has yet to yield, and
`buffer`, `builder`, `state`, `lastEventId` are the struct's fields. `poll_next`
runs in steps, `pc` says where it is: `Poll` enters it, `TakeLine` and `NoLine`
are the macro `try_parse_event_buffer`, and `InnerPending`, `InnerErr`,
`InnerEnd` and `InnerChunk(n)` are the four answers of the inner stream, the
last one with any number of bytes, none included. `SetLastEventId` may come
between two polls. `items` and `ret` record what was handed out.

**`EventStreamBytes`** has the same steps with `remainder`: `TakeRemainderLine`
and `RemainderDone` are the macro `try_parse_remainder` at its two uses, with the
parse loop `ParseStepBytes` and the line reader `ParseLineFromBytes`, which the code
writes out again; `TakeLine` shares `ParseStep` with `EventStream`.
`ChunkEmpty`, `ChunkKept` and `ChunkCopied` the three branches for a chunk.

**`EventSource`.** `conn` is the variant of `ConnectionState`, `done` says that
the future of `Connecting` has completed, `retry` is `retry_state`, or attempt
number and delay in `Retrying`. Each policy has its own `retry` and
`set_reconnection_time` (`BackoffRetry`, `ConstantRetry`, ...), `Retry` and
`SetReconnectionTime` choose by its kind. The actions are the arms of the match in
`poll_next`, each with the handler it calls, down to `handle_error` asking the
policy. The stream of a connection is seen line by line: `StreamLine` runs
`ParseStep` on a builder that every connection starts anew, which is what
`EventStreamBytes` does by the theorems below. That a poll waits is no step. A
future polled after it has completed may do anything (`Undefined`), and a panic
in `mul_f64` ends the source (`Panicked`). The factor of a backoff is a whole
number here; durations are natural numbers up to `DurationMax`. `error` is the kind of
the last `EventSourceError`.

**`Resumption`** puts a server beside the source. The server is no part of
sseer and is the assumption of this module: it keeps a `log` of events with
different data, writes an event as an id line, if it has an id, a data line and
an empty line, and answers a request whose last-event-id header names one of its
events with those after it, any other request with the whole log. Every action
of the source is there, the ones that meet the server bound to it:
`ServerAnswers` is `ConnectOk`, `ServerSends` is `StreamLine` with the next line
of the log. A connection breaks between any two lines (`StreamStops`), and the
rest of the event is lost with it.

**`Utf8Stream`** is one action for each answer of the inner stream, since its
poll polls the inner stream once. `out` joins the strings handed out; the only
character of more than one byte is U+FEFF, with three.

**`JsonStream`** runs `EventStream`'s own steps and, when the inner poll
returns, makes of it what the two `poll_next` do (`Answer`). What text is a
value is a constant: `Jsons` for the whole text, `JsonStarts` for a text that
begins with one. In the instance a value may have white space on either side, which
both kinds accept. Both kinds are in one module, `withPath` tells them apart.

## The runs

| Run | Instance | Shows |
|---|---|---|
| `lines` | every byte sequence up to six of seven bytes | the borrowing parser and the two owning ones read a line alike (`ReadersAgree`), a split loses nothing but the line end (`SplitsCleanly`), a line once found stays the line found as bytes are appended (`NeverTooEarly`) |
| `decoder` | 3 lines of all 17 kinds, 5 lines of five kinds, all line ends and beginnings | the builder's events are those that a reference reads off the lines of the whole text (`DecodesAsReference`); texts are UTF-8 (`ValidText`), ids have no NUL (`NoNulId`) |
| `stream` | texts with every line end, unfinished line and beginning, up to three lines, in every cut, with pauses and errors at every poll | `EventStream` implements the decoder (`Implements`); it drains its buffer before it polls, decides on the byte order mark first, respects the end, and is fused; under fairness it comes to its end with all of the text decoded (`ComesToEnd`) |
| `bytes` | the same texts | `EventStreamBytes` behaves as `EventStream` poll for poll (`Implements`), one buffer at most holds bytes (`OneBuffer`), and it comes to the same end (`ComesToEnd`) |
| `utf8` | four beginnings, then every text up to four of five bytes, in every cut | the strings are all that is UTF-8 of what arrived (`HandsOutAllText`), of a text less than a character is held back (`HoldsLessThanACharacter`), the end tells exactly if bytes were lost (`EndTellsLoss`) and is reached |
| `json` | texts of two events that are a value, more than a value, none, or no UTF-8, in every cut, both kinds | each item is answered for in order and none is lost to the failure of another (`NothingCutShort`), the event stream is left alone after its end (`NotPolledAfterNone`), the end is reached |
| `source` | eight policies, seven lines, three lines to a connection, seven retries | ids to resume from (`ResumesFromLastEvent`), number and length of the retries (`RetryBudget`, `DelayBounded`, `NeverShrinks`, `CappedNeverPanics`), no event across two connections (`NothingLeaksIn`), the reasons to close (`ClosesForCause`), what an error tells of the state (`ErrorTellsFate`), and, under fairness, an end for every policy with a limit (`GivesUp`) |
| `resume` | every log of three events whose ids are usable, empty, missing, with a NUL, or no header value; three connections, breaks anywhere | no event is skipped (`NoGap`); where every event has a usable id, each is handed out once and in order (`ExactlyOnce`) |

The bounds. The parser looks at one byte behind a line end and one behind a
colon, so six bytes hold two lines with all that decides them. The builder's
fields are set by one line and reset or kept by an empty one; three lines make a
block and its successor's first line, five make two dependent events, and the
abstract decoder's theorems need no bound. A cut matters by the line end,
character or mark it falls into, and every cut of each text is taken, also into
single bytes. In `utf8`, four bytes after a beginning that may be half a
character hold a character, its wrong continuation, and a byte after either. In
`source`, seven retries exceed every limit of the policies, let an unlimited
backoff pass `DurationMax`, and let a limited one reach its longest delay and
stay there; three lines make an event with an id or a time, and a second event
comes over the next connection. In `resume`, nine lines are a whole log of
three events, and three connections let it break twice, in
one event or in two.
`MaxLines` and `MaxRetries` bound the histories; the runs with them stop there,
and the last states (`Closed` after its poll, `Undefined`, `Panicked`) have no
successor, so deadlock is not checked in `source`, `resume` and the runs of
`MCEventSource`, in `decoder`, which ends with its text, and in `lines`.

### Where the code and its comments differ

Each of these runs checks what a comment or the README says, and TLC finds a
behaviour of the code that breaks it.

| Run | Said | What happens |
|---|---|---|
| `id_lost_on_reconnect` | `event_stream.rs:136`: the last event ID "remains set to this value until the next time it is set by the server" | the builder of a new connection knows no id, so its first event without one empties `last_event_id` |
| `polled_after_response` | `README.md:14`: `while let Some(result) = event_source.next().await` | after a bad response the next poll polls a future that has completed. The loops in `lib.rs:35` and `examples/reqwest.rs:45` end at `is_response_err`, and by `ErrorTellsFate` that is exactly where they must |
| `max_retries_exceeded` | `retry.rs:77`, of `Constant`: "The maximum number of retries to return before giving up" (`retry.rs:26` words it alike for `ExponentialBackoff`) | with 0 there is a retry; with N above 1 there are N-1 (`RetryBudget`) |
| `json_path_lenient` | `lib.rs:99`: "lets you choose between the default errors or `serde_path_to_error` for richer errors" | `new_path` does not check the end of the text: data with something after its value is a value there and an error with `new_default` |

More places deserve a look. The properties state what the code does there.

* The comment at `event_stream.rs:136` has two more consequences for a reader.
  The id given to `set_last_event_id` is unknown to the builder, so the first
  event without an id line replaces it by the empty id. And a block without
  data, whose id the comment's step 1 sets, reports it with the next event only.
* The first delay of a backoff is not compared with max_duration (`DelayBounded`
  excepts it, `retry.rs:24` does not).
* A time the server asks for is read for the first retry only, since the state
  of the last retry outlives the connection that worked (`retry.rs:13`,
  `reqwest.rs:434`).
* A transport error while connecting, or an id that no header can hold, closes
  the source without asking the policy (`reqwest.rs:412`, `425`); besides a
  policy that is used up these are the only reasons to close (`ClosesForCause`).
* After events without an id, an empty id is sent and the server starts again:
  events are repeated, which `ExactlyOnce` excludes by its premise, and none is
  skipped, which `NoGap` shows without one.
* A byte that no text has makes a `Utf8Stream` hold back all that follows until
  the stream ends (`utf8_stream.rs:66`); `HoldsLessThanACharacter` has UTF-8 as
  its premise.

### Fairness

The safety properties need none. In `EventStream!FairSpec` the consumer polls again
after each poll (weak fairness of `Poll`; a consumer that stops gets nothing and
is not the library's fault), the loop inside a poll runs on (it is sequential
code), and an inner stream that is polled over and over yields a byte or its end
at some time (strong fairness, since pauses and errors make it not continuously
possible). An inner stream that pauses or yields empty chunks for ever would
otherwise be a counterexample that says nothing of the code. The steps of the
loop are named by their effect on one variable (`LineGone`, `ParseOver`), so that
the fairness is of a small formula; `TakeLine` and `NoLine` are the only actions
with these effects. `EventStreamBytes!FairSpec`, `JsonStream!JsonFairSpec` and
`Utf8Stream!FairSpec` assume the same of their consumer and inner stream.
In `EventSource!FairSpec` a request is answered or fails, a delay ends, a stream
breaks or ends after its lines, and the consumer polls (weak fairness of
`Next`). A server that keeps a healthy connection open for ever is no subject of
`GivesUp`.

## The proofs

TLAPS checks these for every set of texts, lines, header values, policies and
logs, from the assumptions named in the modules: the special bytes are bytes and
are told apart (`ByteAssumption`, `CharacterAssumption`), the field names differ,
are not empty and have no colon (`NameAssumption`, `FieldAssumption`), `None` and
the error values are no data, and a server's log is as described above
(`LogAssumption`).

The results build on one another:

    EventStreamBytes --> EventStream --> SseDecoder --> reference
                             ^
                         JsonStream

where the first two arrows are refinements, the third is the agreement of events,
and `JsonStream` runs an `EventStream`. The proofs are composed the same way:
`EventStreamProofs` has an instance of `SseDecoderProofs` whose text is
`buffer \o wire` (`Whole`), and `EventStreamBytesProofs` one of
`EventStreamProofs` whose buffer is `buffer \o remainder` (`Proved`). A theorem of
the instance holds of the stream as soon as the stream is a behaviour of the
instance (`StreamIsWhole`, `BytesIsProved`); the short lemmas before these say
that an operator and its copy in the instance are the same.

* `EventBuilderProofs`: a line found is stable under appended bytes
  (`LineIsStable`), which is what makes chunks invisible; a split loses nothing
  but a line end (`SplitLosesNothing`); the three readers agree (`ReadersAlike`).
  All from the index of the first line end. A builder stays a builder
  (`ParseStepType`).
* `LineBufferProofs`: the same of a buffer that fills, as the run `lines` states
  it: `ReadersAgree`, `SplitsCleanly` and `NeverTooEarly`, for buffers of every
  length.
* `SseDecoderProofs`: types; texts are UTF-8 and ids have no NUL. The inductive
  invariant `CleanInv` says it of the builder and of all items; the step that
  matters is that two UTF-8 lines joined by a LF are UTF-8 (`JoinIsUtf8`).
  `DecodesAsReference` is the longest proof. Its inductive invariant `Follows`
  says what the run never looks at, the states before the end: the decoder stands
  between two lines of the text, its builder is what the reference says of the
  lines before (`SaidBy`), and its items are those of the lines before
  (`ItemsBy`). A step keeps it for two reasons that have nothing to do with each
  other. The line that `find_eol` takes off is the next line of the reference
  (`LineOfText`, and `LineOfClosedText` for the LF that the end of the stream
  adds behind a CR); and one more line changes what the reference says in the way
  `add` and `dispatch` change the builder (`SaidStep`, `ItemsStep`, from one
  lemma for each field: `TypeStep`, `IdStep`, `RetryStep`, `DataStep`).
  The reference folds over lines and picks greatest positions, so a few of its
  lemmas need an induction. The library's theorem for it takes an operator, which
  the provers cannot instantiate; `Induction` here takes a set of numbers, from
  the library's well-foundedness of `<` and its least elements.
* `EventStreamProofs`: types, `DrainedBeforePolling`, `UndecidedUntilStarted`,
  `EndedNotPolled`, `Fused`, from one inductive invariant that ties `pc` to
  `state` and to the absence of a line, needed because none of the four is
  inductive alone: that `None` is final follows only from the end being
  respected and the buffer having no line. `StreamImplementsDecoder` is the
  refinement: text is `buffer \o wire`, a chunk is a stutter, or the decoder's
  `Start` where it settles the byte order mark (`BomIsStable`), a line is
  `Interpret` (`LineIsStable`), the end is `Finish`. From these two:
  `StreamGivesTheReference`, that a consumer which was answered `None` has got
  exactly the events of the reference, in order, however the text was cut and
  whatever paused or failed; and `StreamTextIsValid`.
* `EventStreamBytesProofs`: types, `OneBuffer`, and the refinement of
  `EventStream`, where the generic buffer is `buffer \o remainder`. `OneBuffer`
  is what makes that concatenation read in the right order. Then, through
  `Proved`: it implements the decoder (`BytesImplementsDecoder`), gives the events
  of the reference (`BytesGivesTheReference`), keeps UTF-8 and ids without NUL
  (`BytesTextIsValid`), and is fused (`BytesIsFused`).
* `JsonStreamProofs`: every step of a `JsonStream` is one of its event stream or
  leaves it alone (`JsonPollsAnEventStream`), so the invariants of the event stream
  are at hand. Types; `NothingCutShort`; `NotPolledAfterNone`, from `GivenUp`, that
  the stream is inactive exactly when the event stream has answered `None`, which
  is final by `Fused`. `JsonAnswersTheReference` joins them: at its `None` the
  answers are, one for one, the reference's items deserialised.
* `Utf8StreamProofs`: types, `HandsOutAllText`, `HoldsLessThanACharacter`,
  `EndTellsLoss`, and that the end has no string left to return
  (`NoStringAtEnd`: the branch at `utf8_stream.rs:83` is never taken). All from
  `Carried`: the text is `out`, `buffer` and `wire` in a row, `out` is UTF-8 and
  no beginning of `buffer` is. A chunk keeps it because text after text is text
  (`ValidConcat`) and what is cut off behind the longest text begins with none
  (`NoTextHeldBack`). The lemmas say where the characters of a text lie, since
  what is valid is defined by position.
* `EventSourceProofs`, of the source: types; `RetryBudget`, from `Counted`, that the number of
  retries made equals the attempt number during a delay and is one less after
  it; `ResumesFromLastEvent`, from `IdInv`; `DelayBounded` and `NeverShrinks`,
  from `Paced`, that a well-chosen policy keeps both delays within its longest
  one; `CappedNeverPanics`, where the times that client and server name times
  the factor are durations, from `Below`; `NothingLeaksIn`; `ClosesForCause`,
  from `Counted` and `IdInv`; `ErrorTellsFate`, from `FateInv`, that an open
  source has returned no error since it opened.
* `EventSourceProofs`, of `Resumption`: a source beside its server is a source
  (`ResumptionIsSource`), so what is proved of `EventSource` holds there too;
  types; `NoGap` and `ExactlyOnce`. `Parsing` ties the builder to the line the
  server is at, and makes a step one of `TakesId`, `TakesData`, `TakesEnd`.
  `GapInv` says that all events before the one that any id in the system leads
  to (`lastEventId`, the header on its way, the builder's) have been seen or are
  being sent: an id taken from the builder a line too early breaks it.
  `OnceInv` says that these ids all lead to the event after the last one seen.

Every invariant and every action property of the passing runs is proved. Only
model-checked are the liveness properties (`ComesToEnd` of the three streams,
`JsonComesToEnd`, `GivesUp`), since fairness is beyond the prover, and the four
violations. What the proofs do not give: that `ValidUtf8` and
`Millis` are what `str::from_utf8` and `str::parse` do, which the modules state by
definition, and that a stream comes to its `None` at all, without which `StreamGivesTheReference`
says nothing of its last events.

## Not modelled

The wording of errors, `Debug` and `Display`, and the accessors of
`EventSourceError` other than `is_response_err`; `serde`'s deserialisation; memory
use and sharing of buffers; the inside of `reqwest`, whose request succeeds,
fails or brings a bad response (of a type that is named and another: a response
without a content type is taken for an event stream, `reqwest.rs:141`);
`CantCloneError`, which keeps a source from being made; `futures_timer`; wakers,
beyond the fairness of the specifications: that a poll returns Pending only after
an inner poll did is `NoLine`, whose wrong form in `stream` returns without one.
`lib.rs` re-exports, and its `response_to_stream` is part of `ConnectOk`.
Benchmarks, examples and scripts.

## What could follow

Other characters of several bytes in `Text`; fractional factors of a backoff; the
stream of a connection in `EventSource` as an `EventStreamBytes` of its own, in
place of its lines.
