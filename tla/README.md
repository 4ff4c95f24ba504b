# Verification of tmedia

tmedia plays videos, music and images in a terminal. This directory holds TLA+
models of the parts of it where several threads, or several states that have to
agree, meet: TLC checks them on small instances, TLAPS proves theorems about
them for every value of their constants. `PROJECT.json` says which line of the
source each definition stands for, what each run checks, which mutation of the
model breaks each property, and what in the code is hard to test.

Paths below are relative to the repository (`src/media/...`, `include/tmedia/...`).

## Inventory

| component | state | operations | what is hard |
|---|---|---|---|
| `MediaFetcher` (`src/media/mediafetcher.cpp`, `audio_thread.cpp`, `video_thread.cpp`, `duration_checking.cpp`) | `in_use`, `error`, the media clock, two jump counters, the published frame, the audio ring buffer; three mutexes, two condition variables | `begin`, `join`, `pause`, `resume`, `jump_to_time`, `dispatch_exit`, and three thread functions | four threads; the time is read under a mutex and used without it; wake-ups under two different mutexes; exceptions in any thread |
| `AudioRingBuffer` (`src/audio/audioringbuffer.cpp`) | an array, head and tail, frames read, start time | `read_into`, `peek_into`, `write_into`, `clear`, `set_time_in_bounds` | wrapping around; counts in frames, indices in samples |
| `BlockingAudioRingBuffer` (`src/audio/blocking_audioringbuffer.cpp`) | the above, a mutex and one condition variable | timed reads, peeks and writes, `clear` | one condition variable for waiters for room and for frames, `notify_one` |
| `Playlist` (`src/media/playlist.cpp`) | files, a queue of indices, a place in the queue, loop type, shuffled | insertion, removal, moves, shuffling | two kinds of index; a move that shuffles |
| program loop (`src/tmedia.cpp`) | the playlist, the pending move, the error of the file | opening, playing, moving on, keys, signals | several keys before one look at the state; files that cannot be opened |
| `MAAudioOut`, `ma_device_w` (`src/audio/maaudioout.cpp`, `wminiaudio.cpp`) | `PLAYING`, `STOPPING`, `STOPPED`, a bounded queue of samples, a fill thread, a device | `start`, `stop`, the fill thread, the callback | start waits for a full queue, stop for an empty one; three threads |
| `MediaClock` (`src/media/mediaclock.cpp`) | playing, start, pause and skip times | `init`, `stop`, `resume`, `skip`, `get_time` | readings at a stale system time |
| `MediaDecoder`, `StreamDecoder`, `decode` (`src/media/mediadecoder.cpp`, `src/ffmpeg/`) | one reader, a packet queue and a codec per stream | `next_frames`, `fetch_next`, `decode_next`, `reset`, `jump_to_time` | one reader feeds all queues; retries after errors; the end of the file; a seek leaves every stream somewhere |
| command line (`src/tmedia_cli.cpp`, `src/cli/cli_iter.cpp`) | parsed arguments, settings, options for all paths and for each path, files found | parsing, options, search for files | a word that is a parameter, an option or a path by what stands before it; local options over global ones |
| formatting, numeric helpers, containers, image, FFmpeg wrappers, terminal | none or tables | pure functions | boundaries of numbers |

How they interact. `main` parses the command line into a start-up state, the
program loop builds the playlist from it and takes one file after the other: it
creates a `MediaFetcher`, begins it, and runs an inner loop that reads keys,
draws the published frame and turns keys into pauses, jumps and moves. The
fetcher's audio thread decodes into the blocking ring buffer; the fill thread of
`MAAudioOut` takes frames from there (through the callback `on_data`), passes
them through its own queue to the callback of the device. Before a pause, a jump
or the end of the file the loop stops the audio. At the end it calls
`dispatch_exit()` and `join()`, throws the threads' error on if there is one,
and moves the playlist.

What makes each of them correct, and which hazards they have, is listed at the
line where it bites in `PROJECT.json`, "hazards"; the properties below are there
for these hazards.

## Modules

    SeekService <--refines-- MediaFetcher        SampleQueue <--refines-- AudioRingBuffer
                              |                                            |
                    MCMediaFetcher, MediaFetcherProofs          AudioRingBufferProofs

    MediaDecoder <- MCMediaDecoder, MediaDecoderProofs
    MediaClock, BlockingAudioRingBuffer <- ClockAndBufferProofs
    CommandLine <- CommandLineProofs
    MediaClock, CommandLine, BlockingAudioRingBuffer <- MCParts
    MAAudioOut <- MAAudioOutProofs
    Playlist <- PlaylistProofs
    Playlist <- TMediaLoop <- MCTMediaLoop
    TMediaLoop, PlaylistProofs <- TMediaLoopProofs

Assertions are compiled in in a Debug build only; the default is a Release build
(`CMakeLists.txt:56`), which CMake gives `NDEBUG`. The models say when an
assertion fails: as a property (`SeekTargetInBounds`), or as a state in which
the model stops (`Playlist.Fail`). A Debug build aborts there. A Release build
goes on with a place outside the queue, and the next look at the current file
reads past the end of a vector (`playlist.cpp:55-65`): undefined behaviour, which
could be followed by anything, so that there is nothing after it to check. The
properties of the playlist and the program loop hold up to there in either
build; that a failure can be reached at all is the finding of `loop_assert`.

### MediaFetcher

Each of the four threads is a program counter, and an action is what it does
between two points where another thread may come in: taking a mutex, waiting,
or reading shared state without one. `alter_mutex`, `ex_noti_mtx` and
`resume_notify_mutex` hold the name of their owner, `exit_cond` and
`resume_cond` the set of their waiters, emptied by `notify_all`. The steps the
threads have in common (the loop over `should_exit()`, the wait of a paused
thread, the sleep on `exit_cond`, the catch clause) are one operator each with
the thread as a parameter.

`begin` spawns the threads, and only then, outside the `try` block of the loop,
is the audio output created and started (`StartAudio`): where that throws
(`StartThrow`) the owner is at "uncaught", with `in_use` set and the threads
running. A thread that writes to a full audio buffer, or peeks at one with too
little in it, waits on the buffer's own condition variable, which `dispatch_exit`
does not notify: it is at "waiting" and then "woken", by the other side or after
25 or 100 ms (`BufferWake`), and looks again once.

Time is what the threads compare: `epoch` counts the jumps, and a reading of the
clock, a decoded frame, a start time of the ring buffer carry the epoch they
belong to; `pos` is before, at or past the end of the file. The ring buffer is a
bounded queue of epochs; the one old sample that `clear()` leaves in the array is
in `SampleQueue` and not here. The variable `media`, which never changes, says what
kind of file is played and what may happen to it: how many jumps, refused seeks,
exceptions (at each place where the code can throw one), which keys. A run gives
the set of files it starts from. `req_dims` is a turn of `alter_mutex` without
data (`DimsRead`, `Resize`). Left out: scaling, the pixels of the visualizer, the
values of times within an epoch, and threads that the system refuses to create.
After a failed start of the audio output in the middle of a file (a resume, the
end of a jump), the fill thread that `MAAudioOut::start` had already spawned is
not followed.

`SeekService` is what the jump messages promise to one decoding thread: there is
a newest wanted position, the thread is sent to newer and newer ones, never
back, and it rests only on the newest. Both decoding threads implement it
(`SeeksServed`).

### AudioRingBuffer and SampleQueue

The array, head and tail of the code, with samples as values; an action is one
call. `SampleQueue` is the abstract view: a sequence that writes append to and
reads take from. `Fifo` is the refinement: the queue is the samples between
head and tail. `clear()` leaves head and tail one sample apart, so the queue
then holds one old sample; that is part of the abstract view, too, and named
there. `set_time_in_bounds` is left out: nothing in the program calls it.

### BlockingAudioRingBuffer

Callers as program counters (out, waiting, woken) around a number of frames.
`notify_one` picks any waiter. The calls are the timed ones, which are those the
program makes; a wait may time out, or end for no reason, at any time.

### Playlist and TMediaLoop

One action of `Playlist` is one call. A call that throws changes nothing and is
left out. Shuffling is any order (`Orders`), with the current file first where
the code asks for it. `TMediaLoop` extends it with the program: which file is
open, the pending move, the keys, signals and errors. Every step the loop makes
on its playlist is the corresponding action of `Playlist`. The variable `alone`,
which never changes, tells executions without keys, signals and errors from the
others.

### MAAudioOut

The main thread in `start()` and `stop()`, the fill thread in its four phases
(ramp up, play, ramp down, drain) and the callback. A sample is counted;
the gains of the ramps are left out. The bounded queue of readerwriterqueue is a
counter with its capacity. The spinning wait of `start()` is a step that is
enabled when the queue is full.

### MediaDecoder

A file is a sequence of packets, each of one stream and good or not; a packet is
its place in the file and stands for the frames coded in it. `pos` is the reader.
`next_frames` is a program counter with the code's steps: fetch if the queue is
empty, decode, again. `jump_to_time` sends the reader back, resets every
decoder, and calls `next_frames` for one stream after the other until a frame
reaches the target; `jumping` tells its calls from the others.

`av_read_frame` may fail at any time, in the middle of the file too, and read on
at the next call (`FetchEnds`). A codec keeps at most `Delay` packets and gives
any number of them in one call: `ReturnFrames` takes the whole vector, and a jump
throws all of it away, the frames behind the one that reached the target
included. A packet that is not `timed` has frames without a pts; they compare as
earlier than any target (`Reaches`). A packet that cannot be decoded may take
frames with it that the codec had given out before the error (`DecodeFails`). A
refused seek changes nothing and is a stuttering step.

`from`, `skipped`, `shown`, `discarded`, `empty`, `refused` and `cut` are history:
where the last jump went, what became of the frames since, whether the last call
was empty, whether a read failed in the last fetch, and for which streams that
ended the jump. `MediaFetcher` has in its place what these calls return; here one
thread at a time calls, because each decoding thread owns its decoder. The
decoding threads own one stream each, and the fetcher's own decoder of both never
jumps; the model allows any set of streams for both.

### MediaClock

The five fields of the clock, a system clock that ticks, and the tick of the
player: it reads the time once (`curr_systime`), the keys of its batch use that
reading, and the jump at its end reads the clock again. Times are whole units.

### CommandLine

A word is given by what the parser sees in it (`Lex`): a chain of letters, a
long or local option with or without `=`, `--`, or none of these. Parsing takes
a word, or an option and its parameter, per step; then each parsed argument sets
an option or is a path; then each path is searched as often as it is to be read.
The file system is a constant tree (`PlacesAssumption`), and what is below a
place is the least set that holds it and all that is in its directories
(`Below`). Left out: the texts of help, versions and
errors, short options with a parameter (there is none), links that lead back to
a directory above.

## Runs

| run | instance | what it shows |
|---|---|---|
| `safety` | a movie with two jumps; all five kinds of file with exceptions, pauses, exits and signals; a movie without sound with all of these, two jumps and refused seeks | `SeekNotLost`, `SeeksServed`, `FramePaired`, `BufferHoldsStart`, `BufferFollowsClock`, `ErrorStops`, `CleanEnd` |
| `startup` | a movie with sound, whose audio output may fail to start | finding: the fetcher is left in use, with running threads |
| `live` | a movie without sound and a song, pauses and exits, no sleep on `exit_cond` or `resume_cond` times out; a movie without sound with pauses or with a jump and a song with a picture and a desync jump, time-outs fire | `ExitReachesAll`, `ResumeWakes`, `PlaysToTheEnd`, `JumpAnswered` |
| `bounds` | a movie without sound, one jump | finding: the asserted bound on the seek target |
| `rb_stereo` | three stereo frames, seven reads | `CountsAddUp`, `Fifo` |
| `rb_mono` | three mono frames | finding: a full mono buffer reads as empty |
| `loop_keys` | up to three of five files (two cannot be opened, one is an image), all keys, signals, errors; up to four files left alone; a playlist by itself, up to four files of three names, any calls | `PlayingIsCurrent`, `OnlyFailuresDropped`, `NextInTurn`, `QuitEnds`, `BadEnds`, `UnshuffledEnds`, `RepeatPlaysAll`, `QueueValid`, `InOrder`, `CurrentKept`, `PeekAgrees`, `RemoveKeepsCurrent` |
| `loop_shuffled`, `loop_assert` | three shuffled songs; a song and a bad file, shuffled | findings: `--no-repeat` with `--shuffle` plays for ever; an assertion of the playlist fails |
| `audio_threads` | two channels, a queue of four frames, requests of three, ramps of five | `TypeOK`, `Quiet`, `Filled`, `StartReturns`, `StopReturns` |
| `decoder` | every file of up to four packets of two streams, good or bad in any way, the first stream's frames with or without a pts, fetched two at a time, with read errors anywhere; the first codec keeps up to a packet; one failure allowed; one stream decoded or both | `NothingLost`, `JumpLands`, `EmptyMeansStopped`, `ThrowsForMany`, `NoneThrownAfter`, `CallsReturn` |
| `parts` | each by itself: a clock of six units and a film of four; every command line of up to four words out of fourteen, and short ones with the other options, over two directories below one another, an empty one and three files; a writer, a reader and a peeker at the audio buffer | `GoesOnFromTick`; `WordsUsedOnce`, `FilesAsAsked`; `BatonHeld` |

`FramePaired` and `BufferHoldsStart` speak of files in which no seek is refused:
the callers of `MediaDecoder::jump_to_time` ignore its result, and after a
refused seek the old position is decoded under the new start time.

Why the bounds are enough. Two jumps are the least that let one arrive while
another is under way; the theorem `NoSeekLost` covers any number. One
batch in the ring buffer makes it full and empty in turn, which is what the
audio thread's loop distinguishes. Three frames of ring buffer with seven reads
take head and tail more than twice around, at every alignment. Four files are
the least for which the place that shuffles again (the last but one) is neither
the first nor next to it, and a removal may be before, at and after the current
file; the theorems cover any number. Four packets with two per fetch put the end of
the file and a read error before, in and after a fetch, with both streams' packets
on either side of it, let two packets come out of the first codec at once before
and after a target, and with one failure allowed two bad packets in a row throw;
the theorems cover any file. Four words are the least that give one path an option for all
paths and an option with a parameter of its own, or two paths one option each;
the search is repeated at most twice. Six units of time let a clock that is
paused, resumed and sent back twice go on. A queue larger than one request, with a
ramp that ends inside a request, makes the fill thread meet a full queue in each
of its phases.

`MaxRead` in `AudioRingBuffer`, a file's `jumps` in `MediaFetcher`, `MaxEntries` in
`Playlist` and `EndTime` in `MediaClock` bound counters; nothing else is bounded.

Deadlock is checked in all runs of `MediaFetcher` (its end is a step that
stutters), of the ring buffer and of `MCParts` (so is the end of the command
line). It is not in `Playlist` and `TMediaLoop` (they stop on a failed
assertion, and a program ends), in `audio_threads` (it stops where the device
could not be started) and in `decoder` (it stops where an exception leaves it).

### Fairness

`MediaFetcher`: `ThreadFairness` is strong fairness of each thread, because a
thread that waits for a mutex another one takes and releases forever gets it in
the end, and of the end of a batch of keys, because `getch()` runs out of keys.
In the files of `live` that are not `timed` it is all there is: no sleep on
`exit_cond` or `resume_cond` has to time out for the shutdown or for a resume. A
wait in the audio buffer does end by itself there, by its time-out if nothing
else (`BufferWake`): an exit does not notify it, so it delays the shutdown by up
to 25 ms (100 ms for a peek). `SleepFairness` adds,
for the `timed` files, the end of the timed waits and an audio output that takes
its frames: `PlaysToTheEnd` and `JumpAnswered` need it, since the file ends
because a thread polls the clock, and the video thread answers a jump when it
wakes up. The clock itself may stand still, so that no jump is answered by the
end of the file. `MediaDecoder`: weak fairness of the steps of a call, which its
thread just runs through; nobody has to call. `TMediaLoop`: weak fairness of
the program, none of the keyboard: a key may be pressed for ever, and the
program's own steps still come.
`MAAudioOut`: the two threads are scheduled and a device that plays calls back.
`start()` and `stop()` are never assumed to be called, and the time-outs of
`stop()` are not assumed to fire.

## Proofs

| module | theorem | of |
|---|---|---|
| `MediaFetcherProofs` | `TypeCorrect`, `NoSeekLost`, `SeeksImplemented`, `ErrorsStop`, `EndsClean`, `FramesPaired`, `BufferConsistent`, `BufferUpToDate` | `TypeOK`, `SeekNotLost`, `SeeksServed`, `ErrorStops`, `CleanEnd`, `FramePaired`, `BufferHoldsStart`, `BufferFollowsClock` |
| `AudioRingBufferProofs` | `CountsCorrect`, `UnreadKept`, `RingImplementsQueue` | `CountsAddUp`, `KeepsUnread`, `Fifo` |
| `MediaDecoderProofs` | `TypeCorrect`, `PacketsKept`, `EmptyWhenStopped`, `ThrowsOnlyForMany`, `JumpReachesTarget`, `JumpStopsThere` | `TypeOK`, `NothingLost`, `EmptyMeansStopped`, `ThrowsForMany`, `JumpLands`, `NoneThrownAfter` |
| `ClockAndBufferProofs` | `MediaTimeNeverNegative`, `BatchGoesOn`, `NoNotificationLost` | `NeverNegative`, `GoesOnFromTick`, `BatonHeld` |
| `PlaylistProofs` | `QueueIsValid`, `UnshuffledIsInOrder`, `CurrentIsKept`, `PeekIsRight`, `RemovingKeepsCurrent` | `QueueValid`, `InOrder`, `CurrentKept`, `PeekAgrees`, `RemoveKeepsCurrent` |
| `TMediaLoopProofs` | `PlayingStaysCurrent`, `OnlyFailuresLeave`, `PlaysInTurn` | `PlayingIsCurrent`, `OnlyFailuresDropped`, `NextInTurn` |
| `CommandLineProofs` | `EveryWordOnce`, `FilesPlayed` | `WordsUsedOnce`, `FilesAsAsked` |
| `MAAudioOutProofs` | `TypeCorrect`, `StopLeavesNothing`, `PlayingIsFilled` | `TypeOK`, `Quiet`, `Filled` |

*No jump is lost.* `SeekNotLost` is not inductive: a thread in the middle of a
seek has messages left that say nothing of the position it is on its way to.
`SeekInv` adds that a thread on its way to an old position holds at least two
messages, one of which outlives the acknowledgement. The type invariant needs it
as well (the counter is decremented), so the two are carried through `Next`
together.

*The abstract service.* Only a jump of the main thread, a seek and an
acknowledgement touch the variables of `SeekService`. With `SeekInv`, a seek goes
to a position no older than the last and no newer than the newest, and the
acknowledgement that takes the last message finds the thread at the newest: each
is a step of the service of its decoder and a stutter of the other's.

*Locks, errors and the end.* `RunInv` says for each mutex at which places of a
thread that thread owns it, and who may be registered as waiting where. Hence a
thread that is about to clear `in_use` after an error still holds `alter_mutex`,
and no other sees the two in between; and when `join()` is past, the three threads
are at "done", which owns and waits for nothing. `EndsClean` is about an owner
that gets there: one that cannot start the audio output does not (run `startup`).

*Frames and positions.* `DataInv` follows the position from the decoder to the
frame in the thread's hand and to the ring buffer through each place of an
iteration, in particular through the gap where the buffer is cleared and the
decoder has not been sent away yet. Most steps leave all that alone: a lemma
shows once that such a step keeps `DataInv`, and that the steps in question are
of that kind. Where the demuxer refused to seek, nothing is claimed.

*The ring buffer.* With two or more channels the distance from head to tail is
always a number of whole frames and one sample. Hence they never meet, the two
counts add up to the capacity but one frame, and a write of what is offered
never reaches the head. For the refinement, the samples between the indices are
written out as a function of their position, and each call is shown to append,
to take or to leave them. The theorems assume `Channels >= 2` (`rb_mono` shows
why).

*Notifications.* Each step that changes the number of frames notifies, and then
somebody is awake if anybody waits; the others leave frames and woken threads as
they are and add a waiter that cannot be served now.

*The playlist.* Validity of the queue and the order of an unshuffled one are one
invariant: `unshuffle()` takes the new place from the queue, and removing looks
for an index in it, which is there because an injection of a finite set into
one of the same size is onto. The action properties follow from it: with the
place in the queue and the place in the files both in range, each call moves the
two together.

*The program loop.* Whatever a step of the loop does to the playlist is a call of
`Playlist` with arguments it may be called with, so the invariant of the playlist
carries over. `PlayingIsCurrent` is inductive with it: only the shuffle key moves
the queue while a file plays, and the current file stays current.
`OnlyFailuresDropped` needs the file that has failed and is not dropped yet: the
index kept for it still names it, because a move does not touch the files, and
removing at an index of a list without duplicates removes just that file. The
theorem assumes `GivenOnce`, since of a file given twice only one would be
dropped. `NextInTurn`, under the same assumption, is about the neighbour on a
circle: the unshuffled queue is what is left of the given files in their order,
so the first file after the current one that has not failed, as it was given, is
the current one's neighbour in the queue; removing a file that failed leaves the
other neighbours as they are.

*The decoder.* What came out (shown, skipped or discarded), is in the codec and is
queued are three sets of places in the file, each wholly before the next, and all
read since the last jump. Fetching adds a place later than all of them, decoding
moves the first of a queue to the end of the codec and the first few of the codec
to what came out, and a jump empties them. One lemma states each of these moves
for a stream; the streams a step does not touch keep theirs. The others build on
it. A fetch that counted nothing stopped at the end of the file or at a read
error, so a call that finds nothing either did. Each failed attempt drops a
packet that is later than every frame returned, so there are as many of those as
failures. And a stream that a jump has dealt with has reached the target with a
frame thrown away in its last call, and frames come out in the order of their
times; or it has come to the end of the file, and no frame comes out any more; or
it was cut short by a read error, and nothing is claimed. A jump that has thrown
a frame away which reached the target is past that stream, so that its next frame
is returned.

*The clock.* A tick shows a time of zero or more, at a moment that is not later
than now; what its keys do leaves the clock at that time, so it stays at zero or
more when time goes on, and a jump is clamped.

*The audio output.* The state is `STOPPED` exactly when no fill thread runs, and
then the queue is empty; each place of the main thread allows few places of the
fill thread. For the sizes, `queue \div Channels` never exceeds the capacity,
so a request is at least 0 and at most what `stkbuf` holds.

*The command line.* What a word is for depends on all the words before it
(`RolesOf`, a recursive function). That there is such a function for every number
of words is an induction; it is made with the least number for which there is
none (`LeastOf`, from the theorems on well-founded relations). The parser's
invariant says where each word before `argi` has gone, and that the parser takes
the word at `argi` for what `RolesOf` says: the step that takes a parameter from
the next word jumps over exactly the words whose role is "param". Each kind of
word adds its arguments at the end, so the words that were placed stay where
they are. The assumption `WordsAssumption` says that a word has one of the shapes
the parser tells apart.

*The files that are played.* `FilesPlayed` is about three stages. `OptionsInv`
says of the first arguments, as many as have been read, that each setting for all
paths is what the last of them gave it, and that what is set for a path alone was
given by the last local option between it and the next path. So at the end every
path is resolved to the options `FilesAsAsked` asks for. `SearchInv` counts: at
any moment the places of a file in the list are as many as the reads that have
found it. Within one read, the directories that wait are the roots of disjoint
parts of the tree (no directory is below itself and nothing is in two of them, so two
entries of one directory lead to different places), and a round trades one
directory for its entries: the files it appends are those that this directory led
to and the waiting ones no longer lead to. At the end, a bijection takes the
reads of the paths, as they are numbered in `paths`, to the reads of the
arguments they came from. `PlacesAssumption` is needed for this: where one read
reaches a directory in two ways, its files are found twice.

The assumptions are those on the constants, named in the modules that declare
them. Every invariant and action property that a passing run checks is proved.
Only model-checked: the call-by-call liveness `CallsReturn` and the other liveness
properties (fairness and `ENABLED` are beyond the prover). `NeverNegative` is only
proved.

## What the runs found

Five places where the code does not do what a line of it says, each with a run
that shows it (`PROJECT.json`, "findings"):

- the assertion on the seek target in `MediaDecoder::jump_to_time` can fail when
  the clock runs past the end before the next check of the duration;
- when the audio output cannot be created or started, an exception leaves the
  program loop past the fetcher's running threads, without `dispatch_exit` and
  `join`;
- a ring buffer of one channel that is filled completely reads as empty, and
  loses what was in it;
- removing an entry from a shuffled playlist compares a place in the queue with
  an index of the files, and can leave the place outside the queue;
- a shuffled playlist never ends, also with `--no-repeat`.

Two more that are plain from the lines themselves, and have no run: `-m` on the
command line has no effect (`tmss_to_tmps` sets `muted` to false, `tmedia.cpp:56`;
the models translate it as it is), and `next_frames` may return nothing before
the end of the file, where a comment (`mediadecoder.cpp:63`) expects that at the
end only: a read error ends a fetch like the end does.

## Not modelled

Formatting, image processing, audio helpers, the FFmpeg wrappers, the containers,
the tables of formats and the drawing through curses are functions on
characters, pixels and samples, tables, or calls into libraries, without state
of their own that a property could be about. What the modelled parts need of
them are constants (`Int32` and `Percent` for the numbers of the command line).
Of the formatting functions `parse_duration` is called by tests only.
miniaudio, readerwriterqueue, FFmpeg and curses are modelled as their callers
use them; miniaudio alone is most of the lines of the repository.

Of the modelled parts: `MAAudioOut`'s volume, mute and gains, `MediaFetcher`'s
dimensions, and the audio files whose audio stream cannot be decoded but whose
container has a picture are left out; `MediaDecoder` leaves out codecs that reorder
frames or refuse a packet and running out of memory; threads that cannot be
created are left out; see the components' notes.

## Plan

Done, in this order, because the threads meet there: `MediaFetcher` with
`SeekService`, the two ring buffers with `SampleQueue`, `Playlist` and
`TMediaLoop`, `MAAudioOut`; then the parts they stand on: `MediaDecoder`,
`MediaClock`, `CommandLine`.

Left: in `MAAudioOut`, which channel of the device a sample comes out of, and
`BlockingAudioRingBuffer` as its source; the clock of `MediaClock` in the place
of `MediaFetcher`'s readings.

Theorems left: none of the properties above but liveness; what is added to the
model will bring its own.
