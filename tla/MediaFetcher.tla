---------------------------- MODULE MediaFetcher ----------------------------
(***************************************************************************)
(* One MediaFetcher (mediafetcher.h) playing one media file: the three     *)
(* threads that begin() spawns (audio, video, duration) and the owning     *)
(* thread "main", which runs the inner loop of tmedia_main_loop, joins the *)
(* threads and reports their error.                                        *)
(*                                                                         *)
(* Each thread is a program counter.  The three mutexes, the two condition *)
(* variables, the media clock, the jump messages and the audio ring buffer *)
(* are the state they share.                                               *)
(*                                                                         *)
(* Media time is abstracted to what the threads compare:                   *)
(*   epoch  how many times the user moved the playback position; two       *)
(*          readings of the clock with the same epoch belong together;     *)
(*   pos    the reading against the duration of the file.                  *)
(* A decoded frame is the epoch of the position it was decoded from, the   *)
(* ring buffer a bounded queue of such frames; the old sample that clear() *)
(* leaves in the ring buffer is in SampleQueue and left out here.          *)
(***************************************************************************)
EXTENDS Naturals, Sequences

CONSTANTS
  Media,       \* the files that may be opened, and what may happen to them
  BufCap,      \* capacity of the audio ring buffer, in decoded batches
  MaxBatch     \* the most frames one call of next_frames returns

(* A file has a kind and its streams.  While it is played it may be jumped *)
(* in up to `jumps' times; avformat_seek_file may refuse a seek; the       *)
(* decoders, the renderer or the audio device may throw; and the user may  *)
(* do what is in `keys'.  In an execution that is not `timed' nothing      *)
(* promises that a timed wait ends by itself.                              *)
MediaKind ==
  { m \in [type : {"VIDEO", "AUDIO", "IMAGE"}, audio : BOOLEAN, video : BOOLEAN,
           jumps : Nat, refuses : BOOLEAN, throws : BOOLEAN, timed : BOOLEAN,
           keys : SUBSET {"leave", "jump", "toggle", "interrupt"}] :
      /\ m.type = "VIDEO" => m.video
      /\ m.type = "AUDIO" => m.audio
      /\ m.type = "IMAGE" => m.video /\ ~m.audio }

ASSUME MediaAssumption == \A m \in Media : m \in MediaKind
ASSUME BoundsAssumption == BufCap \in Nat \ {0} /\ MaxBatch \in Nat \ {0}

Decoders == {"audio", "video"}
Workers  == Decoders \union {"duration"}
Threads  == Workers \union {"main"}
Nobody   == "nobody"

VARIABLES
  media,      \* the opened file; never changes
  pc,         \* where each thread is
  in_use,     \* MediaFetcher::in_use; should_exit() is its negation
  error,      \* MediaFetcher::error has a value
  playing,    \* MediaClock::m_playing
  epoch, pos, \* the reading of the media clock
  msg,        \* msg_audio_jump_curr_time and msg_video_jump_curr_time
  cap,        \* current_time of each decoding thread, with its epoch
  asked,      \* epoch of the last target each decoder was asked to seek to
  at,         \* epoch of the position each decoder reads from
  hold,       \* the frames each decoding thread holds
  buf,        \* the audio ring buffer: its start time and its frames
  frame,      \* MediaFetcher::frame has valid dimensions: a picture was published
  out,        \* the audio output is consuming frames
  req_jump,   \* the jump the current tick of the main loop will make
  jumps,      \* calls of jump_to_time so far (at most media.jumps)
  alter_mutex, ex_noti_mtx, resume_notify_mutex, \* the thread holding each
  exit_cond, resume_cond                          \* the threads waiting on each

vars == <<media, pc, in_use, error, playing, epoch, pos, msg, cap, asked, at,
          hold, buf, frame, out, req_jump, jumps, alter_mutex, ex_noti_mtx,
          resume_notify_mutex, exit_cond, resume_cond>>

mutexes  == <<alter_mutex, ex_noti_mtx, resume_notify_mutex>>
conds    == <<exit_cond, resume_cond>>
clock    == <<playing, epoch, pos>>
decoding == <<cap, asked, at, hold>>
mainVars == <<out, req_jump, jumps>>

Positions == {"before", "at", "past"}    \* less than, equal to, greater than the duration
NoFrames  == [n |-> 0, epoch |-> 0]
NoTime    == [epoch |-> 0, pos |-> "before"]

CanSeek == media.type \in {"VIDEO", "AUDIO"}   \* neither is done to an image

Goto(t, l) == pc' = [pc EXCEPT ![t] = l]

(* Where a thread can be.                                                  *)
Labels ==
  { "unborn", "open", "done", "top", "park", "parked", "nap", "napping",
    "asleep", "catch", "raise", "decode", "sample", "clear", "seek", "ack",
    "deliver", "image", "peek", "waiting", "woken", "expire", "begin", "start",
    "loop", "keys", "toggle", "notify", "jump", "restart", "resize", "dispatch",
    "join", "joining", "next", "failed", "uncaught" }

(* What a decoding thread does once it is known to be playing: the video   *)
(* thread of an AUDIO file visualizes the ring buffer and decodes nothing. *)
Work(t) == IF t = "video" /\ media.type = "AUDIO" THEN "peek" ELSE "decode"

TypeOK ==
  /\ media \in Media
  /\ pc \in [Threads -> Labels]
  /\ in_use \in BOOLEAN
  /\ error \in BOOLEAN
  /\ playing \in BOOLEAN
  /\ epoch \in Nat
  /\ pos \in Positions
  /\ msg \in [Decoders -> Nat]
  /\ cap \in [Decoders -> [epoch : Nat, pos : Positions]]
  /\ asked \in [Decoders -> Nat]
  /\ at \in [Decoders -> Nat]
  /\ hold \in [Decoders -> [n : Nat, epoch : Nat]]
  /\ buf \in [start : Nat, held : Seq(Nat)]
  /\ frame \in BOOLEAN
  /\ out \in BOOLEAN
  /\ req_jump \in {"no", "desync", "user"}
  /\ jumps \in Nat
  /\ alter_mutex \in Threads \union {Nobody}
  /\ ex_noti_mtx \in Threads \union {Nobody}
  /\ resume_notify_mutex \in Threads \union {Nobody}
  /\ exit_cond \subseteq Workers
  /\ resume_cond \subseteq Decoders

Init ==
  /\ media \in Media
  /\ pc = [t \in Threads |-> IF t = "main" THEN "begin" ELSE "unborn"]
  /\ in_use = FALSE
  /\ error = FALSE
  /\ playing = FALSE
  /\ epoch = 0 /\ pos = "before"
  /\ msg = [d \in Decoders |-> 0]
  /\ cap = [d \in Decoders |-> NoTime]
  /\ asked = [d \in Decoders |-> 0]
  /\ at = [d \in Decoders |-> 0]
  /\ hold = [d \in Decoders |-> NoFrames]
  /\ buf = [start |-> 0, held |-> <<>>]
  /\ frame = FALSE
  /\ out = FALSE
  /\ req_jump = "no"
  /\ jumps = 0
  /\ alter_mutex = Nobody /\ ex_noti_mtx = Nobody /\ resume_notify_mutex = Nobody
  /\ exit_cond = {} /\ resume_cond = {}

-----------------------------------------------------------------------------
(* Operations of the MediaFetcher that the threads call.                   *)

(* Mutant: the threads sleeping on resume_cond are forgotten.              *)
Mut_dispatch_exit ==
  /\ ex_noti_mtx = Nobody /\ resume_notify_mutex = Nobody
  /\ in_use' = FALSE
  /\ exit_cond' = {}
  /\ UNCHANGED resume_cond

(* Both condition mutexes are taken at once by the scoped_lock, in_use is  *)
(* cleared and every sleeper is woken before they are released.            *)
dispatch_exit ==
  /\ ex_noti_mtx = Nobody /\ resume_notify_mutex = Nobody
  /\ in_use' = FALSE
  /\ exit_cond' = {}
  /\ resume_cond' = {}

(* Mutant: only the audio thread is told.                                  *)
Mut_jump_to_time ==
  /\ msg' = [msg EXCEPT !["audio"] = @ + 1]
  /\ epoch' = IF req_jump = "user" THEN epoch + 1 ELSE epoch
  /\ pos' \in {"before", "at"}
  /\ jumps' = jumps + 1

(* Called with alter_mutex held: both decoding threads are told to seek,   *)
(* and the clock moves to the target, which is never past the duration.    *)
(* A jump that only answers a desync targets the time already being shown. *)
jump_to_time ==
  /\ msg' = [d \in Decoders |-> msg[d] + 1]
  /\ epoch' = IF req_jump = "user" THEN epoch + 1 ELSE epoch
  /\ pos' \in {"before", "at"}
  /\ jumps' = jumps + 1

(* The clock of a playing file runs on by itself.                          *)
Tick ==
  /\ playing
  /\ \/ pos = "before" /\ pos' \in {"at", "past"}
     \/ pos = "at" /\ pos' = "past"
  /\ UNCHANGED <<media, pc, in_use, error, playing, epoch, msg, decoding, buf,
                 frame, mainVars, mutexes, conds>>

(* The fill thread of the audio output takes frames out of the buffer.     *)
Consume ==
  /\ out
  /\ buf.held # <<>>
  /\ buf' = [buf EXCEPT !.held = Tail(@)]
  /\ UNCHANGED <<media, pc, in_use, error, clock, msg, decoding, frame,
                 mainVars, mutexes, conds>>

-----------------------------------------------------------------------------
(* Steps the worker threads share.                                         *)

Step(t, from, to) == pc[t] = from /\ Goto(t, to)

(* while (!should_exit()) at the top of every worker's loop.               *)
LoopExit(t) ==
  /\ Step(t, "top", "done")
  /\ ~in_use
  /\ UNCHANGED <<media, in_use, error, clock, msg, decoding, buf, frame,
                 mainVars, mutexes, conds>>

LoopPlaying(t) ==
  /\ Step(t, "top", Work(t))
  /\ in_use /\ playing
  /\ UNCHANGED <<media, in_use, error, clock, msg, decoding, buf, frame,
                 mainVars, mutexes, conds>>

(* if (!is_playing()) lock resume_notify_mutex ...                         *)
LoopPaused(t) ==
  /\ Step(t, "top", "park")
  /\ in_use /\ ~playing
  /\ resume_notify_mutex = Nobody
  /\ resume_notify_mutex' = t
  /\ UNCHANGED <<media, in_use, error, clock, msg, decoding, buf, frame,
                 mainVars, alter_mutex, ex_noti_mtx, conds>>

(* ... while (!is_playing() && !should_exit()) resume_cond.wait_for(...)   *)
ParkWait(t) ==
  /\ Step(t, "park", "parked")
  /\ ~playing /\ in_use
  /\ resume_cond' = resume_cond \union {t}
  /\ resume_notify_mutex' = Nobody
  /\ UNCHANGED <<media, in_use, error, clock, msg, decoding, buf, frame,
                 mainVars, alter_mutex, ex_noti_mtx, exit_cond>>

ParkLeave(t) ==
  /\ Step(t, "park", Work(t))
  /\ playing \/ ~in_use
  /\ resume_notify_mutex' = Nobody
  /\ UNCHANGED <<media, in_use, error, clock, msg, decoding, buf, frame,
                 mainVars, alter_mutex, ex_noti_mtx, conds>>

ParkWake(t) ==
  /\ Step(t, "parked", "park")
  /\ t \notin resume_cond
  /\ resume_notify_mutex = Nobody
  /\ resume_notify_mutex' = t
  /\ UNCHANGED <<media, in_use, error, clock, msg, decoding, buf, frame,
                 mainVars, alter_mutex, ex_noti_mtx, conds>>

ParkTimeout(t) ==
  /\ t \in resume_cond
  /\ resume_cond' = resume_cond \ {t}
  /\ UNCHANGED <<media, pc, in_use, error, clock, msg, decoding, buf, frame,
                 mainVars, mutexes, exit_cond>>

(* lock ex_noti_mtx; if (!should_exit()) exit_cond.wait_for(...)           *)
NapLock(t) ==
  /\ Step(t, "nap", "napping")
  /\ ex_noti_mtx = Nobody
  /\ ex_noti_mtx' = t
  /\ UNCHANGED <<media, in_use, error, clock, msg, decoding, buf, frame,
                 mainVars, alter_mutex, resume_notify_mutex, conds>>

NapWait(t) ==
  /\ Step(t, "napping", "asleep")
  /\ in_use
  /\ exit_cond' = exit_cond \union {t}
  /\ ex_noti_mtx' = Nobody
  /\ UNCHANGED <<media, in_use, error, clock, msg, decoding, buf, frame,
                 mainVars, alter_mutex, resume_notify_mutex, resume_cond>>

NapSkip(t) ==
  /\ Step(t, "napping", "top")
  /\ ~in_use
  /\ ex_noti_mtx' = Nobody
  /\ UNCHANGED <<media, in_use, error, clock, msg, decoding, buf, frame,
                 mainVars, alter_mutex, resume_notify_mutex, conds>>

NapWake(t) ==
  /\ Step(t, "asleep", "top")
  /\ t \notin exit_cond
  /\ ex_noti_mtx = Nobody
  /\ UNCHANGED <<media, in_use, error, clock, msg, decoding, buf, frame,
                 mainVars, mutexes, conds>>

NapTimeout(t) ==
  /\ t \in exit_cond
  /\ exit_cond' = exit_cond \ {t}
  /\ UNCHANGED <<media, pc, in_use, error, clock, msg, decoding, buf, frame,
                 mainVars, mutexes, resume_cond>>

(* Mutant: alter_mutex is released between the error and dispatch_exit.    *)
Mut_Catch(t) ==
  /\ Step(t, "catch", "raise")
  /\ alter_mutex = Nobody
  /\ error' = TRUE
  /\ UNCHANGED <<media, in_use, clock, msg, decoding, buf, frame, mainVars,
                 mutexes, conds>>

(* catch (std::exception): alter_mutex is locked and stays locked while    *)
(* dispatch_exit(err) takes the two condition mutexes.                     *)
Catch(t) ==
  /\ Step(t, "catch", "raise")
  /\ alter_mutex = Nobody
  /\ alter_mutex' = t
  /\ error' = TRUE
  /\ UNCHANGED <<media, in_use, clock, msg, decoding, buf, frame, mainVars,
                 ex_noti_mtx, resume_notify_mutex, conds>>

Raise(t, next) ==
  /\ Step(t, "raise", next)
  /\ dispatch_exit
  /\ alter_mutex' = Nobody
  /\ UNCHANGED <<media, error, clock, msg, decoding, buf, frame, mainVars,
                 ex_noti_mtx, resume_notify_mutex>>

-----------------------------------------------------------------------------
(* The decoding half of a decoding thread.                                 *)

(* The video thread reads req_dims under alter_mutex before it decodes.    *)
DimsRead(t) == t = "video" => alter_mutex = Nobody

(* next_frames runs outside every lock.                                    *)
Decode(t) ==
  /\ Step(t, "decode", "sample")
  /\ DimsRead(t)
  /\ \E n \in 0 .. MaxBatch : hold' = [hold EXCEPT ![t] = [n |-> n, epoch |-> at[t]]]
  /\ UNCHANGED <<media, in_use, error, clock, msg, cap, asked, at, buf, frame,
                 mainVars, mutexes, conds>>

(* The locals of one iteration go out of scope.                            *)
EndOfScope(t) ==
  /\ hold' = [hold EXCEPT ![t] = NoFrames]
  /\ cap' = [cap EXCEPT ![t] = NoTime]

(* next_frames, the seek that calls it, or the conversion of a frame that  *)
(* was decoded (resample_audio_frame, convert_video_frame) throws.         *)
DecodeThrow(t) ==
  /\ media.throws
  /\ \/ Step(t, "decode", "catch") /\ DimsRead(t)
     \/ Step(t, "seek", "catch")
     \/ Step(t, "deliver", "catch") /\ Work(t) = "decode" /\ hold[t].n > 0
  /\ EndOfScope(t)
  /\ UNCHANGED <<media, in_use, error, clock, msg, asked, at, buf, frame,
                 mainVars, mutexes, conds>>

(* Mutant: the first message does not count.                               *)
Mut_Sample(t, seek) ==
  /\ Step(t, "sample", IF msg[t] > 1 THEN seek ELSE "deliver")
  /\ alter_mutex = Nobody
  /\ cap' = [cap EXCEPT ![t] = [epoch |-> epoch,
                                pos |-> IF msg[t] > 1 THEN pos ELSE NoTime.pos]]
  /\ UNCHANGED <<media, in_use, error, clock, msg, asked, at, hold, buf, frame,
                 mainVars, mutexes, conds>>

(* Under alter_mutex, the time and the number of pending jumps.  Where the *)
(* time stands against the duration matters to a seek only.                *)
Sample(t, seek) ==
  /\ Step(t, "sample", IF msg[t] > 0 THEN seek ELSE "deliver")
  /\ alter_mutex = Nobody
  /\ cap' = [cap EXCEPT ![t] = [epoch |-> epoch,
                                pos |-> IF msg[t] > 0 THEN pos ELSE NoTime.pos]]
  /\ UNCHANGED <<media, in_use, error, clock, msg, asked, at, hold, buf, frame,
                 mainVars, mutexes, conds>>

(* Mutant: the frames decoded before the seek are kept.                    *)
Mut_Seek(t) ==
  /\ Step(t, "seek", "ack")
  /\ asked' = [asked EXCEPT ![t] = cap[t].epoch]
  /\ at' = [at EXCEPT ![t] = cap[t].epoch]
  /\ UNCHANGED <<media, in_use, error, clock, msg, cap, hold, buf, frame,
                 mainVars, mutexes, conds>>

(* jump_to_time of the decoder, then next_frames: the frames decoded       *)
(* before the seek are replaced.  A refused seek goes unnoticed.           *)
Seek(t) ==
  /\ Step(t, "seek", "ack")
  /\ asked' = [asked EXCEPT ![t] = cap[t].epoch]
  /\ \/ at' = [at EXCEPT ![t] = cap[t].epoch]
     \/ media.refuses /\ at' = at
  /\ \E n \in 0 .. MaxBatch : hold' = [hold EXCEPT ![t] = [n |-> n, epoch |-> at'[t]]]
  /\ UNCHANGED <<media, in_use, error, clock, msg, cap, buf, frame, mainVars,
                 mutexes, conds>>

(* Mutant: the counter is reset, with it the jumps made during the seek.   *)
Mut_Ack(t) ==
  /\ Step(t, "ack", "deliver")
  /\ alter_mutex = Nobody
  /\ msg' = [msg EXCEPT ![t] = 0]
  /\ cap' = [cap EXCEPT ![t].pos = NoTime.pos]
  /\ UNCHANGED <<media, in_use, error, clock, asked, at, hold, buf, frame,
                 mainVars, mutexes, conds>>

(* One jump message is taken off, whatever arrived in the meantime.        *)
Ack(t) ==
  /\ Step(t, "ack", "deliver")
  /\ alter_mutex = Nobody
  /\ msg' = [msg EXCEPT ![t] = @ - 1]
  /\ cap' = [cap EXCEPT ![t].pos = NoTime.pos]
  /\ UNCHANGED <<media, in_use, error, clock, asked, at, hold, buf, frame, mainVars,
                 mutexes, conds>>

(* The buffer's own condition variable: a thread that waits there is not   *)
(* among those dispatch_exit notifies.  It wakes when the other side calls *)
(* notify_one, when its time is up, or for no reason.                      *)
BufferWake(t) ==
  /\ Step(t, "waiting", "woken")
  /\ UNCHANGED <<media, in_use, error, clock, msg, decoding, buf, frame,
                 mainVars, mutexes, conds>>

-----------------------------------------------------------------------------
(* audio_dispatch_thread_func                                              *)

(* Where an attempt to open the file for decoding leads.                   *)
Opened == IF media.throws THEN {"top", "catch"} ELSE {"top"}

(* No audio stream, no decoder for it, an exception while opening, or the  *)
(* loop.  The sleep until the stream's start time is part of the step.     *)
AudioOpen ==
  /\ pc["audio"] = "open"
  /\ Goto("audio", "done") \/ (media.audio /\ \E l \in Opened : Goto("audio", l))
  /\ UNCHANGED <<media, in_use, error, clock, msg, decoding, buf, frame,
                 mainVars, mutexes, conds>>

AudioSample == Sample("audio", "clear")

(* Mutant: the frames are dropped, the start time stays.                   *)
Mut_AudioClear_time ==
  /\ Step("audio", "clear", "seek")
  /\ buf' = [buf EXCEPT !.held = <<>>]
  /\ UNCHANGED <<media, in_use, error, clock, msg, decoding, frame, mainVars,
                 mutexes, conds>>

(* Mutant: the start time is set, the frames stay.                         *)
Mut_AudioClear_frames ==
  /\ Step("audio", "clear", "seek")
  /\ buf' = [buf EXCEPT !.start = cap["audio"].epoch]
  /\ UNCHANGED <<media, in_use, error, clock, msg, decoding, frame, mainVars,
                 mutexes, conds>>

(* audio_buffer->clear(current_time)                                       *)
AudioClear ==
  /\ Step("audio", "clear", "seek")
  /\ buf' = [start |-> cap["audio"].epoch, held |-> <<>>]
  /\ UNCHANGED <<media, in_use, error, clock, msg, decoding, frame, mainVars,
                 mutexes, conds>>

AudioAck == Ack("audio")

(* try_write_into, once per frame: there is room ...                       *)
AudioWrite ==
  /\ pc["audio"] \in {"deliver", "woken"}
  /\ Goto("audio", "deliver")
  /\ hold["audio"].n > 0
  /\ Len(buf.held) < BufCap
  /\ buf' = [buf EXCEPT !.held = Append(@, hold["audio"].epoch)]
  /\ hold' = [hold EXCEPT !["audio"].n = @ - 1]
  /\ UNCHANGED <<media, in_use, error, clock, msg, cap, asked, at, frame,
                 mainVars, mutexes, conds>>

(* ... or there is none, and the thread waits in the buffer.               *)
AudioFull ==
  /\ Step("audio", "deliver", "waiting")
  /\ hold["audio"].n > 0
  /\ Len(buf.held) >= BufCap
  /\ UNCHANGED <<media, in_use, error, clock, msg, decoding, buf, frame,
                 mainVars, mutexes, conds>>

(* Still no room: the write is tried again, or, if (should_exit()) break,  *)
(* the frame is dropped.                                                   *)
AudioRefused ==
  /\ Step("audio", "woken", "deliver")
  /\ hold["audio"].n > 0
  /\ Len(buf.held) >= BufCap
  /\ hold' = IF in_use THEN hold ELSE [hold EXCEPT !["audio"].n = @ - 1]
  /\ UNCHANGED <<media, in_use, error, clock, msg, cap, asked, at, buf, frame,
                 mainVars, mutexes, conds>>

AudioDelivered ==
  /\ Step("audio", "deliver", "top")
  /\ hold["audio"].n = 0
  /\ EndOfScope("audio")
  /\ UNCHANGED <<media, in_use, error, clock, msg, asked, at, buf, frame,
                 mainVars, mutexes, conds>>

AudioNext ==
  \/ AudioOpen
  \/ LoopExit("audio") \/ LoopPlaying("audio") \/ LoopPaused("audio")
  \/ ParkWait("audio") \/ ParkLeave("audio") \/ ParkWake("audio")
  \/ Decode("audio") \/ DecodeThrow("audio")
  \/ AudioSample \/ AudioClear \/ Seek("audio") \/ AudioAck
  \/ AudioWrite \/ AudioFull \/ BufferWake("audio") \/ AudioRefused
  \/ AudioDelivered
  \/ Catch("audio") \/ Raise("audio", "done")

-----------------------------------------------------------------------------
(* video_fetching_thread_func                                              *)

(* frame_image_fetching_func for an image or a cover, frame_video_fetching *)
(* _func or frame_audio_fetching_func otherwise.                           *)
VideoOpen ==
  /\ pc["video"] = "open"
  /\ \/ media.type # "VIDEO" /\ media.video /\ Goto("video", "image")
     \/ media.type = "VIDEO" /\ \E l \in Opened \union {"done"} : Goto("video", l)
     \/ media.type = "AUDIO" /\ ~media.video /\ Goto("video", "top")
  /\ UNCHANGED <<media, in_use, error, clock, msg, decoding, buf, frame,
                 mainVars, mutexes, conds>>

(* One picture, or none, is shown and the thread ends.  When the cover of  *)
(* an AUDIO file cannot be decoded its sound is visualized instead.        *)
ImageShow ==
  /\ Step("video", "image", "done")
  /\ \/ frame' = frame
     \/ alter_mutex = Nobody /\ frame' = TRUE
  /\ UNCHANGED <<media, in_use, error, clock, msg, decoding, buf, mainVars,
                 mutexes, conds>>

ImageThrow ==
  /\ media.throws
  /\ Step("video", "image", IF media.type = "AUDIO" THEN "top" ELSE "catch")
  /\ UNCHANGED <<media, in_use, error, clock, msg, decoding, buf, frame,
                 mainVars, mutexes, conds>>

VideoSample == Sample("video", "seek")

VideoAck == Ack("video")

(* wait_duration > 0, or nothing has been shown yet: the frame is shown,   *)
(* and the thread sleeps until it is due.                                  *)
VideoPublish ==
  /\ pc["video"] = "deliver"
  /\ hold["video"].n > 0
  /\ alter_mutex = Nobody
  /\ frame' = TRUE
  /\ EndOfScope("video")
  /\ Goto("video", "nap") \/ (~frame /\ Goto("video", "top"))
  /\ UNCHANGED <<media, in_use, error, clock, msg, asked, at, buf, mainVars,
                 mutexes, conds>>

(* A frame that is already late is dropped without a sleep.                *)
VideoLate ==
  /\ Step("video", "deliver", "top")
  /\ media.type = "VIDEO"
  /\ hold["video"].n > 0
  /\ frame
  /\ ex_noti_mtx = Nobody
  /\ EndOfScope("video")
  /\ UNCHANGED <<media, in_use, error, clock, msg, asked, at, buf, frame,
                 mainVars, mutexes, conds>>

(* No frame was found.                                                     *)
VideoNothing ==
  /\ Step("video", "deliver", "nap")
  /\ hold["video"].n = 0
  /\ EndOfScope("video")
  /\ UNCHANGED <<media, in_use, error, clock, msg, asked, at, buf, frame,
                 mainVars, mutexes, conds>>

(* try_peek_into: there are enough samples to visualize, at once or after  *)
(* a wait in the buffer ...                                                *)
VideoPeek ==
  /\ pc["video"] \in {"peek", "woken"}
  /\ Goto("video", "deliver")
  /\ buf.held # <<>>
  /\ hold' = [hold EXCEPT !["video"] = [n |-> 1, epoch |-> Head(buf.held)]]
  /\ UNCHANGED <<media, in_use, error, clock, msg, cap, asked, at, buf, frame,
                 mainVars, mutexes, conds>>

(* ... or there are not.                                                   *)
VideoScarce ==
  /\ Step("video", "peek", "waiting") \/ Step("video", "woken", "nap")
  /\ UNCHANGED <<media, in_use, error, clock, msg, decoding, buf, frame,
                 mainVars, mutexes, conds>>

VideoNext ==
  \/ VideoOpen \/ ImageShow \/ ImageThrow
  \/ LoopExit("video") \/ LoopPlaying("video") \/ LoopPaused("video")
  \/ ParkWait("video") \/ ParkLeave("video") \/ ParkWake("video")
  \/ Decode("video") \/ DecodeThrow("video")
  \/ VideoSample \/ Seek("video") \/ VideoAck
  \/ VideoPublish \/ VideoLate \/ VideoNothing \/ VideoPeek \/ VideoScarce
  \/ BufferWake("video")
  \/ NapLock("video") \/ NapWait("video") \/ NapSkip("video") \/ NapWake("video")
  \/ Catch("video") \/ Raise("video", "done")

-----------------------------------------------------------------------------
(* duration_checking_thread_func                                           *)

DurationOpen ==
  /\ Step("duration", "open", IF media.type = "IMAGE" THEN "done" ELSE "top")
  /\ UNCHANGED <<media, in_use, error, clock, msg, decoding, buf, frame,
                 mainVars, mutexes, conds>>

(* Under alter_mutex: get_time() >= get_duration()?  When it is, the lock  *)
(* is kept while dispatch_exit takes the two condition mutexes.            *)
DurationCheck ==
  /\ in_use
  /\ alter_mutex = Nobody
  /\ IF pos = "before"
     THEN Step("duration", "top", "nap") /\ alter_mutex' = Nobody
     ELSE Step("duration", "top", "expire") /\ alter_mutex' = "duration"
  /\ UNCHANGED <<media, in_use, error, clock, msg, decoding, buf, frame,
                 mainVars, ex_noti_mtx, resume_notify_mutex, conds>>

(* Mutant: the thread leaves its loop without dispatch_exit.               *)
Mut_DurationExpire ==
  /\ Step("duration", "expire", "done")
  /\ alter_mutex' = Nobody
  /\ UNCHANGED <<media, in_use, error, clock, msg, decoding, buf, frame, mainVars,
                 ex_noti_mtx, resume_notify_mutex, conds>>

DurationExpire ==
  /\ Step("duration", "expire", "done")
  /\ dispatch_exit
  /\ alter_mutex' = Nobody
  /\ UNCHANGED <<media, error, clock, msg, decoding, buf, frame, mainVars,
                 ex_noti_mtx, resume_notify_mutex>>

DurationNext ==
  \/ DurationOpen
  \/ LoopExit("duration") \/ DurationCheck \/ DurationExpire
  \/ NapLock("duration") \/ NapWait("duration") \/ NapSkip("duration")
  \/ NapWake("duration")

-----------------------------------------------------------------------------
(* The owning thread: begin, the inner loop of tmedia_main_loop, join.     *)

(* begin(): in_use is set, the clock starts, the threads are spawned.      *)
begin ==
  /\ pc["main"] = "begin"
  /\ in_use' = TRUE
  /\ playing' = TRUE
  /\ pc' = [t \in Threads |->
             IF t # "main" THEN "open" ELSE IF media.audio THEN "start" ELSE "loop"]
  /\ UNCHANGED <<media, error, epoch, pos, msg, decoding, buf, frame, out, req_jump,
                 jumps, mutexes, conds>>

(* The audio output is created and started while the threads run already.  *)
StartAudio ==
  /\ Step("main", "start", "loop")
  /\ out' = TRUE
  /\ UNCHANGED <<media, in_use, error, clock, msg, decoding, buf, frame, req_jump,
                 jumps, mutexes, conds>>

(* It cannot be, outside every try block: nobody calls dispatch_exit or    *)
(* join, and the exception ends the program.                               *)
StartThrow ==
  /\ media.throws
  /\ Step("main", "start", "uncaught")
  /\ UNCHANGED <<media, in_use, error, clock, msg, decoding, buf, frame,
                 mainVars, mutexes, conds>>

(* while (!should_exit() && !INTERRUPT_RECEIVED)                           *)
MainLeave ==
  /\ Step("main", "loop", "dispatch")
  /\ ~in_use
  /\ UNCHANGED <<media, in_use, error, clock, msg, decoding, buf, frame,
                 mainVars, mutexes, conds>>

MainInterrupt ==
  /\ "interrupt" \in media.keys
  /\ Step("main", "loop", "dispatch")
  /\ in_use
  /\ UNCHANGED <<media, in_use, error, clock, msg, decoding, buf, frame,
                 mainVars, mutexes, conds>>

(* A tick begins, under alter_mutex: how far is the audio buffer from the  *)
(* clock?  The two may drift apart while the buffer is not refilled.       *)
MainTick ==
  /\ Step("main", "loop", "keys")
  /\ in_use
  /\ alter_mutex = Nobody
  /\ req_jump' \in (IF media.audio /\ jumps < media.jumps THEN {"no", "desync"} ELSE {"no"})
  /\ UNCHANGED <<media, in_use, error, clock, msg, decoding, buf, frame, out,
                 jumps, mutexes, conds>>

(* 'q', 'n' and 'p': dispatch_exit(), without alter_mutex; the keys left   *)
(* in the batch are still processed.                                       *)
KeyLeave ==
  /\ "leave" \in media.keys
  /\ Step("main", "keys", "keys")
  /\ dispatch_exit
  /\ UNCHANGED <<media, error, clock, msg, decoding, buf, frame, mainVars, mutexes>>

(* The arrows and the digits.                                              *)
KeyJump ==
  /\ "jump" \in media.keys
  /\ Step("main", "keys", "keys")
  /\ CanSeek
  /\ jumps < media.jumps
  /\ req_jump' = "user"
  /\ UNCHANGED <<media, in_use, error, clock, msg, decoding, buf, frame, out,
                 jumps, mutexes, conds>>

(* ' ': alter_mutex is held for the whole of the toggle.                   *)
KeyToggle ==
  /\ "toggle" \in media.keys
  /\ Step("main", "keys", "toggle")
  /\ CanSeek
  /\ alter_mutex = Nobody
  /\ alter_mutex' = "main"
  /\ UNCHANGED <<media, in_use, error, clock, msg, decoding, buf, frame,
                 mainVars, ex_noti_mtx, resume_notify_mutex, conds>>

pause ==
  /\ Step("main", "toggle", "keys")
  /\ playing
  /\ out' = FALSE
  /\ playing' = FALSE
  /\ alter_mutex' = Nobody
  /\ UNCHANGED <<media, in_use, error, epoch, pos, msg, decoding, buf, frame,
                 req_jump, jumps, ex_noti_mtx, resume_notify_mutex, conds>>

(* resume(): the clock runs first, then the sleepers are notified.         *)
resume ==
  /\ Step("main", "toggle", "notify")
  /\ ~playing
  /\ out' = media.audio
  /\ playing' = TRUE
  /\ UNCHANGED <<media, in_use, error, epoch, pos, msg, decoding, buf, frame,
                 req_jump, jumps, mutexes, conds>>

(* Mutant: nobody is notified.                                             *)
Mut_ResumeNotify ==
  /\ Step("main", "notify", "keys")
  /\ alter_mutex' = Nobody
  /\ UNCHANGED <<media, in_use, error, clock, msg, decoding, buf, frame,
                 mainVars, ex_noti_mtx, resume_notify_mutex, conds>>

ResumeNotify ==
  /\ Step("main", "notify", "keys")
  /\ resume_notify_mutex = Nobody
  /\ resume_cond' = {}
  /\ alter_mutex' = Nobody
  /\ UNCHANGED <<media, in_use, error, clock, msg, decoding, buf, frame,
                 mainVars, ex_noti_mtx, resume_notify_mutex, exit_cond>>

(* Rendering may ask for pictures of another size, which takes alter_mutex.*)
Rendered == {"loop", "resize"}

(* No key is left: render, sleep, and start the next tick ...              *)
KeysDone ==
  /\ \E l \in Rendered : Step("main", "keys", l)
  /\ req_jump = "no"
  /\ UNCHANGED <<media, in_use, error, clock, msg, decoding, buf, frame,
                 mainVars, mutexes, conds>>

(* ... after the requested jump, for which the audio output is stopped     *)
(* and started again.                                                      *)
JumpStop ==
  /\ Step("main", "keys", "jump")
  /\ req_jump # "no"
  /\ out' = (out /\ ~playing)
  /\ UNCHANGED <<media, in_use, error, clock, msg, decoding, buf, frame,
                 req_jump, jumps, mutexes, conds>>

MainJump ==
  /\ Step("main", "jump", "restart")
  /\ alter_mutex = Nobody
  /\ jump_to_time
  /\ req_jump' = "no"
  /\ UNCHANGED <<media, in_use, error, playing, decoding, buf, frame, out, mutexes,
                 conds>>

JumpStart ==
  /\ \E l \in Rendered : Step("main", "restart", l)
  /\ out' = (out \/ (media.audio /\ playing))
  /\ UNCHANGED <<media, in_use, error, clock, msg, decoding, buf, frame,
                 req_jump, jumps, mutexes, conds>>

Resize ==
  /\ Step("main", "resize", "loop")
  /\ alter_mutex = Nobody
  /\ UNCHANGED <<media, in_use, error, clock, msg, decoding, buf, frame,
                 mainVars, mutexes, conds>>

(* The audio output cannot be restarted (on a resized terminal, after a    *)
(* pause, after a jump), or rendering fails.  An exception during the      *)
(* toggle releases alter_mutex on its way out.                             *)
MainThrow ==
  /\ media.throws
  /\ \/ Step("main", "keys", "catch") /\ UNCHANGED alter_mutex
     \/ Step("main", "restart", "catch") /\ UNCHANGED alter_mutex
     \/ Step("main", "toggle", "catch") /\ ~playing /\ alter_mutex' = Nobody
  /\ UNCHANGED <<media, in_use, error, clock, msg, decoding, buf, frame,
                 mainVars, ex_noti_mtx, resume_notify_mutex, conds>>

(* dispatch_exit() after the loop, however it was left.                    *)
MainDispatch ==
  /\ Step("main", "dispatch", "join")
  /\ dispatch_exit
  /\ out' = FALSE
  /\ UNCHANGED <<media, error, clock, msg, decoding, buf, frame, req_jump,
                 jumps, mutexes>>

(* join(): in_use is cleared again, a playing clock is paused without      *)
(* alter_mutex ...                                                         *)
join ==
  /\ Step("main", "join", "joining")
  /\ in_use' = FALSE
  /\ playing' = (playing /\ media.type = "IMAGE")
  /\ UNCHANGED <<media, error, epoch, pos, msg, decoding, buf, frame, mainVars,
                 mutexes, conds>>

(* Mutant: the audio thread is left running.                               *)
Mut_Joined ==
  /\ Step("main", "joining", IF error THEN "failed" ELSE "next")
  /\ \A t \in {"video", "duration"} : pc[t] = "done"
  /\ UNCHANGED <<media, in_use, error, clock, msg, decoding, buf, frame,
                 mainVars, mutexes, conds>>

(* ... and the three threads are joined.  Their error is then thrown on.   *)
Joined ==
  /\ Step("main", "joining", IF error THEN "failed" ELSE "next")
  /\ \A t \in Workers : pc[t] = "done"
  /\ UNCHANGED <<media, in_use, error, clock, msg, decoding, buf, frame,
                 mainVars, mutexes, conds>>

(* The progress of the main loop, and what its user does to it.            *)
MainNext ==
  \/ begin \/ StartAudio \/ MainTick \/ MainLeave \/ pause \/ resume
  \/ ResumeNotify \/ KeysDone \/ JumpStop \/ MainJump \/ JumpStart \/ Resize
  \/ Catch("main") \/ Raise("main", "dispatch") \/ MainDispatch \/ join \/ Joined

User == KeyLeave \/ KeyJump \/ KeyToggle \/ MainInterrupt \/ MainThrow \/ StartThrow

Timeouts ==
  \/ \E t \in Decoders : ParkTimeout(t)
  \/ \E t \in {"video", "duration"} : NapTimeout(t)

Finished == pc["main"] \in {"next", "failed", "uncaught"} /\ UNCHANGED vars

Next ==
  \/ AudioNext \/ VideoNext \/ DurationNext \/ MainNext
  \/ User \/ Timeouts \/ Tick \/ Consume \/ Finished

Spec == Init /\ [][Next]_vars

(* Every thread that can run does, and one that waits for a mutex that is  *)
(* released again and again gets it; getch() runs out of keys in the end;  *)
(* and a wait in the audio buffer ends, by its time-out if by nothing else *)
(* (BufferWake).  No time-out of a sleep on exit_cond or resume_cond is    *)
(* needed.                                                                 *)
ThreadFairness ==
  /\ SF_vars(AudioNext) /\ SF_vars(VideoNext)
  /\ SF_vars(DurationNext) /\ SF_vars(MainNext)
  /\ SF_vars(KeysDone \/ JumpStop)

(* In a timed execution the timed waits end, and the audio output takes    *)
(* its frames.  The clock need not run.                                    *)
SleepFairness ==
  /\ \A t \in Decoders : WF_vars(media.timed /\ ParkTimeout(t))
  /\ \A t \in {"video", "duration"} : WF_vars(media.timed /\ NapTimeout(t))
  /\ WF_vars(media.timed /\ Consume)

FairSpec == Spec /\ ThreadFairness /\ SleepFairness
-----------------------------------------------------------------------------
(* Safety.                                                                 *)

Over == pc["main"] \in {"next", "failed"}

(* No jump is lost between the counter, the time read under alter_mutex    *)
(* and the jumps that arrive during a seek: a decoding thread with no      *)
(* message left was last sent to the newest position (audio_thread.cpp     *)
(* 48-62, video_thread.cpp 121-133, mediafetcher.cpp 95-103).              *)
SeekNotLost == \A d \in Decoders : msg[d] = 0 => asked[d] = epoch

(* Why no jump is lost: a jump that moved the clock after the time was     *)
(* read has left a second message behind, which outlives the one that the  *)
(* seek under way takes off; and every thread seeks forward.               *)
SeekFact(d) ==
  /\ asked[d] # epoch => msg[d] >= 1
  /\ pc[d] \in {"clear", "seek"} =>
       /\ msg[d] >= 1
       /\ cap[d].epoch # epoch => msg[d] >= 2
       /\ asked[d] <= cap[d].epoch
  /\ pc[d] = "ack" =>
       /\ msg[d] >= 1
       /\ asked[d] # epoch => msg[d] >= 2
  /\ cap[d].epoch <= epoch
  /\ asked[d] <= epoch

SeekInv == \A d \in Decoders : SeekFact(d)

(* wait_duration subtracts the time read under alter_mutex from the time   *)
(* stamp of a frame decoded outside it: unless the demuxer refused to seek *)
(* the two belong to the same position, so the video thread never sleeps   *)
(* for the length of a jump (video_thread.cpp 121-138).                    *)
FramePaired ==
  (media.type = "VIDEO" /\ ~media.refuses /\ pc["video"] = "deliver" /\ hold["video"].n > 0)
    => hold["video"].epoch = cap["video"].epoch

(* Unless a seek was refused, every frame in the ring buffer comes from    *)
(* the position that the start time of the buffer names, so that the time  *)
(* of the next sample, computed from the start time and the frames read    *)
(* since, is its own time (audio_thread.cpp 55-70, audioringbuffer.cpp     *)
(* 51-53).                                                                 *)
BufferHoldsStart ==
  ~media.refuses => \A i \in 1 .. Len(buf.held) : buf.held[i] = buf.start

(* With every message answered, the ring buffer starts at the newest       *)
(* position: get_desync_time compares the clock with the right file        *)
(* position (mediafetcher.cpp 83-90).                                      *)
BufferFollowsClock == msg["audio"] = 0 => buf.start = epoch

(* An error ends the playback: from the moment it is set, alter_mutex stays *)
(* with the thread that set it until in_use is cleared (audio_thread.cpp   *)
(* 73-76, video_thread.cpp 73-76, mediafetcher.cpp 47-57).                 *)
ErrorStops ==
  (error /\ in_use) => alter_mutex # Nobody /\ pc[alter_mutex] = "raise"

(* The owner gets past join() only when every thread has ended, no mutex   *)
(* is left locked and nobody waits, and goes on to the next file only when *)
(* no thread had reported an error (tmedia.cpp 324-330, mediafetcher.cpp   *)
(* 117-128).  When the audio output cannot be started it does not get      *)
(* there: NeverLeftInUse.                                                  *)
CleanEnd ==
  Over => /\ \A t \in Workers : pc[t] = "done"
          /\ {alter_mutex, ex_noti_mtx, resume_notify_mutex} = {Nobody}
          /\ exit_cond \union resume_cond = {}
          /\ error = (pc["main"] = "failed")

(* "never break without using dispatch_exit on fetcher to false", at the   *)
(* inner loop (tmedia.cpp 126): the owner leaves no fetcher in use.        *)
NeverLeftInUse == pc["main"] \in {"next", "failed", "uncaught"} => ~in_use

(* "assert(target_time >= 0.0 && target_time <= this->get_duration())" at  *)
(* mediadecoder.cpp 108, for the times the threads pass to it.             *)
SeekTargetInBounds ==
  \A d \in Decoders : pc[d] = "seek" => cap[d].pos # "past"

(* Each decoding thread is a SeekService.                                  *)
AudioSeeks == INSTANCE SeekService WITH
  wanted <- epoch, served <- asked["audio"], pending <- msg["audio"] > 0
VideoSeeks == INSTANCE SeekService WITH
  wanted <- epoch, served <- asked["video"], pending <- msg["video"] > 0

(* The jump messages and the threads that take them implement SeekService: *)
(* a thread never seeks back to an older jump and never rests on one.      *)
SeeksServed == AudioSeeks!Spec /\ VideoSeeks!Spec

-----------------------------------------------------------------------------
(* Liveness.                                                               *)

(* Once in_use is cleared every thread ends and the owner gets past        *)
(* join(), without a time-out of any sleep on exit_cond or resume_cond: no *)
(* wake-up of dispatch_exit is lost.  A thread that waits in the audio     *)
(* buffer gets none, and leaves when that wait of 25 ms (100 ms for a      *)
(* peek) is over (mediafetcher.cpp 52-57, video_thread.cpp 93-98, 149-158  *)
(* and 226, audio_thread.cpp 37-42 and 66-68, duration_checking.cpp        *)
(* 26-29).                                                                 *)
ExitReachesAll == (~in_use /\ pc["main"] # "begin") ~> Over

(* A thread parked by a pause is woken by the resume itself, not by the    *)
(* time-out of its wait (mediafetcher.cpp 70-77).                          *)
ResumeWakes ==
  \A d \in Decoders :
    (pc[d] = "parked" /\ playing) ~> (pc[d] # "parked" \/ ~playing)

(* A file whose clock has reached the duration ends, paused or not, unless *)
(* the user jumps back in time (duration_checking.cpp 13-31).              *)
PlaysToTheEnd ==
  (media.timed /\ CanSeek /\ pos # "before") ~> (Over \/ pos = "before")

(* While the file plays, a jump is answered by every thread that decodes   *)
(* (audio_thread.cpp 36-72, video_thread.cpp 92-160).                      *)
JumpAnswered ==
  \A d \in Decoders :
    (media.timed /\ msg[d] > 0)
      ~> (msg[d] = 0 \/ ~in_use \/ ~playing \/ Work(d) = "peek" \/ pc[d] = "done")
=============================================================================
