------------------------------ MODULE MediaDecoder ------------------------------
(***************************************************************************)
(* MediaDecoder (mediadecoder.cpp) over its StreamDecoders                 *)
(* (streamdecoder.cpp, decode.cpp), as the one thread that owns it calls   *)
(* it: next_frames for one stream, and jump_to_time for all of them.       *)
(*                                                                         *)
(* One reader feeds the packet queues of all streams; it may fail at any   *)
(* time and go on at the next call.  A packet is its place in the file and *)
(* stands for the frames coded in it, which come out together and in the   *)
(* order of the file; its time is the pts of the last of them, if one has  *)
(* a pts.  A packet that cannot be decoded is not good.  A codec may keep  *)
(* some packets to itself, and gives out any number of them in one call.   *)
(* Running out of memory, and a codec that takes no packet, are left out.  *)
(***************************************************************************)
EXTENDS Integers, Sequences, FiniteSets

CONSTANTS
  Streams,           \* AVMediaType, a number
  Files,             \* the files: sequences of packets
  Delay,             \* the packets that the codec of each stream keeps at most
  Requested,         \* requested_packet_count of fetch_next
  ALLOWED_FAILURES

(* timed: has a frame of the packet a pts, or AV_NOPTS_VALUE only?         *)
Packet == [stream : Streams, good : BOOLEAN, timed : BOOLEAN]

ASSUME StreamsAssumption == Streams \subseteq Nat /\ Delay \in [Streams -> Nat]
ASSUME FilesAssumption == \A f \in Files : f \in Seq(Packet)
ASSUME CountsAssumption == Requested \in Nat \ {0} /\ ALLOWED_FAILURES \in Nat

VARIABLES
  file, decs,     \* the open file and the streams with a decoder; never change
  pos,            \* the next packet that the reader reads
  queue,          \* packet_queue of each stream
  held,           \* the packets in each codec
  pc,             \* where next_frames is
  media_type,     \* the stream it is called for
  fetch_count,
  failures,       \* the attempts of decode_next that failed
  jumping,        \* is the call made by jump_to_time?
  target,         \* target_time of the last jump
  from,           \* history: where the reader was sent by the last jump,
  skipped, shown, \* the frames jump_to_time threw away and those returned since,
  discarded,      \* the frames received before an error and freed with it,
  empty,          \* whether the last call returned no frame,
  refused,        \* whether av_read_frame failed in mid-file in the last fetch,
  cut             \* and the streams whose jump ended because of that

vars == <<file, decs, pos, queue, held, pc, media_type, fetch_count, failures,
          jumping, target, from, skipped, shown, discarded, empty, refused, cut>>

history == <<from, skipped, shown, discarded, empty, refused, cut>>

NO_FETCH_MADE == -1
First(s, S) == s \in S /\ \A r \in S : s <= r

Elements(q) == { q[k] : k \in DOMAIN q }

(* The time of a packet: the packets of its stream before it.              *)
pts(i) == Cardinality({ j \in 1 .. i - 1 : file[j].stream = file[i].stream })

(* A frame without a pts is never found to have reached the target.        *)
Reaches(i) == file[i].timed /\ pts(i) >= target

TypeOK ==
  /\ file \in Files
  /\ decs \subseteq Streams
  /\ pos \in 1 .. Len(file) + 1
  /\ queue \in [Streams -> Seq(Nat)]
  /\ held \in [Streams -> Seq(Nat)]
  /\ pc \in {"idle", "loop", "fetch", "decode", "thrown"}
  /\ media_type \in decs
  /\ fetch_count \in Nat \union {NO_FETCH_MADE}
  /\ failures \in 0 .. ALLOWED_FAILURES
  /\ jumping \in BOOLEAN
  /\ target \in Int
  /\ from \in 1 .. pos
  /\ skipped \in [Streams -> SUBSET Nat]
  /\ shown \in [Streams -> SUBSET Nat]
  /\ discarded \in [Streams -> SUBSET Nat]
  /\ empty \in BOOLEAN
  /\ refused \in BOOLEAN
  /\ cut \subseteq Streams

Init ==
  /\ file \in Files
  /\ decs \in SUBSET Streams \ {{}}
  /\ pos = 1
  /\ queue = [s \in Streams |-> <<>>]
  /\ held = [s \in Streams |-> <<>>]
  /\ pc = "idle"
  /\ media_type \in decs
  /\ fetch_count = NO_FETCH_MADE
  /\ failures = 0
  /\ jumping = FALSE
  /\ target = -1
  /\ from = 1
  /\ skipped = [s \in Streams |-> {}]
  /\ shown = [s \in Streams |-> {}]
  /\ discarded = [s \in Streams |-> {}]
  /\ empty = FALSE
  /\ refused = FALSE
  /\ cut = {}
-----------------------------------------------------------------------------
next_frames(s) ==
  /\ pc = "idle"
  /\ s \in decs
  /\ media_type' = s
  /\ pc' = "loop"
  /\ UNCHANGED <<file, decs, pos, queue, held, fetch_count, failures, jumping, target, history>>

(* do { ... : fetch only if there is nothing to decode.                    *)
Loop ==
  /\ pc = "loop"
  /\ IF queue[media_type] = <<>> THEN pc' = "fetch" /\ fetch_count' = 0
     ELSE pc' = "decode" /\ fetch_count' = NO_FETCH_MADE
  /\ failures' = 0
  /\ refused' = FALSE
  /\ UNCHANGED <<file, decs, pos, queue, held, media_type, jumping, target>>
  /\ UNCHANGED <<from, skipped, shown, discarded, empty, cut>>

(* Mutant: the packets of the other streams are thrown away.               *)
Mut_fetch_next ==
  /\ pc = "fetch"
  /\ pos <= Len(file)
  /\ pos' = pos + 1
  /\ LET s == file[pos].stream IN
     IF s = media_type
     THEN queue' = [queue EXCEPT ![s] = Append(@, pos)] /\ fetch_count' = fetch_count + 1
     ELSE UNCHANGED <<queue, fetch_count>>
  /\ pc' = IF fetch_count' >= Requested THEN "decode" ELSE "fetch"
  /\ UNCHANGED <<file, decs, held, media_type, failures, jumping, target, history>>

(* One round of fetch_next: a packet goes to the queue of its stream and   *)
(* is counted, whichever stream was asked for, if the stream has a decoder *)
fetch_next ==
  /\ pc = "fetch"
  /\ pos <= Len(file)
  /\ pos' = pos + 1
  /\ LET s == file[pos].stream IN
     IF s \in decs
     THEN queue' = [queue EXCEPT ![s] = Append(@, pos)] /\ fetch_count' = fetch_count + 1
     ELSE UNCHANGED <<queue, fetch_count>>
  /\ pc' = IF fetch_count' >= Requested THEN "decode" ELSE "fetch"
  /\ UNCHANGED <<file, decs, held, media_type, failures, jumping, target, history>>

(* av_read_frame fails: at the end of the file, or anywhere before it.     *)
FetchEnds ==
  /\ pc = "fetch"
  /\ pc' = "decode"
  /\ refused' = (pos <= Len(file))
  /\ UNCHANGED <<file, decs, pos, queue, held, media_type, fetch_count, failures, jumping, target>>
  /\ UNCHANGED <<from, skipped, shown, discarded, empty, cut>>
-----------------------------------------------------------------------------
Later == { s \in decs : s > media_type }

(* Mutant: the other streams stay where the reader was sent.               *)
Mut_StreamReached ==
  /\ jumping' = FALSE /\ pc' = "idle" /\ UNCHANGED media_type

(* jump_to_time goes on with the next stream or returns.                   *)
StreamReached ==
  IF Later = {} THEN jumping' = FALSE /\ pc' = "idle" /\ UNCHANGED media_type
  ELSE /\ \E s \in Later : First(s, Later) /\ media_type' = s
       /\ pc' = "loop"
       /\ UNCHANGED jumping

(* Mutant: a frame has to be past the target.                              *)
Mut_ReturnFrames(S) ==
  /\ empty' = FALSE
  /\ IF jumping
     THEN /\ skipped' = [skipped EXCEPT ![media_type] = @ \union S]
          /\ IF \E i \in S : file[i].timed /\ pts(i) > target THEN StreamReached
             ELSE pc' = "loop" /\ UNCHANGED <<media_type, jumping>>
          /\ UNCHANGED shown
     ELSE /\ shown' = [shown EXCEPT ![media_type] = @ \union S]
          /\ pc' = "idle"
          /\ UNCHANGED <<media_type, jumping, skipped>>

(* next_frames returns frames: to its caller, or to jump_to_time, which    *)
(* throws them all away and stops when one of them reaches the target.     *)
ReturnFrames(S) ==
  /\ empty' = FALSE
  /\ IF jumping
     THEN /\ skipped' = [skipped EXCEPT ![media_type] = @ \union S]
          /\ IF \E i \in S : Reaches(i) THEN StreamReached
             ELSE pc' = "loop" /\ UNCHANGED <<media_type, jumping>>
          /\ UNCHANGED shown
     ELSE /\ shown' = [shown EXCEPT ![media_type] = @ \union S]
          /\ pc' = "idle"
          /\ UNCHANGED <<media_type, jumping, skipped>>

ReturnNothing ==
  /\ empty' = TRUE
  /\ IF jumping THEN StreamReached
     ELSE pc' = "idle" /\ UNCHANGED <<media_type, jumping>>
  /\ cut' = IF jumping /\ refused THEN cut \union {media_type} ELSE cut

(* Mutant: the loop runs only as long as packets were fetched.             *)
Mut_NothingDecoded ==
  /\ pc = "decode"
  /\ queue[media_type] = <<>>
  /\ IF fetch_count <= 0 THEN ReturnNothing
     ELSE pc' = "loop" /\ UNCHANGED <<media_type, jumping, empty, cut>>
  /\ UNCHANGED <<file, decs, pos, queue, held, fetch_count, failures, target>>
  /\ UNCHANGED <<from, skipped, shown, discarded, refused>>

(* Mutant: the loop does not look at what was fetched.                     *)
Mut_NothingDecoded_forever ==
  /\ pc = "decode"
  /\ queue[media_type] = <<>>
  /\ pc' = "loop"
  /\ UNCHANGED <<file, decs, pos, queue, held, fetch_count, failures, target, media_type, jumping, history>>

(* decode_next returns no frames: ... } while (fetch_count > 0 || none made) *)
NothingDecoded ==
  /\ pc = "decode"
  /\ queue[media_type] = <<>>
  /\ IF fetch_count = 0 THEN ReturnNothing
     ELSE pc' = "loop" /\ UNCHANGED <<media_type, jumping, empty, cut>>
  /\ UNCHANGED <<file, decs, pos, queue, held, fetch_count, failures, target>>
  /\ UNCHANGED <<from, skipped, shown, discarded, refused>>

(* The next packet of the queue goes to the codec, and what the codec      *)
(* gives is returned; if it gives nothing it answers EAGAIN, and the next  *)
(* packet is tried ...                                                     *)
DecodePacket ==
  /\ pc = "decode"
  /\ queue[media_type] # <<>>
  /\ file[Head(queue[media_type])].good
  /\ queue' = [queue EXCEPT ![media_type] = Tail(@)]
  /\ LET kept == Append(held[media_type], Head(queue[media_type])) IN
     \E k \in 0 .. Len(kept) :
       /\ Len(kept) - k <= Delay[media_type]
       /\ held' = [held EXCEPT ![media_type] = SubSeq(kept, k + 1, Len(kept))]
       /\ IF k = 0 THEN UNCHANGED <<pc, media_type, jumping, skipped, shown, empty>>
          ELSE ReturnFrames(Elements(SubSeq(kept, 1, k)))
  /\ UNCHANGED <<file, decs, pos, fetch_count, failures, target, from, discarded, refused, cut>>

(* Mutant: one attempt too few.                                            *)
Mut_DecodeFails ==
  /\ pc = "decode"
  /\ queue[media_type] # <<>>
  /\ ~file[Head(queue[media_type])].good
  /\ queue' = [queue EXCEPT ![media_type] = Tail(@)]
  /\ LET kept == held[media_type] IN
     \E k \in 0 .. Len(kept) :
       /\ held' = [held EXCEPT ![media_type] = SubSeq(kept, k + 1, Len(kept))]
       /\ discarded' = [discarded EXCEPT ![media_type] = @ \union Elements(SubSeq(kept, 1, k))]
  /\ IF failures + 1 >= ALLOWED_FAILURES THEN pc' = "thrown" /\ UNCHANGED failures
     ELSE failures' = failures + 1 /\ UNCHANGED pc
  /\ UNCHANGED <<file, decs, pos, media_type, fetch_count, jumping, target>>
  /\ UNCHANGED <<from, skipped, shown, empty, refused, cut>>

(* ... and any other error makes decode_next try again, a few times: with  *)
(* the next packet, since the one that failed is gone, and so are the      *)
(* frames of earlier packets that were received before the error.          *)
DecodeFails ==
  /\ pc = "decode"
  /\ queue[media_type] # <<>>
  /\ ~file[Head(queue[media_type])].good
  /\ queue' = [queue EXCEPT ![media_type] = Tail(@)]
  /\ LET kept == held[media_type] IN
     \E k \in 0 .. Len(kept) :
       /\ held' = [held EXCEPT ![media_type] = SubSeq(kept, k + 1, Len(kept))]
       /\ discarded' = [discarded EXCEPT ![media_type] = @ \union Elements(SubSeq(kept, 1, k))]
  /\ IF failures >= ALLOWED_FAILURES THEN pc' = "thrown" /\ UNCHANGED failures
     ELSE failures' = failures + 1 /\ UNCHANGED pc
  /\ UNCHANGED <<file, decs, pos, media_type, fetch_count, jumping, target>>
  /\ UNCHANGED <<from, skipped, shown, empty, refused, cut>>
-----------------------------------------------------------------------------
(* Mutant: the codecs are flushed, the queues are not emptied.             *)
Mut_reset ==
  /\ held' = [s \in Streams |-> <<>>]
  /\ UNCHANGED queue

(* reset() of every decoder.                                               *)
reset ==
  /\ held' = [s \in Streams |-> <<>>]
  /\ queue' = [s \in Streams |-> <<>>]

(* avformat_seek_file sends the reader to a packet that is not past the    *)
(* target, or refuses and nothing changes.                                 *)
jump_to_time(time) ==
  /\ pc = "idle"
  /\ \E p \in 1 .. Len(file) : pts(p) <= time /\ pos' = p /\ from' = p
  /\ reset
  /\ target' = time
  /\ jumping' = TRUE
  /\ \E s \in decs : First(s, decs) /\ media_type' = s
  /\ pc' = "loop"
  /\ skipped' = [s \in Streams |-> {}]
  /\ shown' = [s \in Streams |-> {}]
  /\ discarded' = [s \in Streams |-> {}]
  /\ cut' = {}
  /\ UNCHANGED <<file, decs, fetch_count, failures, empty, refused>>

(* The times a caller may pass: none past the last packet.                 *)
Times == { pts(i) : i \in 1 .. Len(file) }

Step == Loop \/ fetch_next \/ FetchEnds \/ NothingDecoded \/ DecodePacket \/ DecodeFails

Next ==
  \/ \E s \in Streams : next_frames(s)
  \/ \E time \in Times : jump_to_time(time)
  \/ Step

Spec     == Init /\ [][Next]_vars
FairSpec == Spec /\ WF_vars(Step)
-----------------------------------------------------------------------------
Increasing(q) == \A j, k \in DOMAIN q : j < k => q[j] < q[k]
Before(S, T) == \A i \in S, j \in T : i < j

(* The packets of a stream that came out: shown, skipped by the jump, or   *)
(* thrown away with a packet that failed.                                  *)
Out(s) == skipped[s] \union shown[s] \union discarded[s]

(* Those still in the codec or queued come later, in the order of the      *)
(* file and none twice.                                                    *)
InOrder(s) ==
  /\ Increasing(held[s]) /\ Increasing(queue[s])
  /\ Before(skipped[s], shown[s])
  /\ Before(Out(s), Elements(held[s]) \union Elements(queue[s]))
  /\ Before(Elements(held[s]), Elements(queue[s]))

Kept(s) == Out(s) \union Elements(held[s]) \union Elements(queue[s])

Read(s) == { i \in from .. pos - 1 : file[i].stream = s }

Accounted(s) ==
  /\ InOrder(s)
  /\ Kept(s) \subseteq Read(s)
  /\ \A i \in Read(s) \ Kept(s) : ~file[i].good

(* Whichever streams were asked for, jumped over or failed to decode: of   *)
(* the packets that were read since the last jump only one that cannot be  *)
(* decoded is missing, and the others come out in the order of the file    *)
(* (mediadecoder.cpp 48-105, decode.cpp 133-165, streamdecoder.cpp 63-94). *)
NothingLost == \A s \in decs : Accounted(s)

(* Once a jump has returned every stream is past the target, but one whose *)
(* jump met a read error: what is shown of the others is later than the    *)
(* target, whatever stream brought the reader there, however many frames   *)
(* came at once and whether they had a pts (mediadecoder.cpp 107-142).     *)
JumpLands == \A s \in decs \ cut : \A i \in shown[s] : pts(i) > target

(* A jump does not go too far: when a frame that it threw away had reached *)
(* the target, no call for that stream throws another one away until the   *)
(* next jump (mediadecoder.cpp 127-136).                                   *)
NoneThrownAfter ==
  [][\A s \in decs : \A i \in skipped[s] :
       Reaches(i) => skipped'[s] \in {skipped[s], {}}]_vars

(* A call that returns no frame has come to the end of the file or to a    *)
(* read error in its last fetch: it never gives up with packets of its     *)
(* stream in the queue or after decoding alone came to nothing, and what   *)
(* has not come out is in the codec (mediadecoder.cpp 55-63).  That it     *)
(* came to the end, as the comment at line 63 expects, need not be so.     *)
EmptyMeansStopped ==
  pc = "idle" /\ empty =>
    /\ pos = Len(file) + 1 \/ refused
    /\ queue[media_type] = <<>>
    /\ Len(held[media_type]) <= Delay[media_type]

(* An exception means that more packets could not be decoded than are      *)
(* allowed to fail, all of them later than every frame that was returned   *)
(* (streamdecoder.cpp 73-94).                                              *)
ThrowsForMany ==
  pc = "thrown" =>
    LET lost == { i \in Read(media_type) \ Kept(media_type) :
                    \A j \in skipped[media_type] \union shown[media_type] : j < i }
    IN  Cardinality(lost) > ALLOWED_FAILURES

(* Every call returns or throws: no loop over packets that are not there   *)
(* (mediadecoder.cpp 48-64, 121-139).                                      *)
CallsReturn == pc # "idle" ~> pc \in {"idle", "thrown"}
=============================================================================
