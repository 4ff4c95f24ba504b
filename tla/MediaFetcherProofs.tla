------------------------- MODULE MediaFetcherProofs -------------------------
(***************************************************************************)
(* What holds of a MediaFetcher for every set of files, every size of the  *)
(* audio buffer and every number of jumps.                                 *)
(*                                                                         *)
(* TypeOK is not inductive: an acknowledgement takes one message off the   *)
(* counter, which stays a natural number only because SeekInv knows that   *)
(* one is there.  The two are therefore carried through Next together.     *)
(*                                                                         *)
(* On these rest, in this order: that the messages implement SeekService;  *)
(* RunInv, which says who holds which lock where, and gives ErrorStops and *)
(* CleanEnd; and DataInv, which says to which position the frames and the  *)
(* times in hand belong, and gives FramePaired and the two invariants of   *)
(* the audio buffer.                                                       *)
(***************************************************************************)
EXTENDS MediaFetcher, TLAPS

(* The steps the worker threads share, grouped by what they do.            *)
Loop(t) == LoopExit(t) \/ LoopPlaying(t) \/ LoopPaused(t)
Park(t) == ParkWait(t) \/ ParkLeave(t) \/ ParkWake(t) \/ ParkTimeout(t)
Nap(t)  == NapLock(t) \/ NapWait(t) \/ NapSkip(t) \/ NapWake(t) \/ NapTimeout(t)
Fail(t) == Catch(t) \/ \E next \in {"done", "dispatch"} : Raise(t, next)


(* A shared step keeps every type.                                         *)
LEMMA LoopTypes ==
  ASSUME TypeOK, NEW t \in Workers, Loop(t)
  PROVE  TypeOK'
<1> USE  DEF Step, Goto, Labels, clock, decoding, mainVars, mutexes, conds,
          Threads, Workers, Decoders, Positions
<1>1. CASE LoopExit(t)
  BY <1>1 DEF TypeOK, LoopExit, Nobody
<1>2. CASE LoopPlaying(t)
  BY <1>2 DEF TypeOK, LoopPlaying, Work, Nobody
<1>3. CASE LoopPaused(t)
  BY <1>3 DEF TypeOK, LoopPaused, Nobody
<1> QED
  BY <1>1, <1>2, <1>3 DEF Loop

LEMMA ParkTypes ==
  ASSUME TypeOK, NEW t \in Decoders, Park(t)
  PROVE  TypeOK'
<1> USE  DEF Step, Goto, Labels, clock, decoding, mainVars, mutexes, conds,
          Threads, Workers, Decoders, Positions
<1>1. CASE ParkWait(t)
  BY <1>1 DEF TypeOK, ParkWait, Nobody
<1>2. CASE ParkLeave(t)
  BY <1>2 DEF TypeOK, ParkLeave, Work, Nobody
<1>3. CASE ParkWake(t)
  BY <1>3 DEF TypeOK, ParkWake, Nobody
<1>4. CASE ParkTimeout(t)
  BY <1>4 DEF TypeOK, ParkTimeout, Nobody
<1> QED
  BY <1>1, <1>2, <1>3, <1>4 DEF Park

LEMMA NapTypes ==
  ASSUME TypeOK, NEW t \in Workers, Nap(t)
  PROVE  TypeOK'
<1> USE  DEF Step, Goto, Labels, clock, decoding, mainVars, mutexes, conds,
          Threads, Workers, Decoders, Positions
<1>1. CASE NapLock(t)
  BY <1>1 DEF TypeOK, NapLock, Nobody
<1>2. CASE NapWait(t)
  BY <1>2 DEF TypeOK, NapWait, Nobody
<1>3. CASE NapSkip(t)
  BY <1>3 DEF TypeOK, NapSkip, Nobody
<1>4. CASE NapWake(t)
  BY <1>4 DEF TypeOK, NapWake, Nobody
<1>5. CASE NapTimeout(t)
  BY <1>5 DEF TypeOK, NapTimeout, Nobody
<1> QED
  BY <1>1, <1>2, <1>3, <1>4, <1>5 DEF Nap

LEMMA FailTypes ==
  ASSUME TypeOK, NEW t \in Threads, Fail(t)
  PROVE  TypeOK'
<1> USE  DEF Step, Goto, Labels, clock, decoding, mainVars, mutexes, conds,
          Threads, Workers, Decoders, Positions
<1>1. CASE Catch(t)
  BY <1>1 DEF TypeOK, Catch, Nobody
<1>2. ASSUME NEW next \in {"done", "dispatch"}, Raise(t, next) PROVE TypeOK'
  BY <1>2 DEF TypeOK, Raise, dispatch_exit, Nobody
<1> QED
  BY <1>1, <1>2 DEF Fail

(* A decoding step keeps every type; the acknowledgement needs SeekInv.    *)
LEMMA DecodingTypes ==
  ASSUME TypeOK, SeekInv, NEW d \in Decoders,
         Decode(d) \/ DecodeThrow(d)
           \/ (\E l \in {"clear", "seek"} : Sample(d, l)) \/ Seek(d)
           \/ Ack(d)
  PROVE  TypeOK'
<1> USE  DEF Step, Goto, clock, decoding, mainVars, mutexes, conds
<1>1. CASE Decode(d)
  BY <1>1 DEF TypeOK, Decode,
       Labels, Threads, Workers, Decoders, Positions
<1>2. CASE DecodeThrow(d)
  BY <1>2 DEF TypeOK, DecodeThrow, EndOfScope, NoFrames, NoTime,
       Labels, Threads, Workers, Decoders, Positions
<1>3. ASSUME NEW l \in {"clear", "seek"}, Sample(d, l) PROVE TypeOK'
  BY <1>3 DEF TypeOK, Sample, NoTime,
       Labels, Threads, Workers, Decoders, Positions
<1>4. CASE Seek(d)
  BY <1>4 DEF TypeOK, Seek,
       Labels, Threads, Workers, Decoders, Positions
<1>5. CASE Ack(d)
  <2>1. pc[d] = "ack" /\ msg[d] \in Nat /\ msg[d] >= 1
    BY <1>5 DEF TypeOK, SeekInv, SeekFact, Ack,
         Labels, Threads, Workers, Decoders, Positions
  <2>2. msg' \in [Decoders -> Nat]
    BY <1>5, <2>1 DEF TypeOK, Ack,
         Labels, Threads, Workers, Decoders, Positions
  <2>3. cap' \in [Decoders -> [epoch : Nat, pos : Positions]]
    <3>1. cap' = [cap EXCEPT ![d].pos = "before"]
      BY <1>5 DEF Ack, NoTime
    <3>2. cap \in [Decoders -> [epoch : Nat, pos : Positions]] /\ "before" \in Positions
      BY DEF TypeOK, Positions
    <3> QED
      BY <3>1, <3>2
  <2>4. pc' \in [Threads -> Labels]
    BY <1>5 DEF TypeOK, Ack,
         Labels, Threads, Workers, Decoders, Positions
  <2>5. /\ media' = media /\ in_use' = in_use /\ error' = error
        /\ playing' = playing /\ epoch' = epoch /\ pos' = pos
        /\ frame' = frame /\ out' = out /\ req_jump' = req_jump
        /\ jumps' = jumps /\ alter_mutex' = alter_mutex
        /\ ex_noti_mtx' = ex_noti_mtx
        /\ resume_notify_mutex' = resume_notify_mutex
        /\ exit_cond' = exit_cond /\ resume_cond' = resume_cond
        /\ asked' = asked /\ at' = at /\ hold' = hold /\ buf' = buf
    BY <1>5 DEF Ack
  <2> QED
    BY <2>2, <2>3, <2>4, <2>5, Zenon DEF TypeOK
<1> QED
  BY <1>1, <1>2, <1>3, <1>4, <1>5

(* The steps of the audio thread alone keep every type.                    *)
LEMMA AudioTypes ==
  ASSUME TypeOK, SeekInv,
         AudioOpen \/ AudioClear \/ AudioWrite \/ AudioFull \/ AudioRefused
           \/ AudioDelivered \/ BufferWake("audio")
  PROVE  TypeOK'
<1> USE  DEF Step, Goto, clock, decoding, mainVars, mutexes, conds
<1>1. CASE AudioOpen
  BY <1>1 DEF TypeOK, AudioOpen, Opened,
       Labels, Threads, Workers, Decoders, Positions
<1>2. CASE AudioClear
  BY <1>2 DEF TypeOK, AudioClear,
       Labels, Threads, Workers, Decoders, Positions
<1>3. CASE AudioWrite
  <2>1. hold["audio"].epoch \in Nat /\ hold["audio"].n \in Nat \ {0}
    BY <1>3 DEF TypeOK, AudioWrite,
         Labels, Threads, Workers, Decoders, Positions
  <2>2. Append(buf.held, hold["audio"].epoch) \in Seq(Nat)
    BY <2>1 DEF TypeOK,
         Labels, Threads, Workers, Decoders, Positions
  <2>3. buf' \in [start : Nat, held : Seq(Nat)]
    BY <1>3, <2>2 DEF TypeOK, AudioWrite,
         Labels, Threads, Workers, Decoders, Positions
  <2>4. hold' \in [Decoders -> [n : Nat, epoch : Nat]]
    <3>1. hold' = [hold EXCEPT !["audio"].n = @ - 1]
      BY <1>3 DEF AudioWrite
    <3>2. hold \in [Decoders -> [n : Nat, epoch : Nat]] /\ hold["audio"].n - 1 \in Nat
      BY <2>1, SMT DEF TypeOK
    <3> QED
      BY <3>1, <3>2
  <2>5. pc' \in [Threads -> Labels]
    BY <1>3 DEF TypeOK, AudioWrite,
         Labels, Threads, Workers, Decoders, Positions
  <2>6. /\ media' = media /\ in_use' = in_use /\ error' = error
        /\ playing' = playing /\ epoch' = epoch /\ pos' = pos
        /\ frame' = frame /\ out' = out /\ req_jump' = req_jump
        /\ jumps' = jumps /\ alter_mutex' = alter_mutex
        /\ ex_noti_mtx' = ex_noti_mtx
        /\ resume_notify_mutex' = resume_notify_mutex
        /\ exit_cond' = exit_cond /\ resume_cond' = resume_cond
        /\ msg' = msg /\ cap' = cap /\ asked' = asked /\ at' = at
    BY <1>3 DEF AudioWrite
  <2> QED
    BY <2>3, <2>4, <2>5, <2>6, Zenon DEF TypeOK
<1>4. CASE AudioDelivered
  BY <1>4 DEF TypeOK, AudioDelivered, EndOfScope, NoFrames, NoTime,
       Labels, Threads, Workers, Decoders, Positions
<1>5. CASE AudioFull
  BY <1>5 DEF TypeOK, AudioFull,
       Labels, Threads, Workers, Decoders, Positions
<1>7. CASE BufferWake("audio")
  BY <1>7 DEF TypeOK, BufferWake,
       Labels, Threads, Workers, Decoders, Positions
<1>6. CASE AudioRefused
  <2>1. hold' \in [Decoders -> [n : Nat, epoch : Nat]]
    <3>1. hold \in [Decoders -> [n : Nat, epoch : Nat]]
      BY DEF TypeOK
    <3>2. CASE in_use
      BY <1>6, <3>1, <3>2 DEF AudioRefused
    <3>3. CASE ~in_use
      <4>1. hold' = [hold EXCEPT !["audio"].n = @ - 1]
        BY <1>6, <3>3 DEF AudioRefused
      <4>2. hold["audio"].n \in Nat \ {0}
        BY <1>6 DEF TypeOK, AudioRefused, Decoders
      <4>3. hold["audio"].n - 1 \in Nat
        BY <4>2
      <4> QED
        BY <3>1, <4>1, <4>3
    <3> QED
      BY <3>2, <3>3
  <2> QED
    BY <1>6, <2>1 DEF TypeOK, AudioRefused,
         Labels, Threads, Workers, Decoders, Positions
<1> QED
  BY <1>1, <1>2, <1>3, <1>4, <1>5, <1>6, <1>7

(* The steps of the video thread alone keep every type.                    *)
LEMMA VideoTypes ==
  ASSUME TypeOK, SeekInv,
         VideoOpen \/ ImageShow \/ ImageThrow \/ VideoPublish \/ VideoLate
           \/ VideoNothing \/ VideoPeek \/ VideoScarce \/ BufferWake("video")
  PROVE  TypeOK'
<1> USE  DEF Step, Goto, clock, decoding, mainVars, mutexes, conds
<1>1. CASE VideoOpen
  BY <1>1 DEF TypeOK, VideoOpen, Opened,
       Labels, Threads, Workers, Decoders, Positions
<1>2. CASE ImageShow
  <2>1. frame' \in BOOLEAN
    BY <1>2 DEF TypeOK, ImageShow,
         Labels, Threads, Workers, Decoders, Positions
  <2> QED
    BY <1>2, <2>1 DEF TypeOK, ImageShow,
         Labels, Threads, Workers, Decoders, Positions
<1>3. CASE ImageThrow
  BY <1>3 DEF TypeOK, ImageThrow,
       Labels, Threads, Workers, Decoders, Positions
<1>4. CASE VideoPublish
  BY <1>4 DEF TypeOK, VideoPublish, EndOfScope, NoFrames, NoTime,
       Labels, Threads, Workers, Decoders, Positions
<1>5. CASE VideoLate
  BY <1>5 DEF TypeOK, VideoLate, EndOfScope, NoFrames, NoTime,
       Labels, Threads, Workers, Decoders, Positions
<1>6. CASE VideoNothing
  BY <1>6 DEF TypeOK, VideoNothing, EndOfScope, NoFrames, NoTime,
       Labels, Threads, Workers, Decoders, Positions
<1>7. CASE VideoPeek
  <2>1. pc' \in [Threads -> Labels]
    BY <1>7 DEF TypeOK, VideoPeek,
         Labels, Threads, Workers, Decoders, Positions
  <2>3. hold' \in [Decoders -> [n : Nat, epoch : Nat]]
    BY <1>7 DEF TypeOK, VideoPeek,
         Labels, Threads, Workers, Decoders, Positions
  <2>4. /\ media' = media /\ in_use' = in_use /\ error' = error
        /\ playing' = playing /\ epoch' = epoch /\ pos' = pos
        /\ frame' = frame /\ out' = out /\ req_jump' = req_jump
        /\ jumps' = jumps /\ alter_mutex' = alter_mutex
        /\ ex_noti_mtx' = ex_noti_mtx
        /\ resume_notify_mutex' = resume_notify_mutex
        /\ exit_cond' = exit_cond /\ resume_cond' = resume_cond
        /\ msg' = msg /\ cap' = cap /\ asked' = asked /\ at' = at
        /\ buf' = buf
    BY <1>7 DEF VideoPeek
  <2> QED
    BY <2>1, <2>3, <2>4, Zenon DEF TypeOK
<1>8. CASE VideoScarce
  BY <1>8 DEF TypeOK, VideoScarce,
       Labels, Threads, Workers, Decoders, Positions
<1>9. CASE BufferWake("video")
  BY <1>9 DEF TypeOK, BufferWake,
       Labels, Threads, Workers, Decoders, Positions
<1> QED
  BY <1>1, <1>2, <1>3, <1>4, <1>5, <1>6, <1>7, <1>8, <1>9

(* The steps of the duration thread alone keep every type.                 *)
LEMMA DurationTypes ==
  ASSUME TypeOK, SeekInv,
         DurationOpen \/ DurationCheck \/ DurationExpire
  PROVE  TypeOK'
<1> USE  DEF Step, Goto, Labels, clock, decoding, mainVars, mutexes, conds,
          Threads, Workers, Decoders, Positions
<1>1. CASE DurationOpen
  BY <1>1 DEF TypeOK, DurationOpen
<1>2. CASE DurationCheck
  BY <1>2 DEF TypeOK, DurationCheck, Nobody
<1>3. CASE DurationExpire
  BY <1>3 DEF TypeOK, DurationExpire, dispatch_exit, Nobody
<1> QED
  BY <1>1, <1>2, <1>3

(* The steps of the owner keep every type.                                 *)
LEMMA OwnerTypes ==
  ASSUME TypeOK, SeekInv,
         begin \/ MainTick \/ MainLeave \/ pause \/ resume \/ ResumeNotify
           \/ KeysDone \/ JumpStop \/ MainJump \/ MainDispatch \/ join
           \/ Joined \/ StartAudio \/ JumpStart \/ Resize
  PROVE  TypeOK'
<1> USE  DEF Step, Goto, Labels, clock, decoding, mainVars, mutexes, conds,
          Threads, Workers, Decoders, Positions
<1>1. CASE begin
  BY <1>1 DEF TypeOK, begin
<1>2. CASE MainTick
  BY <1>2 DEF TypeOK, MainTick
<1>3. CASE MainLeave
  BY <1>3 DEF TypeOK, MainLeave
<1>4. CASE pause
  <2>1. /\ out' \in BOOLEAN /\ playing' \in BOOLEAN /\ alter_mutex' \in Threads \union {Nobody}
        /\ pc' \in [Threads -> Labels]
    BY <1>4 DEF TypeOK, pause
  <2>2. UNCHANGED <<media, in_use, error, epoch, pos, msg, decoding, buf, frame,
                    req_jump, jumps, ex_noti_mtx, resume_notify_mutex, conds>>
    BY <1>4 DEF pause
  <2> QED
    BY <2>1, <2>2 DEF TypeOK
<1>5. CASE resume
  <2>1. out' \in BOOLEAN
    BY <1>5, MediaAssumption DEF TypeOK, resume, MediaKind
  <2> QED
    BY <1>5, <2>1 DEF TypeOK, resume
<1>6. CASE ResumeNotify
  BY <1>6 DEF TypeOK, ResumeNotify, Nobody
<1>7. CASE KeysDone
  BY <1>7 DEF TypeOK, KeysDone, Rendered
<1>8. CASE JumpStop
  BY <1>8 DEF TypeOK, JumpStop
<1>9. CASE MainJump
  BY <1>9 DEF TypeOK, MainJump, jump_to_time
<1>10. CASE MainDispatch
  BY <1>10 DEF TypeOK, MainDispatch, dispatch_exit, Nobody
<1>11. CASE join
  <2>1. playing' \in BOOLEAN
    BY <1>11 DEF TypeOK, join
  <2>2. /\ in_use' \in BOOLEAN
        /\ pc' \in [Threads -> Labels]
        /\ UNCHANGED <<media, error, epoch, pos, msg, decoding, buf, frame,
                       mainVars, mutexes, conds>>
    BY <1>11 DEF TypeOK, join
  <2> QED
    BY <2>1, <2>2 DEF TypeOK
<1>12. CASE Joined
  BY <1>12 DEF TypeOK, Joined
<1>13. CASE StartAudio
  BY <1>13 DEF TypeOK, StartAudio
<1>14. CASE JumpStart
  <2>1. out' \in BOOLEAN
    BY <1>14, MediaAssumption DEF TypeOK, JumpStart, MediaKind
  <2> QED
    BY <1>14, <2>1 DEF TypeOK, JumpStart, Rendered
<1>15. CASE Resize
  BY <1>15 DEF TypeOK, Resize
<1> QED
  BY <1>1, <1>2, <1>3, <1>4, <1>5, <1>6, <1>7, <1>8, <1>9, <1>10, <1>11, <1>12,
     <1>13, <1>14, <1>15

(* So do the user, the clock and the audio output.                         *)
LEMMA UserTypes ==
  ASSUME TypeOK, SeekInv,
         KeyLeave \/ KeyJump \/ KeyToggle \/ MainInterrupt \/ MainThrow
           \/ StartThrow \/ Tick \/ Consume
  PROVE  TypeOK'
<1> USE  DEF Step, Goto, Labels, clock, decoding, mainVars, mutexes, conds,
          Threads, Workers, Decoders, Positions
<1>1. CASE KeyLeave
  BY <1>1 DEF TypeOK, KeyLeave, dispatch_exit, Nobody
<1>2. CASE KeyJump
  BY <1>2 DEF TypeOK, KeyJump
<1>3. CASE KeyToggle
  BY <1>3 DEF TypeOK, KeyToggle, Nobody
<1>4. CASE MainInterrupt
  BY <1>4 DEF TypeOK, MainInterrupt
<1>5. CASE MainThrow
  BY <1>5 DEF TypeOK, MainThrow, Nobody
<1>8. CASE StartThrow
  BY <1>8 DEF TypeOK, StartThrow
<1>6. CASE Tick
  BY <1>6 DEF TypeOK, Tick
<1>7. CASE Consume
  <2>1. Tail(buf.held) \in Seq(Nat)
    BY <1>7 DEF TypeOK, Consume
  <2>2. buf' \in [start : Nat, held : Seq(Nat)]
    BY <1>7, <2>1 DEF TypeOK, Consume
  <2> QED
    BY <1>7, <2>2 DEF TypeOK, Consume
<1> QED
  BY <1>1, <1>2, <1>3, <1>4, <1>5, <1>6, <1>7, <1>8

(* A shared step touches neither the messages nor the seeks.               *)
LEMMA SharedSeeks ==
  ASSUME TypeOK, SeekInv, NEW t \in Threads,
         Loop(t) \/ (t \in Decoders /\ Park(t)) \/ Nap(t) \/ Fail(t)
  PROVE  SeekInv'
<1> USE  DEF Step, Goto, Labels, clock, decoding, mainVars, mutexes, conds,
          Threads, Workers, Decoders, Positions
<1>1. CASE LoopExit(t)
  BY <1>1 DEF TypeOK, SeekInv, SeekFact, LoopExit
<1>2. CASE LoopPlaying(t)
  BY <1>2 DEF TypeOK, SeekInv, SeekFact, LoopPlaying, Work
<1>3. CASE LoopPaused(t)
  BY <1>3 DEF TypeOK, SeekInv, SeekFact, LoopPaused
<1>4. CASE ParkWait(t)
  BY <1>4 DEF TypeOK, SeekInv, SeekFact, ParkWait
<1>5. CASE ParkLeave(t)
  BY <1>5 DEF TypeOK, SeekInv, SeekFact, ParkLeave, Work
<1>6. CASE ParkWake(t)
  BY <1>6 DEF TypeOK, SeekInv, SeekFact, ParkWake
<1>7. CASE ParkTimeout(t)
  BY <1>7 DEF TypeOK, SeekInv, SeekFact, ParkTimeout
<1>8. CASE NapLock(t)
  BY <1>8 DEF TypeOK, SeekInv, SeekFact, NapLock
<1>9. CASE NapWait(t)
  BY <1>9 DEF TypeOK, SeekInv, SeekFact, NapWait
<1>10. CASE NapSkip(t)
  BY <1>10 DEF TypeOK, SeekInv, SeekFact, NapSkip
<1>11. CASE NapWake(t)
  BY <1>11 DEF TypeOK, SeekInv, SeekFact, NapWake
<1>12. CASE NapTimeout(t)
  BY <1>12 DEF TypeOK, SeekInv, SeekFact, NapTimeout
<1>13. CASE Catch(t)
  BY <1>13 DEF TypeOK, SeekInv, SeekFact, Catch
<1>14. ASSUME NEW next \in {"done", "dispatch"}, Raise(t, next) PROVE SeekInv'
  BY <1>14 DEF TypeOK, SeekInv, SeekFact, Raise, dispatch_exit
<1> QED
  BY <1>1, <1>2, <1>3, <1>4, <1>5, <1>6, <1>7, <1>8, <1>9, <1>10, <1>11, <1>12, <1>13, <1>14 DEF Loop, Park, Nap, Fail

(* The heart of the matter: the five steps between a message and its       *)
(* acknowledgement keep SeekInv.                                           *)
LEMMA DecodingSeeks ==
  ASSUME TypeOK, SeekInv, NEW d \in Decoders,
         Decode(d) \/ DecodeThrow(d)
           \/ (\E l \in {"clear", "seek"} : Sample(d, l)) \/ Seek(d)
           \/ Ack(d)
  PROVE  SeekInv'
<1> USE  DEF Step, Goto, Labels, clock, decoding, mainVars, mutexes, conds,
          Threads, Workers, Decoders, Positions
<1>1. CASE Decode(d)
  BY <1>1 DEF TypeOK, SeekInv, SeekFact, Decode
<1>2. CASE DecodeThrow(d)
  BY <1>2 DEF TypeOK, SeekInv, SeekFact, DecodeThrow, EndOfScope, NoTime
<1>3. ASSUME NEW l \in {"clear", "seek"}, Sample(d, l) PROVE SeekInv'
  BY <1>3 DEF TypeOK, SeekInv, SeekFact, Sample, NoTime
<1>4. CASE Seek(d)
  <2>1. /\ asked' = [asked EXCEPT ![d] = cap[d].epoch]
        /\ pc[d] = "seek"
        /\ pc' = [pc EXCEPT ![d] = "ack"]
        /\ UNCHANGED <<epoch, msg, cap>>
    BY <1>4 DEF Seek
  <2>2. asked'[d] = cap[d].epoch /\ pc'[d] = "ack"
    BY <2>1 DEF TypeOK
  <2>3. \A e \in Decoders \ {d} : asked'[e] = asked[e] /\ pc'[e] = pc[e]
    BY <2>1 DEF TypeOK
  <2>4. cap[d].epoch \in Nat /\ epoch \in Nat /\ msg[d] \in Nat
    BY DEF TypeOK
  <2>5. /\ msg[d] >= 1
        /\ cap[d].epoch # epoch => msg[d] >= 2
        /\ cap[d].epoch <= epoch
    <3>1. SeekFact(d)
      BY DEF SeekInv
    <3> QED
      BY <2>1, <3>1 DEF SeekFact
  <2>6. SeekFact(d)'
    BY <2>1, <2>2, <2>4, <2>5 DEF SeekFact
  <2>7. \A e \in Decoders \ {d} : SeekFact(e)'
    BY <2>1, <2>3 DEF SeekInv, SeekFact
  <2> QED
    BY <2>6, <2>7 DEF SeekInv, SeekFact
<1>5. CASE Ack(d)
  BY <1>5 DEF TypeOK, SeekInv, SeekFact, Ack, NoTime
<1> QED
  BY <1>1, <1>2, <1>3, <1>4, <1>5

(* The other steps of the threads do not enter a seek ...                  *)
LEMMA AudioSeekSteps ==
  ASSUME TypeOK, SeekInv,
         AudioOpen \/ AudioClear \/ AudioWrite \/ AudioFull \/ AudioRefused
           \/ AudioDelivered \/ BufferWake("audio")
  PROVE  SeekInv'
<1> USE  DEF Step, Goto, Labels, clock, decoding, mainVars, mutexes, conds,
          Threads, Workers, Decoders, Positions
<1>1. CASE AudioOpen
  BY <1>1 DEF TypeOK, SeekInv, SeekFact, AudioOpen, Opened
<1>2. CASE AudioClear
  BY <1>2 DEF TypeOK, SeekInv, SeekFact, AudioClear
<1>3. CASE AudioWrite
  BY <1>3 DEF TypeOK, SeekInv, SeekFact, AudioWrite
<1>4. CASE AudioDelivered
  BY <1>4 DEF TypeOK, SeekInv, SeekFact, AudioDelivered, EndOfScope, NoFrames, NoTime
<1>5. CASE AudioFull \/ AudioRefused \/ BufferWake("audio")
  BY <1>5 DEF TypeOK, SeekInv, SeekFact, AudioFull, AudioRefused, BufferWake
<1> QED
  BY <1>1, <1>2, <1>3, <1>4, <1>5

(* ... nor do those of the video thread ...                                *)
LEMMA VideoSeekSteps ==
  ASSUME TypeOK, SeekInv,
         VideoOpen \/ ImageShow \/ ImageThrow \/ VideoPublish \/ VideoLate
           \/ VideoNothing \/ VideoPeek \/ VideoScarce \/ BufferWake("video")
  PROVE  SeekInv'
<1> USE  DEF Step, Goto, Labels, clock, decoding, mainVars, mutexes, conds,
          Threads, Workers, Decoders, Positions
<1>1. CASE VideoOpen
  BY <1>1 DEF TypeOK, SeekInv, SeekFact, VideoOpen, Opened
<1>2. CASE ImageShow
  BY <1>2 DEF TypeOK, SeekInv, SeekFact, ImageShow
<1>3. CASE ImageThrow
  BY <1>3 DEF TypeOK, SeekInv, SeekFact, ImageThrow
<1>4. CASE VideoPublish
  BY <1>4 DEF TypeOK, SeekInv, SeekFact, VideoPublish, EndOfScope, NoFrames, NoTime
<1>5. CASE VideoLate
  BY <1>5 DEF TypeOK, SeekInv, SeekFact, VideoLate, EndOfScope, NoFrames, NoTime
<1>6. CASE VideoNothing
  BY <1>6 DEF TypeOK, SeekInv, SeekFact, VideoNothing, EndOfScope, NoFrames, NoTime
<1>7. CASE VideoPeek
  BY <1>7 DEF TypeOK, SeekInv, SeekFact, VideoPeek
<1>8. CASE VideoScarce \/ BufferWake("video")
  BY <1>8 DEF TypeOK, SeekInv, SeekFact, VideoScarce, BufferWake
<1> QED
  BY <1>1, <1>2, <1>3, <1>4, <1>5, <1>6, <1>7, <1>8

(* ... nor of the duration thread.                                         *)
LEMMA DurationSeekSteps ==
  ASSUME TypeOK, SeekInv,
         DurationOpen \/ DurationCheck \/ DurationExpire
  PROVE  SeekInv'
<1> USE  DEF Step, Goto, Labels, clock, decoding, mainVars, mutexes, conds,
          Threads, Workers, Decoders, Positions
<1>1. CASE DurationOpen
  BY <1>1 DEF TypeOK, SeekInv, SeekFact, DurationOpen
<1>2. CASE DurationCheck
  BY <1>2 DEF TypeOK, SeekInv, SeekFact, DurationCheck
<1>3. CASE DurationExpire
  BY <1>3 DEF TypeOK, SeekInv, SeekFact, DurationExpire, dispatch_exit
<1> QED
  BY <1>1, <1>2, <1>3

(* A jump of the owner adds the message that SeekInv asks for.             *)
LEMMA OwnerSeekSteps ==
  ASSUME TypeOK, SeekInv,
         begin \/ MainTick \/ MainLeave \/ pause \/ resume \/ ResumeNotify
           \/ KeysDone \/ JumpStop \/ MainJump \/ MainDispatch \/ join
           \/ Joined \/ StartAudio \/ JumpStart \/ Resize
  PROVE  SeekInv'
<1> USE  DEF Step, Goto, Labels, clock, decoding, mainVars, mutexes, conds,
          Threads, Workers, Decoders, Positions
<1>1. CASE begin
  BY <1>1 DEF TypeOK, SeekInv, SeekFact, begin
<1>2. CASE MainTick
  BY <1>2 DEF TypeOK, SeekInv, SeekFact, MainTick
<1>3. CASE MainLeave
  BY <1>3 DEF TypeOK, SeekInv, SeekFact, MainLeave
<1>4. CASE pause
  BY <1>4 DEF TypeOK, SeekInv, SeekFact, pause
<1>5. CASE resume
  BY <1>5 DEF TypeOK, SeekInv, SeekFact, resume
<1>6. CASE ResumeNotify
  BY <1>6 DEF TypeOK, SeekInv, SeekFact, ResumeNotify
<1>7. CASE KeysDone
  BY <1>7 DEF TypeOK, SeekInv, SeekFact, KeysDone, Rendered
<1>8. CASE JumpStop
  BY <1>8 DEF TypeOK, SeekInv, SeekFact, JumpStop
<1>9. CASE MainJump
  <2>1. /\ \A e \in Decoders : msg'[e] = msg[e] + 1 /\ pc'[e] = pc[e]
        /\ epoch' = epoch \/ epoch' = epoch + 1
        /\ UNCHANGED <<cap, asked>>
    BY <1>9 DEF TypeOK, MainJump, jump_to_time
  <2>2. \A e \in Decoders : msg[e] \in Nat /\ asked[e] \in Nat /\ cap[e].epoch \in Nat
    BY DEF TypeOK
  <2>3. epoch \in Nat
    BY DEF TypeOK
  <2>4. ASSUME NEW e \in Decoders PROVE SeekFact(e)'
    <3>1. SeekFact(e)
      BY DEF SeekInv
    <3>2. msg[e] \in Nat /\ msg'[e] = msg[e] + 1 /\ pc'[e] = pc[e]
      BY <2>1, <2>2
    <3> QED
      BY <2>1, <2>2, <2>3, <3>1, <3>2 DEF SeekFact
  <2> QED
    BY <2>4 DEF SeekInv, SeekFact
<1>10. CASE MainDispatch
  BY <1>10 DEF TypeOK, SeekInv, SeekFact, MainDispatch, dispatch_exit
<1>11. CASE join
  BY <1>11 DEF TypeOK, SeekInv, SeekFact, join
<1>12. CASE Joined
  BY <1>12 DEF TypeOK, SeekInv, SeekFact, Joined
<1>13. CASE StartAudio \/ JumpStart \/ Resize
  BY <1>13 DEF TypeOK, SeekInv, SeekFact, StartAudio, JumpStart, Resize, Rendered
<1> QED
  BY <1>1, <1>2, <1>3, <1>4, <1>5, <1>6, <1>7, <1>8, <1>9, <1>10, <1>11, <1>12,
     <1>13

(* The user, the clock and the audio output leave the seeks alone.         *)
LEMMA UserSeekSteps ==
  ASSUME TypeOK, SeekInv,
         KeyLeave \/ KeyJump \/ KeyToggle \/ MainInterrupt \/ MainThrow
           \/ StartThrow \/ Tick \/ Consume
  PROVE  SeekInv'
<1> USE  DEF Step, Goto, Labels, clock, decoding, mainVars, mutexes, conds,
          Threads, Workers, Decoders, Positions
<1>1. CASE KeyLeave
  BY <1>1 DEF TypeOK, SeekInv, SeekFact, KeyLeave, dispatch_exit
<1>2. CASE KeyJump
  BY <1>2 DEF TypeOK, SeekInv, SeekFact, KeyJump
<1>3. CASE KeyToggle
  BY <1>3 DEF TypeOK, SeekInv, SeekFact, KeyToggle
<1>4. CASE MainInterrupt
  BY <1>4 DEF TypeOK, SeekInv, SeekFact, MainInterrupt
<1>5. CASE MainThrow
  BY <1>5 DEF TypeOK, SeekInv, SeekFact, MainThrow
<1>8. CASE StartThrow
  BY <1>8 DEF TypeOK, SeekInv, SeekFact, StartThrow
<1>6. CASE Tick
  BY <1>6 DEF TypeOK, SeekInv, SeekFact, Tick
<1>7. CASE Consume
  BY <1>7 DEF TypeOK, SeekInv, SeekFact, Consume
<1> QED
  BY <1>1, <1>2, <1>3, <1>4, <1>5, <1>6, <1>7, <1>8
(* TypeOK and SeekInv hold initially and are kept by every step.           *)
LEMMA InductiveInvariant == Spec => [](TypeOK /\ SeekInv)
<1>1. Init => TypeOK /\ SeekInv
  <2> SUFFICES ASSUME Init PROVE TypeOK /\ SeekInv
    OBVIOUS
  <2>1. pc \in [Threads -> Labels]
    BY DEF Init, Labels
  <2>2. cap \in [Decoders -> [epoch : Nat, pos : Positions]]
    BY DEF Init, NoTime, Positions
  <2>3. hold \in [Decoders -> [n : Nat, epoch : Nat]]
    BY DEF Init, NoFrames
  <2>4. /\ msg \in [Decoders -> Nat]
        /\ asked \in [Decoders -> Nat]
        /\ at \in [Decoders -> Nat]
        /\ buf \in [start : Nat, held : Seq(Nat)]
    BY DEF Init
  <2>5. TypeOK
    BY <2>1, <2>2, <2>3, <2>4 DEF Init, TypeOK, Positions, Threads, Workers, Decoders
  <2>6. SeekInv
    BY DEF Init, SeekInv, SeekFact, NoTime, Threads, Workers, Decoders
  <2> QED
    BY <2>5, <2>6
<1>2. TypeOK /\ SeekInv /\ [Next]_vars => TypeOK' /\ SeekInv'
  <2> SUFFICES ASSUME TypeOK, SeekInv, [Next]_vars PROVE TypeOK' /\ SeekInv'
    OBVIOUS
  <2> USE DEF Threads, Workers, Decoders
  <2>1. CASE AudioNext
    BY <2>1, LoopTypes, ParkTypes, FailTypes, SharedSeeks, DecodingTypes,
       DecodingSeeks, AudioTypes, AudioSeekSteps
       DEF AudioNext, Loop, Park, Fail, AudioSample, AudioAck
  <2>2. CASE VideoNext
    BY <2>2, LoopTypes, ParkTypes, NapTypes, FailTypes, SharedSeeks,
       DecodingTypes, DecodingSeeks, VideoTypes, VideoSeekSteps
       DEF VideoNext, Loop, Park, Nap, Fail, VideoSample, VideoAck
  <2>3. CASE DurationNext
    BY <2>3, LoopTypes, NapTypes, SharedSeeks, DurationTypes, DurationSeekSteps
       DEF DurationNext, Loop, Nap
  <2>4. CASE MainNext
    BY <2>4, FailTypes, SharedSeeks, OwnerTypes, OwnerSeekSteps DEF MainNext, Fail
  <2>5. CASE User \/ Tick \/ Consume
    BY <2>5, UserTypes, UserSeekSteps DEF User
  <2>6. CASE Timeouts
    BY <2>6, ParkTypes, NapTypes, SharedSeeks DEF Timeouts, Park, Nap
  <2>7. CASE Finished \/ UNCHANGED vars
    <3>1. UNCHANGED vars
      BY <2>7 DEF Finished
    <3>2. TypeOK'
      BY <3>1 DEF vars, TypeOK
    <3>3. SeekInv'
      BY <3>1 DEF vars, SeekInv, SeekFact
    <3> QED
      BY <3>2, <3>3
  <2> QED
    BY <2>1, <2>2, <2>3, <2>4, <2>5, <2>6, <2>7 DEF Next
<1> QED
  BY <1>1, <1>2, PTL DEF Spec

(* Every variable keeps its type; in particular no counter of jump         *)
(* messages is ever taken below zero.                                      *)
THEOREM TypeCorrect == Spec => []TypeOK
BY InductiveInvariant, PTL

(* No jump is lost: a decoding thread without messages was last sent to    *)
(* the newest position.                                                    *)
THEOREM NoSeekLost == Spec => []SeekNotLost
<1>1. TypeOK /\ SeekInv => SeekNotLost
  BY DEF TypeOK, SeekInv, SeekFact, SeekNotLost
<1> QED
  BY <1>1, InductiveInvariant, PTL

-----------------------------------------------------------------------------
(* The refinement of SeekService.                                          *)

(* Only three actions touch what SeekService speaks of.                    *)
LEMMA SeekVariables ==
  ASSUME [Next]_vars
  PROVE  \/ UNCHANGED <<epoch, asked, msg>>
         \/ MainJump
         \/ \E d \in Decoders : Seek(d) \/ Ack(d)
<1> USE DEF clock, decoding
<1>1. ASSUME NEW t, Loop(t) PROVE UNCHANGED <<epoch, asked, msg>>
  BY <1>1 DEF Loop, LoopExit, LoopPlaying, LoopPaused
<1>2. ASSUME NEW t, Park(t) PROVE UNCHANGED <<epoch, asked, msg>>
  BY <1>2 DEF Park, ParkWait, ParkLeave, ParkWake, ParkTimeout
<1>3. ASSUME NEW t, Nap(t) PROVE UNCHANGED <<epoch, asked, msg>>
  BY <1>3 DEF Nap, NapLock, NapWait, NapSkip, NapWake, NapTimeout
<1>4. ASSUME NEW t, Fail(t) PROVE UNCHANGED <<epoch, asked, msg>>
  BY <1>4 DEF Fail, Catch, Raise
<1>5. ASSUME NEW d, NEW l, Decode(d) \/ DecodeThrow(d) \/ Sample(d, l)
      PROVE  UNCHANGED <<epoch, asked, msg>>
  BY <1>5 DEF Decode, DecodeThrow, EndOfScope, Sample
<1>6. CASE AudioNext
  <2>1. CASE \/ AudioOpen \/ AudioClear \/ AudioWrite \/ AudioFull
             \/ AudioRefused \/ AudioDelivered \/ BufferWake("audio")
    BY <2>1 DEF AudioOpen, AudioClear, AudioWrite, AudioFull, AudioRefused,
         AudioDelivered, BufferWake
  <2> QED
    BY <1>1, <1>2, <1>4, <1>5, <1>6, <2>1
       DEF AudioNext, Loop, Park, Fail, AudioSample, AudioAck, Decoders
<1>7. CASE VideoNext
  <2>1. CASE \/ VideoOpen \/ ImageShow \/ ImageThrow
             \/ VideoPublish \/ VideoLate \/ VideoNothing \/ VideoPeek
             \/ VideoScarce \/ BufferWake("video")
    BY <2>1 DEF VideoOpen, ImageShow, ImageThrow, VideoPublish, VideoLate,
         VideoNothing, VideoPeek, VideoScarce, BufferWake
  <2> QED
    BY <1>1, <1>2, <1>3, <1>4, <1>5, <1>7, <2>1
       DEF VideoNext, Loop, Park, Nap, Fail, VideoSample, VideoAck, Decoders
<1>8. CASE DurationNext
  BY <1>1, <1>3, <1>8 DEF DurationNext, Loop, Nap, DurationOpen, DurationCheck, DurationExpire
<1>9. CASE MainNext
  <2>1. CASE \/ begin \/ MainTick \/ MainLeave \/ pause \/ resume \/ ResumeNotify
             \/ KeysDone \/ JumpStop \/ MainDispatch \/ join \/ Joined
             \/ StartAudio \/ JumpStart \/ Resize
    BY <2>1 DEF begin, MainTick, MainLeave, pause, resume, ResumeNotify,
         KeysDone, JumpStop, MainDispatch, join, Joined, StartAudio, JumpStart,
         Resize
  <2> QED
    BY <1>4, <1>9, <2>1 DEF MainNext, Fail
<1>10. CASE User
  BY <1>10 DEF User, KeyLeave, KeyJump, KeyToggle, MainInterrupt,
       MainThrow, StartThrow
<1>11. CASE Timeouts \/ Tick \/ Consume \/ Finished \/ UNCHANGED vars
  BY <1>2, <1>3, <1>11 DEF Timeouts, Park, Nap, Tick, Consume, Finished, vars
<1> QED
  BY <1>6, <1>7, <1>8, <1>9, <1>10, <1>11 DEF Next

(* Each of those three is a step of the service of decoder d: a jump asks, *)
(* a seek serves, and the acknowledgement of the last message settles.     *)
LEMMA ServiceStep ==
  ASSUME TypeOK, SeekInv, [Next]_vars, NEW d \in Decoders
  PROVE  \/ epoch' = epoch + 1 /\ msg'[d] > 0 /\ asked'[d] = asked[d]
         \/ epoch' = epoch /\ msg'[d] > 0 /\ asked'[d] = asked[d]
         \/ /\ msg[d] > 0 /\ msg'[d] > 0
            /\ asked'[d] \in asked[d] .. epoch
            /\ epoch' = epoch
         \/ /\ msg[d] > 0 /\ asked[d] = epoch
            /\ msg'[d] = 0
            /\ epoch' = epoch /\ asked'[d] = asked[d]
         \/ epoch' = epoch /\ asked'[d] = asked[d] /\ msg'[d] = msg[d]
<1> USE DEF clock
<1>1. /\ epoch \in Nat
      /\ \A e \in Decoders : msg[e] \in Nat /\ asked[e] \in Nat /\ cap[e].epoch \in Nat
  BY DEF TypeOK
<1>2. \A e \in Decoders : SeekFact(e)
  BY DEF SeekInv
<1>3. CASE UNCHANGED <<epoch, asked, msg>>
  BY <1>3
<1>4. CASE MainJump
  <2>1. /\ msg'[d] = msg[d] + 1
        /\ epoch' = epoch + 1 \/ epoch' = epoch
        /\ asked' = asked
    BY <1>4 DEF MainJump, jump_to_time, decoding
  <2> QED
    BY <1>1, <2>1
<1>5. ASSUME NEW e \in Decoders, Seek(e) PROVE
         /\ epoch' = epoch /\ msg' = msg
         /\ asked'[d] = asked[d] \/ (msg[d] > 0 /\ asked'[d] \in asked[d] .. epoch)
  <2>1. /\ asked' = [asked EXCEPT ![e] = cap[e].epoch]
        /\ pc[e] = "seek" /\ msg' = msg /\ epoch' = epoch
    BY <1>5 DEF Seek, Step
  <2>2. /\ msg[e] >= 1
        /\ asked[e] <= cap[e].epoch /\ cap[e].epoch <= epoch
    BY <1>2, <2>1 DEF SeekFact
  <2>3. CASE d = e
    <3>1. asked'[d] = cap[d].epoch
      BY <2>1, <2>3 DEF TypeOK
    <3> QED
      BY <1>1, <2>1, <2>2, <2>3, <3>1
  <2>4. CASE d # e
    BY <2>1, <2>4 DEF TypeOK
  <2> QED
    BY <2>3, <2>4
<1>6. ASSUME NEW e \in Decoders, Ack(e) PROVE
         /\ epoch' = epoch /\ asked' = asked
         /\ \/ msg'[d] = msg[d]
            \/ msg'[d] > 0
            \/ msg[d] > 0 /\ msg'[d] = 0 /\ asked[d] = epoch
  <2>1. /\ msg' = [msg EXCEPT ![e] = @ - 1]
        /\ pc[e] = "ack" /\ epoch' = epoch /\ asked' = asked
    BY <1>6 DEF Ack, Step
  <2>2. msg[e] >= 1 /\ (asked[e] # epoch => msg[e] >= 2)
    BY <1>2, <2>1 DEF SeekFact
  <2>3. CASE d = e
    <3>1. msg'[d] = msg[d] - 1
      BY <2>1, <2>3 DEF TypeOK
    <3> QED
      BY <1>1, <2>1, <2>2, <2>3, <3>1
  <2>4. CASE d # e
    BY <2>1, <2>4 DEF TypeOK
  <2> QED
    BY <2>3, <2>4
<1>7. CASE \E e \in Decoders : Seek(e) \/ Ack(e)
  <2>1. PICK e \in Decoders : Seek(e) \/ Ack(e)
    BY <1>7
  <2>2. CASE Seek(e)
    BY <1>1, <1>5, <2>2
  <2>3. CASE Ack(e)
    BY <1>1, <1>6, <2>3
  <2> QED
    BY <2>1, <2>2, <2>3
<1> QED
  BY <1>3, <1>4, <1>7, SeekVariables

(* The counters of jump messages and the threads that take them implement  *)
(* SeekService, both for the audio and for the video decoder: no thread is *)
(* ever sent back to an older position, and none rests before it has been  *)
(* sent to the newest.                                                     *)
THEOREM SeeksImplemented == Spec => SeeksServed
<1>1. Init => AudioSeeks!Init /\ VideoSeeks!Init
  BY DEF Init, AudioSeeks!Init, VideoSeeks!Init, Decoders
<1>2. TypeOK /\ SeekInv /\ [Next]_vars => [AudioSeeks!Next]_<<epoch, asked["audio"], msg["audio"] > 0>>
  <2> SUFFICES ASSUME TypeOK, SeekInv, [Next]_vars
               PROVE  AudioSeeks!Next \/ UNCHANGED <<epoch, asked["audio"], msg["audio"] > 0>>
    OBVIOUS
  <2> QED
    BY ServiceStep
       DEF Decoders, AudioSeeks!Next, AudioSeeks!Request, AudioSeeks!Refresh,
           AudioSeeks!Serve, AudioSeeks!Settle
<1>3. TypeOK /\ SeekInv /\ [Next]_vars => [VideoSeeks!Next]_<<epoch, asked["video"], msg["video"] > 0>>
  <2> SUFFICES ASSUME TypeOK, SeekInv, [Next]_vars
               PROVE  VideoSeeks!Next \/ UNCHANGED <<epoch, asked["video"], msg["video"] > 0>>
    OBVIOUS
  <2> QED
    BY ServiceStep
       DEF Decoders, VideoSeeks!Next, VideoSeeks!Request, VideoSeeks!Refresh,
           VideoSeeks!Serve, VideoSeeks!Settle
<1> QED
  BY <1>1, <1>2, <1>3, InductiveInvariant, PTL
     DEF Spec, SeeksServed, AudioSeeks!Spec, VideoSeeks!Spec

-----------------------------------------------------------------------------
(* The locks, the errors and the end.                                      *)

(* Where a thread holds alter_mutex from one step to the next.             *)
Altering == {"raise", "expire", "toggle", "notify"}

(* Each mutex is locked by the one thread that stands where the code holds *)
(* it, a waiting thread is registered where it waits, and before begin()   *)
(* nothing runs and no error is set.                                       *)
LockInv ==
  /\ \A t \in Threads : pc[t] \in Altering <=> alter_mutex = t
  /\ \A t \in Threads : pc[t] = "park" <=> resume_notify_mutex = t
  /\ \A t \in Threads : pc[t] = "napping" <=> ex_noti_mtx = t
  /\ \A t \in exit_cond : pc[t] = "asleep"
  /\ \A t \in resume_cond : pc[t] = "parked"
  /\ pc["main"] = "begin" => ~error /\ \A t \in Workers : pc[t] = "unborn"

(* What join() left behind stays as it is.                                 *)
EndInv ==
  Over => /\ \A t \in Workers : pc[t] = "done"
          /\ error = (pc["main"] = "failed")

RunInv == LockInv /\ ErrorStops /\ EndInv

(* The steps the workers share keep the locks in order ...                 *)
LEMMA SharedRuns ==
  ASSUME TypeOK, RunInv, NEW t \in Workers,
         Loop(t) \/ (t \in Decoders /\ Park(t)) \/ Nap(t)
  PROVE  RunInv'
<1> USE DEF Step, Goto, Labels, Over, clock, decoding, mainVars, mutexes, conds,
          Threads, Workers, Decoders, Nobody
<1>1. CASE LoopExit(t)
  BY <1>1 DEF TypeOK, RunInv, LockInv, ErrorStops, EndInv, LoopExit, Altering
<1>2. CASE LoopPlaying(t)
  BY <1>2 DEF TypeOK, RunInv, LockInv, ErrorStops, EndInv, LoopPlaying, Work, Altering
<1>3. CASE LoopPaused(t)
  BY <1>3 DEF TypeOK, RunInv, LockInv, ErrorStops, EndInv, LoopPaused, Altering
<1>4. CASE t \in Decoders /\ ParkWait(t)
  BY <1>4 DEF TypeOK, RunInv, LockInv, ErrorStops, EndInv, ParkWait, Altering
<1>5. CASE t \in Decoders /\ ParkLeave(t)
  BY <1>5 DEF TypeOK, RunInv, LockInv, ErrorStops, EndInv, ParkLeave, Work, Altering
<1>6. CASE t \in Decoders /\ ParkWake(t)
  BY <1>6 DEF TypeOK, RunInv, LockInv, ErrorStops, EndInv, ParkWake, Altering
<1>7. CASE t \in Decoders /\ ParkTimeout(t)
  BY <1>7 DEF TypeOK, RunInv, LockInv, ErrorStops, EndInv, ParkTimeout, Altering
<1>8. CASE NapLock(t)
  BY <1>8 DEF TypeOK, RunInv, LockInv, ErrorStops, EndInv, NapLock, Altering
<1>9. CASE NapWait(t)
  BY <1>9 DEF TypeOK, RunInv, LockInv, ErrorStops, EndInv, NapWait, Altering
<1>10. CASE NapSkip(t)
  BY <1>10 DEF TypeOK, RunInv, LockInv, ErrorStops, EndInv, NapSkip, Altering
<1>11. CASE NapWake(t)
  BY <1>11 DEF TypeOK, RunInv, LockInv, ErrorStops, EndInv, NapWake, Altering
<1>12. CASE NapTimeout(t)
  BY <1>12 DEF TypeOK, RunInv, LockInv, ErrorStops, EndInv, NapTimeout, Altering
<1> QED
  BY <1>1, <1>2, <1>3, <1>4, <1>5, <1>6, <1>7, <1>8, <1>9, <1>10, <1>11, <1>12 DEF Loop, Park, Nap

(* ... and so does an exception: alter_mutex stays with the thread that    *)
(* set the error until in_use is cleared.                                  *)
LEMMA FailRuns ==
  ASSUME TypeOK, RunInv, NEW t \in Threads,
         Fail(t)
  PROVE  RunInv'
<1> USE DEF Step, Goto, Labels, Over, clock, decoding, mainVars, mutexes, conds,
          Threads, Workers, Decoders, Nobody
<1>1. CASE Catch(t)
  BY <1>1 DEF TypeOK, RunInv, LockInv, ErrorStops, EndInv, Catch, Altering
<1>2. ASSUME NEW next \in {"done", "dispatch"}, Raise(t, next) PROVE RunInv'
  BY <1>2 DEF TypeOK, RunInv, LockInv, ErrorStops, EndInv, Raise, dispatch_exit, Altering
<1> QED
  BY <1>1, <1>2 DEF Fail

(* A worker that moves between two places where nothing is held.           *)
Free == Labels \ (Altering \union {"park", "parked", "napping", "asleep", "unborn", "done"})

LEMMA FreeRuns ==
  ASSUME TypeOK, RunInv, NEW t \in Workers, pc[t] \in Free,
         NEW l \in Free \union {"done"}, Goto(t, l),
         UNCHANGED <<in_use, error, mutexes, conds>>
  PROVE  RunInv'
BY DEF Goto, Over, mutexes, conds, Threads, Workers, Decoders, Nobody, TypeOK,
       RunInv, LockInv, ErrorStops, EndInv, Altering, Labels, Free

(* Decoding takes alter_mutex for the length of one step only.             *)
LEMMA DecodingRuns ==
  ASSUME TypeOK, RunInv, NEW d \in Decoders,
         Decode(d) \/ DecodeThrow(d)
           \/ (\E l \in {"clear", "seek"} : Sample(d, l)) \/ Seek(d)
           \/ Ack(d)
  PROVE  RunInv'
<1> USE DEF Step, Goto, Labels, Over, clock, decoding, mainVars, mutexes, conds,
          Threads, Workers, Decoders, Nobody
<1>1. CASE Decode(d)
  BY <1>1 DEF TypeOK, RunInv, LockInv, ErrorStops, EndInv, Decode, Altering
<1>2. CASE DecodeThrow(d)
  <2>1. Goto(d, "catch") /\ UNCHANGED <<in_use, error, mutexes, conds>>
    BY <1>2 DEF DecodeThrow
  <2>2. pc[d] \in Free /\ "catch" \in Free
    BY <1>2 DEF DecodeThrow, Free, Altering
  <2> QED
    BY <2>1, <2>2, FreeRuns
<1>3. ASSUME NEW l \in {"clear", "seek"}, Sample(d, l) PROVE RunInv'
  BY <1>3 DEF TypeOK, RunInv, LockInv, ErrorStops, EndInv, Sample, Altering
<1>4. CASE Seek(d)
  BY <1>4 DEF TypeOK, RunInv, LockInv, ErrorStops, EndInv, Seek, Altering
<1>5. CASE Ack(d)
  BY <1>5 DEF TypeOK, RunInv, LockInv, ErrorStops, EndInv, Ack, Altering
<1> QED
  BY <1>1, <1>2, <1>3, <1>4, <1>5

(* The audio thread ...                                                    *)
LEMMA AudioRuns ==
  ASSUME TypeOK, RunInv,
         AudioOpen \/ AudioClear \/ AudioWrite \/ AudioFull \/ AudioRefused
           \/ AudioDelivered \/ BufferWake("audio")
  PROVE  RunInv'
<1> USE DEF Step, Goto, Labels, Over, clock, decoding, mainVars, mutexes, conds,
          Threads, Workers, Decoders, Nobody
<1>1. CASE AudioOpen
  <2>1. PICK l \in {"top", "catch", "done"} : Goto("audio", l)
    BY <1>1 DEF AudioOpen, Opened
  <2>2. pc["audio"] \in Free /\ l \in Free \union {"done"}
    BY <1>1 DEF AudioOpen, Free, Altering
  <2>3. UNCHANGED <<in_use, error, mutexes, conds>>
    BY <1>1 DEF AudioOpen
  <2> QED
    BY <2>1, <2>2, <2>3, FreeRuns
<1>2. CASE AudioClear
  BY <1>2 DEF TypeOK, RunInv, LockInv, ErrorStops, EndInv, AudioClear, Altering
<1>3. CASE AudioWrite
  BY <1>3 DEF TypeOK, RunInv, LockInv, ErrorStops, EndInv, AudioWrite, Altering
<1>4. CASE AudioDelivered
  BY <1>4 DEF TypeOK, RunInv, LockInv, ErrorStops, EndInv, AudioDelivered, Altering
<1>5. CASE AudioFull \/ BufferWake("audio")
  <2>1. PICK l \in {"waiting", "woken"} : Goto("audio", l)
    BY <1>5 DEF AudioFull, BufferWake
  <2>2. pc["audio"] \in Free /\ l \in Free
    BY <1>5 DEF AudioFull, BufferWake, Free, Altering
  <2>3. UNCHANGED <<in_use, error, mutexes, conds>>
    BY <1>5 DEF AudioFull, BufferWake
  <2> QED
    BY <2>1, <2>2, <2>3, FreeRuns
<1>6. CASE AudioRefused
  BY <1>6 DEF TypeOK, RunInv, LockInv, ErrorStops, EndInv, AudioRefused, Altering
<1> QED
  BY <1>1, <1>2, <1>3, <1>4, <1>5, <1>6

(* ... the video thread ...                                                *)
LEMMA VideoRuns ==
  ASSUME TypeOK, RunInv,
         VideoOpen \/ ImageShow \/ ImageThrow \/ VideoPublish \/ VideoLate
           \/ VideoNothing \/ VideoPeek \/ VideoScarce \/ BufferWake("video")
  PROVE  RunInv'
<1> USE DEF Step, Goto, Labels, Over, clock, decoding, mainVars, mutexes, conds,
          Threads, Workers, Decoders, Nobody
<1>1. CASE VideoOpen
  <2>1. PICK l \in {"top", "catch", "image", "done"} : Goto("video", l)
    BY <1>1 DEF VideoOpen, Opened
  <2>2. pc["video"] \in Free /\ l \in Free \union {"done"}
    BY <1>1 DEF VideoOpen, Free, Altering
  <2>3. UNCHANGED <<in_use, error, mutexes, conds>>
    BY <1>1 DEF VideoOpen
  <2> QED
    BY <2>1, <2>2, <2>3, FreeRuns
<1>2. CASE ImageShow
  BY <1>2 DEF TypeOK, RunInv, LockInv, ErrorStops, EndInv, ImageShow, Altering
<1>3. CASE ImageThrow
  BY <1>3 DEF TypeOK, RunInv, LockInv, ErrorStops, EndInv, ImageThrow, Altering
<1>4. CASE VideoPublish
  <2>1. PICK l \in {"top", "nap"} : Goto("video", l)
    BY <1>4 DEF VideoPublish
  <2>2. pc["video"] \in Free /\ l \in Free \union {"done"}
    BY <1>4 DEF VideoPublish, Free, Altering
  <2>3. UNCHANGED <<in_use, error, mutexes, conds>>
    BY <1>4 DEF VideoPublish
  <2> QED
    BY <2>1, <2>2, <2>3, FreeRuns
<1>5. CASE VideoLate
  BY <1>5 DEF TypeOK, RunInv, LockInv, ErrorStops, EndInv, VideoLate, Altering
<1>6. CASE VideoNothing
  BY <1>6 DEF TypeOK, RunInv, LockInv, ErrorStops, EndInv, VideoNothing, Altering
<1>7. CASE VideoPeek
  <2>1. Goto("video", "deliver")
    BY <1>7 DEF VideoPeek
  <2>2. pc["video"] \in Free /\ "deliver" \in Free
    BY <1>7 DEF VideoPeek, Free, Altering
  <2>3. UNCHANGED <<in_use, error, mutexes, conds>>
    BY <1>7 DEF VideoPeek
  <2> QED
    BY <2>1, <2>2, <2>3, FreeRuns
<1>8. CASE VideoScarce \/ BufferWake("video")
  <2>1. PICK l \in {"waiting", "woken", "nap"} : Goto("video", l)
    BY <1>8 DEF VideoScarce, BufferWake
  <2>2. pc["video"] \in Free /\ l \in Free
    BY <1>8 DEF VideoScarce, BufferWake, Free, Altering
  <2>3. UNCHANGED <<in_use, error, mutexes, conds>>
    BY <1>8 DEF VideoScarce, BufferWake
  <2> QED
    BY <2>1, <2>2, <2>3, FreeRuns
<1> QED
  BY <1>1, <1>2, <1>3, <1>4, <1>5, <1>6, <1>7, <1>8

(* ... and the duration thread, which holds it over its own dispatch_exit. *)
LEMMA DurationRuns ==
  ASSUME TypeOK, RunInv, DurationOpen \/ DurationCheck \/ DurationExpire
  PROVE  RunInv'
<1> USE DEF Step, Goto, Labels, Over, clock, decoding, mainVars, mutexes, conds,
          Threads, Workers, Decoders, Nobody
<1>1. CASE DurationOpen
  BY <1>1 DEF TypeOK, RunInv, LockInv, ErrorStops, EndInv, DurationOpen, Altering
<1>2. CASE DurationCheck
  <2>1. /\ in_use /\ alter_mutex = Nobody
        /\ UNCHANGED <<in_use, error, ex_noti_mtx, resume_notify_mutex, conds>>
    BY <1>2 DEF DurationCheck
  <2>2. CASE pos = "before"
    <3>1. Step("duration", "top", "nap") /\ alter_mutex' = Nobody
      BY <1>2, <2>2 DEF DurationCheck
    <3> QED
      BY <2>1, <3>1 DEF TypeOK, RunInv, LockInv, ErrorStops, EndInv, Altering
  <2>3. CASE pos # "before"
    <3>1. Step("duration", "top", "expire") /\ alter_mutex' = "duration"
      BY <1>2, <2>3 DEF DurationCheck
    <3> QED
      BY <2>1, <3>1 DEF TypeOK, RunInv, LockInv, ErrorStops, EndInv, Altering
  <2> QED
    BY <2>2, <2>3
<1>3. CASE DurationExpire
  BY <1>3 DEF TypeOK, RunInv, LockInv, ErrorStops, EndInv, DurationExpire, dispatch_exit, Altering
<1> QED
  BY <1>1, <1>2, <1>3

(* The owner holds it over a toggle; Joined finds every thread ended.      *)
LEMMA OwnerRuns ==
  ASSUME TypeOK, RunInv, begin \/ MainTick \/ MainLeave \/ pause \/ resume \/ ResumeNotify
           \/ KeysDone \/ JumpStop \/ MainJump \/ MainDispatch \/ join
           \/ Joined \/ StartAudio \/ JumpStart \/ Resize
  PROVE  RunInv'
<1> USE DEF Step, Goto, Labels, Over, clock, decoding, mainVars, mutexes, conds,
          Threads, Workers, Decoders, Nobody
<1>1. CASE begin
  BY <1>1 DEF TypeOK, RunInv, LockInv, ErrorStops, EndInv, begin, Altering
<1>2. CASE MainTick
  BY <1>2 DEF TypeOK, RunInv, LockInv, ErrorStops, EndInv, MainTick, Altering
<1>3. CASE MainLeave
  BY <1>3 DEF TypeOK, RunInv, LockInv, ErrorStops, EndInv, MainLeave, Altering
<1>4. CASE pause
  BY <1>4 DEF TypeOK, RunInv, LockInv, ErrorStops, EndInv, pause, Altering
<1>5. CASE resume
  BY <1>5 DEF TypeOK, RunInv, LockInv, ErrorStops, EndInv, resume, Altering
<1>6. CASE ResumeNotify
  BY <1>6 DEF TypeOK, RunInv, LockInv, ErrorStops, EndInv, ResumeNotify, Altering
<1>7. CASE KeysDone
  BY <1>7 DEF TypeOK, RunInv, LockInv, ErrorStops, EndInv, KeysDone, Rendered, Altering
<1>8. CASE JumpStop
  BY <1>8 DEF TypeOK, RunInv, LockInv, ErrorStops, EndInv, JumpStop, Altering
<1>9. CASE MainJump
  BY <1>9 DEF TypeOK, RunInv, LockInv, ErrorStops, EndInv, MainJump, Altering
<1>10. CASE MainDispatch
  BY <1>10 DEF TypeOK, RunInv, LockInv, ErrorStops, EndInv, MainDispatch, dispatch_exit, Altering
<1>11. CASE join
  BY <1>11 DEF TypeOK, RunInv, LockInv, ErrorStops, EndInv, join, Altering
<1>12. CASE Joined
  BY <1>12 DEF TypeOK, RunInv, LockInv, ErrorStops, EndInv, Joined, Altering
<1>13. CASE StartAudio
  BY <1>13 DEF TypeOK, RunInv, LockInv, ErrorStops, EndInv, StartAudio, Altering
<1>14. CASE JumpStart
  BY <1>14 DEF TypeOK, RunInv, LockInv, ErrorStops, EndInv, JumpStart, Rendered, Altering
<1>15. CASE Resize
  BY <1>15 DEF TypeOK, RunInv, LockInv, ErrorStops, EndInv, Resize, Altering
<1> QED
  BY <1>1, <1>2, <1>3, <1>4, <1>5, <1>6, <1>7, <1>8, <1>9, <1>10, <1>11, <1>12,
     <1>13, <1>14, <1>15

(* The user, the clock and the audio output.                               *)
LEMMA UserRuns ==
  ASSUME TypeOK, RunInv, KeyLeave \/ KeyJump \/ KeyToggle \/ MainInterrupt \/ MainThrow
           \/ StartThrow \/ Tick \/ Consume
  PROVE  RunInv'
<1> USE DEF Step, Goto, Labels, Over, clock, decoding, mainVars, mutexes, conds,
          Threads, Workers, Decoders, Nobody
<1>1. CASE KeyLeave
  BY <1>1 DEF TypeOK, RunInv, LockInv, ErrorStops, EndInv, KeyLeave, dispatch_exit, Altering
<1>2. CASE KeyJump
  BY <1>2 DEF TypeOK, RunInv, LockInv, ErrorStops, EndInv, KeyJump, Altering
<1>3. CASE KeyToggle
  BY <1>3 DEF TypeOK, RunInv, LockInv, ErrorStops, EndInv, KeyToggle, Altering
<1>4. CASE MainInterrupt
  BY <1>4 DEF TypeOK, RunInv, LockInv, ErrorStops, EndInv, MainInterrupt, Altering
<1>5. CASE MainThrow
  <2>1. CASE Step("main", "keys", "catch") /\ UNCHANGED alter_mutex
    BY <1>5, <2>1 DEF TypeOK, RunInv, LockInv, ErrorStops, EndInv, MainThrow, Altering
  <2>3. CASE Step("main", "restart", "catch") /\ UNCHANGED alter_mutex
    BY <1>5, <2>3 DEF TypeOK, RunInv, LockInv, ErrorStops, EndInv, MainThrow, Altering
  <2>2. CASE Step("main", "toggle", "catch") /\ alter_mutex' = Nobody
    BY <1>5, <2>2 DEF TypeOK, RunInv, LockInv, ErrorStops, EndInv, MainThrow, Altering
  <2> QED
    BY <1>5, <2>1, <2>2, <2>3 DEF MainThrow
<1>6. CASE Tick
  BY <1>6 DEF TypeOK, RunInv, LockInv, ErrorStops, EndInv, Tick, Altering
<1>7. CASE Consume
  BY <1>7 DEF TypeOK, RunInv, LockInv, ErrorStops, EndInv, Consume, Altering
<1>8. CASE StartThrow
  BY <1>8 DEF TypeOK, RunInv, LockInv, ErrorStops, EndInv, StartThrow, Altering
<1> QED
  BY <1>1, <1>2, <1>3, <1>4, <1>5, <1>6, <1>7, <1>8

(* The locks, the errors and the end are as they should be in every state. *)
LEMMA RunInvariant == Spec => []RunInv
<1>1. Init => RunInv
  BY DEF Init, RunInv, LockInv, ErrorStops, EndInv, Over, Altering,
       Threads, Workers, Decoders, Nobody
<1>2. TypeOK /\ RunInv /\ [Next]_vars => RunInv'
  <2> SUFFICES ASSUME TypeOK, RunInv, [Next]_vars PROVE RunInv'
    OBVIOUS
  <2> USE DEF Threads, Workers, Decoders
  <2>1. CASE AudioNext
    BY <2>1, SharedRuns, FailRuns, DecodingRuns, AudioRuns
       DEF AudioNext, Loop, Park, Fail, AudioSample, AudioAck
  <2>2. CASE VideoNext
    BY <2>2, SharedRuns, FailRuns, DecodingRuns, VideoRuns
       DEF VideoNext, Loop, Park, Nap, Fail, VideoSample, VideoAck
  <2>3. CASE DurationNext
    BY <2>3, SharedRuns, DurationRuns DEF DurationNext, Loop, Nap
  <2>4. CASE MainNext
    BY <2>4, FailRuns, OwnerRuns DEF MainNext, Fail
  <2>5. CASE User \/ Tick \/ Consume
    BY <2>5, UserRuns DEF User
  <2>6. CASE Timeouts
    BY <2>6, SharedRuns DEF Timeouts, Park, Nap
  <2>7. CASE Finished \/ UNCHANGED vars
    BY <2>7 DEF Finished, vars, RunInv, LockInv, ErrorStops, EndInv, Over
  <2> QED
    BY <2>1, <2>2, <2>3, <2>4, <2>5, <2>6, <2>7 DEF Next
<1> QED
  BY <1>1, <1>2, TypeCorrect, PTL DEF Spec

(* From the moment an error is set, the thread that set it keeps           *)
(* alter_mutex until it has cleared in_use: no other thread ever sees a    *)
(* playback that has failed and goes on.                                   *)
THEOREM ErrorsStop == Spec => []ErrorStops
BY RunInvariant, PTL DEF RunInv

(* When the owner goes on, the three threads have ended, no mutex is       *)
(* locked, nobody waits, and the error it passes on is the one they left.  *)
THEOREM EndsClean == Spec => []CleanEnd
<1>1. TypeOK /\ RunInv => CleanEnd
  BY DEF TypeOK, RunInv, LockInv, EndInv, CleanEnd, Over, Altering,
       Threads, Workers, Decoders, Nobody
<1> QED
  BY <1>1, TypeCorrect, RunInvariant, PTL

-----------------------------------------------------------------------------
(* Frames, positions and the ring buffer.                                  *)

(* Where a thread waits in the ring buffer.                                *)
Waits == {"waiting", "woken"}

(* What a thread carries from one step to the next belongs to the position *)
(* its decoder was sent to last, unless the demuxer refused to go there.   *)
PairFact(d) ==
  /\ pc[d] = "ack" => asked[d] = cap[d].epoch
  /\ pc[d] = "peek" \/ (d = "video" /\ pc[d] \in Waits) => Work(d) = "peek"
  /\ ~media.refuses =>
       /\ at[d] = asked[d]
       /\ pc[d] \in {"sample", "ack"} => hold[d].epoch = asked[d]
       /\ pc[d] \in {"deliver"} \union Waits /\ Work(d) = "decode"
            => hold[d].epoch = cap[d].epoch

PairInv == \A d \in Decoders : PairFact(d)

(* The ring buffer is cleared before the decoder is sent away: its start   *)
(* time is the position asked for in between, the one the decoder reads    *)
(* from otherwise.                                                         *)
BufferInv ==
  /\ buf.start # epoch => msg["audio"] >= 1
  /\ pc["audio"] = "seek" => buf.start = cap["audio"].epoch
  /\ pc["audio"] = "ack" => buf.start = asked["audio"]
  /\ ~media.refuses =>
       /\ pc["audio"] \in {"deliver"} \union Waits => hold["audio"].epoch = buf.start
       /\ \A i \in 1 .. Len(buf.held) : buf.held[i] = buf.start

DataInv == PairInv /\ BufferInv

(* A step that leaves the data alone and takes no thread into the middle   *)
(* of an iteration keeps DataInv.                                          *)
Quiet ==
  /\ UNCHANGED <<media, epoch, msg, cap, asked, at, hold, buf>>
  /\ \A d \in Decoders :
       \/ pc'[d] = pc[d]
       \/ pc'[d] \in Labels \ ({"sample", "clear", "seek", "ack", "deliver", "peek"} \union Waits)
       \/ pc'[d] = Work(d)

LEMMA QuietKeeps ==
  ASSUME TypeOK, DataInv, Quiet
  PROVE  DataInv'
<1> USE DEF Quiet, Labels, Decoders, Work, DataInv, Waits
<1>1. PairInv'
  BY DEF PairInv, PairFact
<1>2. BufferInv'
  BY DEF BufferInv
<1> QED
  BY <1>1, <1>2

(* The shared steps are of that kind ...                                   *)
LEMMA SharedQuiet ==
  ASSUME TypeOK, NEW t \in Threads,
         \/ t \in Workers /\ Loop(t)
         \/ t \in Decoders /\ Park(t)
         \/ t \in Workers /\ Nap(t)
         \/ Fail(t)
  PROVE  Quiet
<1> USE DEF TypeOK, Quiet, Waits, Step, Goto, Labels, clock, decoding, Threads, Workers,
          Decoders
<1>1. CASE t \in Workers /\ Loop(t)
  BY <1>1 DEF Loop, LoopExit, LoopPlaying, LoopPaused
<1>2. CASE t \in Decoders /\ Park(t)
  BY <1>2 DEF Park, ParkWait, ParkLeave, ParkWake, ParkTimeout
<1>3. CASE t \in Workers /\ Nap(t)
  BY <1>3 DEF Nap, NapLock, NapWait, NapSkip, NapWake, NapTimeout
<1>4. CASE Catch(t)
  BY <1>4 DEF Catch
<1>5. ASSUME NEW next \in {"done", "dispatch"}, Raise(t, next) PROVE Quiet
  BY <1>5 DEF Raise
<1> QED
  BY <1>1, <1>2, <1>3, <1>4, <1>5 DEF Fail

(* ... and so are those of the duration thread, of the owner but for its   *)
(* jump, of the user and of the clock.                                     *)
LEMMA OwnerQuiet ==
  ASSUME TypeOK,
         \/ DurationOpen \/ DurationCheck \/ DurationExpire
         \/ begin \/ MainTick \/ MainLeave \/ pause \/ resume \/ ResumeNotify
         \/ KeysDone \/ JumpStop \/ MainDispatch \/ join \/ Joined
         \/ StartAudio \/ JumpStart \/ Resize \/ User \/ Tick
  PROVE  Quiet
<1> USE DEF TypeOK, Quiet, Waits, Step, Goto, Labels, clock, decoding, Threads, Workers,
          Decoders
<1>1. CASE DurationOpen \/ DurationCheck \/ DurationExpire
  BY <1>1 DEF DurationOpen, DurationCheck, DurationExpire
<1>2. CASE begin
  BY <1>2 DEF begin
<1>3. CASE MainTick \/ MainLeave \/ pause \/ resume \/ ResumeNotify
  BY <1>3 DEF MainTick, MainLeave, pause, resume, ResumeNotify
<1>4. CASE KeysDone \/ JumpStop \/ MainDispatch \/ join \/ Joined
  BY <1>4 DEF KeysDone, JumpStop, MainDispatch, join, Joined, Rendered
<1>5. CASE User \/ Tick
  BY <1>5 DEF User, KeyLeave, KeyJump, KeyToggle, MainInterrupt, MainThrow,
       StartThrow, Tick
<1>6. CASE StartAudio \/ JumpStart \/ Resize
  BY <1>6 DEF StartAudio, JumpStart, Resize, Rendered
<1> QED
  BY <1>1, <1>2, <1>3, <1>4, <1>5, <1>6

(* So is what the decoding threads do outside an iteration.                *)
LEMMA OutsideQuiet ==
  ASSUME TypeOK,
         AudioOpen \/ VideoOpen \/ ImageShow \/ ImageThrow
  PROVE  Quiet
<1> USE DEF TypeOK, Quiet, Waits, Step, Goto, Labels, clock, decoding, Threads, Workers,
          Decoders
<1>1. CASE AudioOpen
  BY <1>1 DEF AudioOpen, Opened
<1>2. CASE VideoOpen
  BY <1>2 DEF VideoOpen, Opened
<1>3. CASE ImageShow \/ ImageThrow
  BY <1>3 DEF ImageShow, ImageThrow
<1> QED
  BY <1>1, <1>2, <1>3

(* The steps of an iteration, and an exception in it.  A time that no message contradicts is  *)
(* the time the decoder stands at (SeekFact); a seek replaces the frames   *)
(* with ones from its target.                                              *)
LEMMA DecodingData ==
  ASSUME TypeOK, SeekInv, SeekInv', DataInv, NEW d \in Decoders,
         \/ Decode(d) \/ (\E l \in {"clear", "seek"} : Sample(d, l) /\ (l = "seek" => d = "video"))
         \/ Seek(d) \/ Ack(d) \/ DecodeThrow(d)
  PROVE  DataInv'
<1> USE DEF Step, Goto, clock, decoding, DataInv, Waits
<1>1. d = "audio" \/ d = "video"
  BY DEF Decoders
<1>2. CASE Decode(d)
  BY <1>2 DEF TypeOK, Decode, PairInv, PairFact, BufferInv, Work, Threads, Workers, Decoders
<1>3. ASSUME NEW l \in {"clear", "seek"}, Sample(d, l), l = "seek" => d = "video" PROVE DataInv'
  BY <1>3 DEF TypeOK, SeekInv, SeekFact, Sample, NoTime, PairInv, PairFact, BufferInv, Work, Threads, Workers, Decoders
<1>4. CASE Seek(d)
  BY <1>4 DEF TypeOK, Seek, SeekInv, SeekFact, PairInv, PairFact, BufferInv, Work, Threads, Workers, Decoders
<1>5. CASE Ack(d)
  BY <1>5 DEF TypeOK, Ack, NoTime, SeekInv, SeekFact, PairInv, PairFact, BufferInv, Work, Threads, Workers, Decoders
<1>6. CASE DecodeThrow(d)
  <2>1. /\ pc' = [pc EXCEPT ![d] = "catch"]
        /\ UNCHANGED <<media, epoch, msg, asked, at, buf>>
        /\ \A e \in Decoders \ {d} : cap'[e] = cap[e] /\ hold'[e] = hold[e]
    BY <1>6 DEF TypeOK, DecodeThrow, EndOfScope, Decoders
  <2> QED
    BY <1>1, <2>1 DEF TypeOK, PairInv, PairFact, BufferInv, Work, Threads, Workers, Decoders
<1> QED
  BY <1>2, <1>3, <1>4, <1>5, <1>6

(* The buffer is emptied and renamed in one step, filled with what the     *)
(* audio thread holds, and drained from the front.                         *)
LEMMA BufferData ==
  ASSUME TypeOK, SeekInv, DataInv,
         \/ AudioClear \/ AudioWrite \/ AudioFull \/ AudioRefused \/ AudioDelivered
         \/ BufferWake("audio") \/ Consume
  PROVE  DataInv'
<1> USE DEF Step, Goto, clock, decoding, DataInv, Waits
<1>1. CASE AudioClear
  <2>1. /\ pc["audio"] = "clear" /\ pc' = [pc EXCEPT !["audio"] = "seek"]
        /\ buf' = [start |-> cap["audio"].epoch, held |-> <<>>]
        /\ UNCHANGED <<media, epoch, msg, cap, asked, at, hold>>
    BY <1>1 DEF AudioClear
  <2>2. PairInv'
    BY <2>1 DEF TypeOK, PairInv, PairFact, Work, Threads, Workers, Decoders
  <2>3. cap["audio"].epoch # epoch => msg["audio"] >= 1
    BY <2>1 DEF SeekInv, SeekFact, Decoders
  <2>4. BufferInv'
    BY <2>1, <2>3 DEF TypeOK, BufferInv, Threads, Workers, Decoders
  <2> QED
    BY <2>2, <2>4
<1>2. CASE AudioWrite
  <2>1. /\ pc["audio"] \in {"deliver", "woken"} /\ pc' = [pc EXCEPT !["audio"] = "deliver"]
        /\ hold' = [hold EXCEPT !["audio"].n = @ - 1]
        /\ UNCHANGED <<media, epoch, msg, cap, asked, at>>
    BY <1>2 DEF AudioWrite
  <2>2. /\ \A d \in Decoders : hold'[d].epoch = hold[d].epoch
        /\ pc'["audio"] = "deliver" /\ pc'["video"] = pc["video"]
    BY <2>1 DEF TypeOK, Threads, Workers, Decoders
  <2>3. PairInv'
    BY <2>1, <2>2 DEF PairInv, PairFact, Work, Decoders
  <2>4. hold["audio"].epoch \in Nat /\ buf.held \in Seq(Nat) /\ buf.start \in Nat
    BY DEF TypeOK, Decoders
  <2>5. buf'.start = buf.start /\ buf'.held = Append(buf.held, hold["audio"].epoch)
    BY <1>2 DEF TypeOK, AudioWrite
  <2>6. ASSUME ~media.refuses PROVE \A i \in 1 .. Len(buf'.held) : buf'.held[i] = buf.start
    BY <2>1, <2>4, <2>5, <2>6 DEF BufferInv
  <2> QED
    BY <2>1, <2>2, <2>3, <2>5, <2>6 DEF BufferInv, Decoders
<1>3. CASE AudioDelivered
  BY <1>3 DEF TypeOK, AudioDelivered, EndOfScope, NoFrames, NoTime, PairInv,
       PairFact, BufferInv, Work, Threads, Workers, Decoders
<1>4. CASE Consume
  <2>1. /\ buf.held # <<>> /\ buf' = [buf EXCEPT !.held = Tail(@)]
        /\ UNCHANGED <<media, pc, epoch, msg, cap, asked, at, hold>>
    BY <1>4 DEF Consume
  <2>2. buf'.start = buf.start /\ buf'.held = Tail(buf.held) /\ buf.held \in Seq(Nat)
    BY <2>1 DEF TypeOK
  <2>3. PairInv'
    BY <2>1 DEF PairInv, PairFact, Work
  <2>4. ASSUME ~media.refuses PROVE \A i \in 1 .. Len(buf'.held) : buf'.held[i] = buf.start
    <3>1. /\ Len(buf'.held) = Len(buf.held) - 1 /\ Len(buf.held) \in Nat
          /\ \A i \in 1 .. Len(buf'.held) : buf'.held[i] = buf.held[i + 1]
      BY <2>1, <2>2
    <3>2. \A i \in 1 .. Len(buf.held) : buf.held[i] = buf.start
      BY <2>4 DEF BufferInv
    <3>3. \A i \in 1 .. Len(buf'.held) : i + 1 \in 1 .. Len(buf.held)
      BY <3>1
    <3> QED
      BY <3>1, <3>2, <3>3
  <2> QED
    BY <2>1, <2>2, <2>3, <2>4 DEF BufferInv
<1>5. CASE AudioFull \/ BufferWake("audio")
  <2>1. PICK l \in Waits : Step("audio", IF l = "woken" THEN "waiting" ELSE "deliver", l)
    BY <1>5 DEF AudioFull, BufferWake
  <2>2. UNCHANGED <<media, epoch, msg, cap, asked, at, hold, buf>>
    BY <1>5 DEF AudioFull, BufferWake
  <2>3. /\ pc["audio"] \in {"deliver"} \union Waits
        /\ pc'["audio"] \in Waits /\ pc'["video"] = pc["video"]
    BY <2>1 DEF TypeOK, Threads, Workers, Decoders
  <2> QED
    BY <2>2, <2>3 DEF PairInv, PairFact, BufferInv, Work, Decoders
<1>6. CASE AudioRefused
  <2>1. /\ pc["audio"] = "woken" /\ pc' = [pc EXCEPT !["audio"] = "deliver"]
        /\ hold' = hold \/ hold' = [hold EXCEPT !["audio"].n = @ - 1]
        /\ UNCHANGED <<media, epoch, msg, cap, asked, at, buf>>
    BY <1>6 DEF AudioRefused
  <2>2. /\ \A d \in Decoders : hold'[d].epoch = hold[d].epoch
        /\ pc'["audio"] = "deliver" /\ pc'["video"] = pc["video"]
    BY <2>1 DEF TypeOK, Threads, Workers, Decoders
  <2> QED
    BY <2>1, <2>2 DEF PairInv, PairFact, BufferInv, Work, Decoders
<1> QED
  BY <1>1, <1>2, <1>3, <1>4, <1>5, <1>6

(* The video thread shows its frame, drops it, or visualizes the buffer.   *)
LEMMA VideoData ==
  ASSUME TypeOK, DataInv,
         \/ VideoPublish \/ VideoLate \/ VideoNothing \/ VideoPeek \/ VideoScarce
         \/ BufferWake("video")
  PROVE  DataInv'
<1> USE DEF Step, Goto, clock, decoding, DataInv, Waits
<1>1. ASSUME NEW l \in {"top", "nap", "deliver", "waiting", "woken"}, Goto("video", l)
      PROVE  pc'["audio"] = pc["audio"] /\ pc'["video"] = l
  BY <1>1 DEF TypeOK, Threads, Workers, Decoders
<1>2. ASSUME NEW l \in {"top", "nap"}, Goto("video", l),
             UNCHANGED <<media, epoch, msg, asked, at, buf>>,
             hold'["audio"] = hold["audio"], cap'["audio"] = cap["audio"]
      PROVE  DataInv'
  <2>1. pc'["audio"] = pc["audio"] /\ pc'["video"] = l
    BY <1>1, <1>2
  <2> QED
    BY <1>2, <2>1 DEF PairInv, PairFact, BufferInv, Work, Decoders
<1>3. CASE VideoPublish \/ VideoLate \/ VideoNothing
  <2>1. PICK l \in {"top", "nap"} : Goto("video", l)
    BY <1>3 DEF VideoPublish, VideoLate, VideoNothing
  <2>2. UNCHANGED <<media, epoch, msg, asked, at, buf>>
    BY <1>3 DEF VideoPublish, VideoLate, VideoNothing
  <2>3. hold'["audio"] = hold["audio"] /\ cap'["audio"] = cap["audio"]
    BY <1>3 DEF TypeOK, VideoPublish, VideoLate, VideoNothing, EndOfScope, Decoders
  <2> QED
    BY <1>2, <2>1, <2>2, <2>3
<1>4. CASE VideoPeek \/ VideoScarce \/ BufferWake("video")
  <2>1. /\ pc["video"] \in {"peek"} \union Waits
        /\ UNCHANGED <<media, epoch, msg, cap, asked, at, buf>>
    BY <1>4 DEF VideoPeek, VideoScarce, BufferWake
  <2>2. Work("video") = "peek"
    BY <2>1 DEF PairInv, PairFact, Decoders
  <2>3. PICK l \in {"deliver", "nap", "waiting", "woken"} : Goto("video", l)
    BY <1>4 DEF VideoPeek, VideoScarce, BufferWake
  <2>4. hold'["audio"] = hold["audio"]
    BY <1>4 DEF TypeOK, VideoPeek, VideoScarce, BufferWake, Decoders
  <2>5. pc'["audio"] = pc["audio"] /\ pc'["video"] = l
    BY <1>1, <2>3
  <2> QED
    BY <2>1, <2>2, <2>4, <2>5 DEF PairInv, PairFact, BufferInv, Work, Decoders
<1> QED
  BY <1>3, <1>4

(* A jump moves the clock away from the buffer, and leaves the message     *)
(* that will clear it.                                                     *)
LEMMA JumpData ==
  ASSUME TypeOK, DataInv, MainJump
  PROVE  DataInv'
BY DEF Step, Goto, decoding, TypeOK, MainJump, jump_to_time, DataInv, PairInv,
       PairFact, BufferInv, Waits, Work, Threads, Workers, Decoders

(* The frames, the positions and the buffer belong together in every       *)
(* state.                                                                  *)
LEMMA DataInvariant == Spec => []DataInv
<1>1. Init => DataInv
  BY DEF Init, DataInv, PairInv, PairFact, BufferInv, Waits, NoFrames, NoTime, Threads, Workers, Decoders
<1>2. TypeOK /\ SeekInv /\ SeekInv' /\ DataInv /\ [Next]_vars => DataInv'
  <2> SUFFICES ASSUME TypeOK, SeekInv, SeekInv', DataInv, [Next]_vars PROVE DataInv'
    OBVIOUS
  <2> USE DEF Threads, Workers, Decoders
  <2>1. CASE AudioNext
    BY <2>1, SharedQuiet, OutsideQuiet, QuietKeeps, DecodingData, BufferData
       DEF AudioNext, Loop, Park, Fail, AudioSample, AudioAck
  <2>2. CASE VideoNext
    BY <2>2, SharedQuiet, OutsideQuiet, QuietKeeps, DecodingData, VideoData
       DEF VideoNext, Loop, Park, Nap, Fail, VideoSample, VideoAck
  <2>3. CASE DurationNext
    BY <2>3, SharedQuiet, OwnerQuiet, QuietKeeps DEF DurationNext, Loop, Nap
  <2>4. CASE MainNext
    BY <2>4, SharedQuiet, OwnerQuiet, QuietKeeps, JumpData DEF MainNext, Fail
  <2>5. CASE User \/ Tick \/ Consume
    BY <2>5, OwnerQuiet, QuietKeeps, BufferData
  <2>6. CASE Timeouts
    BY <2>6, SharedQuiet, QuietKeeps DEF Timeouts, Park, Nap
  <2>7. CASE Finished \/ UNCHANGED vars
    BY <2>7 DEF Finished, vars, DataInv, PairInv, PairFact, BufferInv, Waits, Work
  <2> QED
    BY <2>1, <2>2, <2>3, <2>4, <2>5, <2>6, <2>7 DEF Next
<1> QED
  BY <1>1, <1>2, InductiveInvariant, PTL DEF Spec

(* The wait of the video thread is computed from a frame and a time of the *)
(* same position, although the two are read in different critical          *)
(* sections.                                                               *)
THEOREM FramesPaired == Spec => []FramePaired
<1>1. DataInv => FramePaired
  BY DEF DataInv, PairInv, PairFact, FramePaired, Work, Decoders
<1> QED
  BY <1>1, DataInvariant, PTL

(* Every frame in the ring buffer comes from the position that its start   *)
(* time names.                                                             *)
THEOREM BufferConsistent == Spec => []BufferHoldsStart
<1>1. DataInv => BufferHoldsStart
  BY DEF DataInv, BufferInv, BufferHoldsStart
<1> QED
  BY <1>1, DataInvariant, PTL

(* Once its messages are answered, the ring buffer starts at the position  *)
(* the clock shows.                                                        *)
THEOREM BufferUpToDate == Spec => []BufferFollowsClock
<1>1. DataInv => BufferFollowsClock
  BY DEF DataInv, BufferInv, BufferFollowsClock
<1> QED
  BY <1>1, DataInvariant, PTL
=============================================================================
