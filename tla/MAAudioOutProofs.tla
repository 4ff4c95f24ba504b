---------------------------- MODULE MAAudioOutProofs ----------------------------
(***************************************************************************)
(* What stop() leaves behind and what start() relies on, for every number  *)
(* of channels, every size of the queue and of the requests, with          *)
(* time-outs and devices that do not start.  The argument: the state is    *)
(* STOPPED exactly when no fill thread runs, which is also when the queue  *)
(* and the request are empty (Ended), and each place of the main thread in *)
(* start() or stop() allows few places of the fill thread (Places).        *)
(***************************************************************************)
EXTENDS MAAudioOut, TLAPS

Running == fill \in {"up", "play"} /\ state = "PLAYING"

(* The fill thread and what it leaves.                                     *)
Ended ==
  /\ fill \in {"none", "up", "play", "down", "drain", "ended"}
  /\ state = "STOPPED" <=> fill \in {"none", "ended"}
  /\ fill \in {"none", "ended"} => queue = 0
  /\ fill \in {"none", "drain", "ended"} => left = 0

(* The main thread, and what the fill thread can be doing meanwhile.       *)
Places ==
  /\ owner \in {"idle", "starting", "thrown", "waiting", "woken", "joining"}
  /\ owner = "idle" /\ ~playing => fill = "none"
  /\ owner = "idle" /\ playing => Running
  /\ owner \in {"starting", "thrown"} => ~playing /\ Running
  /\ owner \in {"waiting", "woken"} => playing /\ state # "PLAYING" /\ fill # "none"
  /\ owner = "joining" => ~playing /\ fill = "ended"

IInv == Ended /\ Places

LEMMA InitIInv == Init => IInv
BY DEF Init, IInv, Ended, Places, Running

(* One step for each part of the main thread and of the fill thread.       *)
LEMMA NextIInv == IInv /\ [Next]_vars => IInv'
<1>. SUFFICES ASSUME IInv, [Next]_vars
              PROVE  IInv'
  OBVIOUS
<1>. USE DEF IInv, Ended, Places, Running
<1>1. CASE Start
  BY <1>1 DEF Start
<1>2. CASE Started
  BY <1>2 DEF Started
<1>3. CASE StartFails
  BY <1>3 DEF StartFails
<1>4. CASE Stop
  BY <1>4 DEF Stop
<1>5. CASE WaitTimeout
  BY <1>5 DEF WaitTimeout
<1>6. CASE Woken
  BY <1>6 DEF Woken
<1>7. CASE Join
  BY <1>7 DEF Join
<1>8. CASE RampUp
  BY <1>8 DEF RampUp
<1>9. CASE Play
  BY <1>9 DEF Play
<1>10. CASE RampDown
  BY <1>10 DEF RampDown
<1>11. CASE Enqueue
  BY <1>11 DEF Enqueue
<1>12. CASE Drained
  BY <1>12 DEF Drained
<1>13. CASE audioOutDataCallback
  BY <1>13 DEF audioOutDataCallback
<1>14. CASE UNCHANGED vars
  BY <1>14 DEF vars
<1>. QED
  BY <1>1, <1>2, <1>3, <1>4, <1>5, <1>6, <1>7, <1>8, <1>9, <1>10, <1>11, <1>12,
     <1>13, <1>14 DEF Next, Owner, Fill

LEMMA IInvHolds == Spec => []IInv
BY InitIInv, NextIInv, PTL DEF Spec

(* When stop() has returned there is no fill thread and nothing queued.    *)
THEOREM StopLeavesNothing == Spec => []Quiet
<1>1. IInv => Quiet
  BY DEF IInv, Ended, Places, Quiet
<1>. QED  BY <1>1, IInvHolds, PTL

(* While the device plays a fill thread feeds it, until stop() is called.  *)
THEOREM PlayingIsFilled == Spec => []Filled
<1>1. IInv => Filled
  BY DEF IInv, Places, Running, Filled
<1>. QED  BY <1>1, IInvHolds, PTL
-----------------------------------------------------------------------------
(* The sizes.                                                              *)
LEMMA MulMono ==
  ASSUME NEW a \in Nat, NEW b \in Nat, NEW c \in Nat, a <= b
  PROVE  a * c <= b * c /\ a * c \in Nat /\ b * c \in Nat
<1>1. b - a \in Nat /\ b = a + (b - a)
  BY SMT
<1>2. \A d \in Nat : (a + d) * c = a * c + d * c /\ d * c >= 0
  BY SMT
<1>. QED  BY <1>1, <1>2, SMT

LEMMA DivAtMost ==
  ASSUME NEW k \in Nat, NEW c \in Nat \ {0}, NEW a \in 0 .. k * c
  PROVE  a \div c \in 0 .. k
<1> DEFINE q == a \div c
<1>1. q \in Nat /\ q * c <= a
  BY SMT
<1>2. CASE q >= k + 1
  <2>1. (k + 1) * c <= q * c
    BY <1>1, <1>2, MulMono
  <2>2. (k + 1) * c = k * c + c
    BY SMT
  <2>. QED  BY <1>1, <2>1, <2>2, SMT
<1>. QED  BY <1>1, <1>2, SMT

(* A request is for no more than stkbuf holds, and never for less than 0.  *)
LEMMA RequestFits ==
  ASSUME TypeOK
  PROVE  get_data_req_size \in 0 .. BufferFrames
<1>1. /\ Channels \in Nat \ {0} /\ CapFrames \in Nat /\ BufferFrames \in Nat
      /\ queue \in 0 .. CapFrames * Channels
  BY SizesAssumption DEF TypeOK, CapSamples
<1>2. queue \div Channels \in 0 .. CapFrames
  BY <1>1, DivAtMost
<1>. QED  BY <1>1, <1>2, SMT DEF get_data_req_size, Least

LEMMA RampRequestFits ==
  ASSUME TypeOK, RampRequest
  PROVE  left' \in 0 .. BufferFrames * Channels /\ ramp' \in 0 .. RampFrames
<1> DEFINE frames == get_data_req_size
<1>1. /\ Channels \in Nat /\ BufferFrames \in Nat /\ RampFrames \in Nat
      /\ ramp \in 0 .. RampFrames /\ frames \in 0 .. BufferFrames
  BY SizesAssumption, RequestFits DEF TypeOK
<1>2. /\ left' = IF frames = 0 THEN 0 ELSE (frames - 1) * Channels
      /\ ramp' = IF frames < ramp THEN ramp - frames ELSE 0
  BY DEF RampRequest
<1>. HIDE DEF frames
<1>3. ramp' \in 0 .. RampFrames
  BY <1>1, <1>2, SMT
<1>4. BufferFrames * Channels \in Nat
  BY <1>1, MulMono
<1>5. CASE frames # 0
  <2>1. frames - 1 \in Nat /\ frames - 1 <= BufferFrames
    BY <1>1, <1>5, SMT
  <2>. QED  BY <1>1, <1>2, <1>3, <1>5, <2>1, MulMono, SMT
<1>. QED  BY <1>2, <1>3, <1>4, <1>5, SMT

LEMMA InitTypeOK == Init => TypeOK
<1>1. CapSamples \in Nat /\ BufferFrames * Channels \in Nat /\ RampFrames \in Nat
  BY SizesAssumption, MulMono DEF CapSamples
<1>2. 0 \in 0 .. CapSamples /\ 0 \in 0 .. BufferFrames * Channels /\ 0 \in 0 .. RampFrames
  BY <1>1, SMT
<1>. QED  BY <1>2, Zenon DEF Init, TypeOK

LEMMA NextTypeOK == TypeOK /\ [Next]_vars => TypeOK'
<1>. SUFFICES ASSUME TypeOK, [Next]_vars
              PROVE  TypeOK'
  OBVIOUS
<1>0. /\ CapSamples \in Nat /\ BufferFrames * Channels \in Nat /\ RampFrames \in Nat
      /\ Channels \in Nat \ {0}
  BY SizesAssumption, MulMono DEF CapSamples
<1>. USE DEF TypeOK
<1>1. CASE Start
  BY <1>0, <1>1 DEF Start, CapSamples
<1>2. CASE Started
  BY <1>2 DEF Started, CapSamples
<1>3. CASE StartFails
  BY <1>3 DEF StartFails, CapSamples
<1>4. CASE Stop
  BY <1>4 DEF Stop, CapSamples
<1>5. CASE WaitTimeout
  BY <1>5 DEF WaitTimeout, CapSamples
<1>6. CASE Woken
  BY <1>6 DEF Woken, CapSamples
<1>7. CASE Join
  BY <1>7 DEF Join, CapSamples
<1>8. CASE RampUp
  BY <1>0, <1>8, RampRequestFits DEF RampUp, CapSamples
<1>9. CASE Play
  <2>1. get_data_req_size * Channels \in 0 .. BufferFrames * Channels
    <3>1. get_data_req_size \in 0 .. BufferFrames /\ BufferFrames \in Nat
      BY SizesAssumption, RequestFits
    <3>. QED  BY <1>0, <3>1, MulMono, SMT
  <2>. QED  BY <1>0, <1>9, <2>1 DEF Play, CapSamples
<1>10. CASE RampDown
  BY <1>0, <1>10, RampRequestFits DEF RampDown, CapSamples
<1>11. CASE Enqueue
  <2>1. left' \in 0 .. BufferFrames * Channels /\ queue' \in 0 .. CapSamples
    BY <1>0, <1>11, SMT DEF Enqueue
  <2>. QED  BY <1>11, <2>1 DEF Enqueue, CapSamples
<1>12. CASE Drained
  BY <1>0, <1>12 DEF Drained, CapSamples
<1>13. CASE audioOutDataCallback
  <2>1. queue' \in 0 .. CapSamples
    BY <1>0, <1>13, SMT DEF audioOutDataCallback
  <2>. QED  BY <1>13, <2>1 DEF audioOutDataCallback, CapSamples
<1>14. CASE UNCHANGED vars
  BY <1>14 DEF vars, CapSamples
<1>. QED
  BY <1>1, <1>2, <1>3, <1>4, <1>5, <1>6, <1>7, <1>8, <1>9, <1>10, <1>11, <1>12,
     <1>13, <1>14 DEF Next, Owner, Fill

(* No request is larger than stkbuf, and the queue never holds more than   *)
(* its capacity.                                                           *)
THEOREM TypeCorrect == Spec => []TypeOK
BY InitTypeOK, NextTypeOK, PTL DEF Spec
=============================================================================
