--------------------------- MODULE MediaDecoderProofs ---------------------------
(***************************************************************************)
(* Proofs about MediaDecoder: its types, that no packet that can be        *)
(* decoded gets lost, repeated or out of order, what a call that returns   *)
(* no frame, or throws, says about the file, and where a jump lands.       *)
(***************************************************************************)
EXTENDS MediaDecoder, FiniteSetTheorems, SequenceTheorems, TLAPS

(* Appending to a queue a place later than all of its own.                 *)
LEMMA AppendFacts ==
  ASSUME NEW q \in Seq(Nat), NEW x \in Nat
  PROVE  /\ Append(q, x) \in Seq(Nat)
         /\ Elements(Append(q, x)) = Elements(q) \union {x}
         /\ Increasing(q) /\ (\A y \in Elements(q) : y < x) => Increasing(Append(q, x))
<1>1. Append(q, x) \in Seq(Nat) /\ Len(Append(q, x)) = Len(q) + 1
  OBVIOUS
<1>2. Append(q, x)[Len(q) + 1] = x /\ \A k \in 1 .. Len(q) : Append(q, x)[k] = q[k]
  OBVIOUS
<1>3. DOMAIN q = 1 .. Len(q) /\ DOMAIN Append(q, x) = 1 .. Len(q) + 1 /\ Len(q) \in Nat
  BY <1>1
<1>4. Elements(Append(q, x)) = Elements(q) \union {x}
  BY <1>2, <1>3 DEF Elements
<1>5. ASSUME Increasing(q), \A y \in Elements(q) : y < x
      PROVE  Increasing(Append(q, x))
  <2>1. SUFFICES ASSUME NEW j \in 1 .. Len(q) + 1, NEW k \in 1 .. Len(q) + 1, j < k
                 PROVE  Append(q, x)[j] < Append(q, x)[k]
    BY <1>3 DEF Increasing
  <2>2. j \in 1 .. Len(q)
    BY <2>1, <1>3
  <2>3. CASE k \in 1 .. Len(q)
    BY <2>1, <2>2, <2>3, <1>2, <1>3, <1>5 DEF Increasing
  <2>4. CASE k = Len(q) + 1
    BY <2>2, <2>4, <1>2, <1>3, <1>5 DEF Elements
  <2>5. QED
    BY <2>3, <2>4, <1>3
<1>6. QED
  BY <1>1, <1>4, <1>5

(* Taking the front off a queue.                                           *)
LEMMA TailFacts ==
  ASSUME NEW q \in Seq(Nat), q # <<>>
  PROVE  /\ Head(q) \in Nat /\ Tail(q) \in Seq(Nat)
         /\ Elements(q) = Elements(Tail(q)) \union {Head(q)}
         /\ Increasing(q) =>
              Increasing(Tail(q)) /\ \A y \in Elements(Tail(q)) : Head(q) < y
<1>1. /\ Head(q) \in Nat /\ Tail(q) \in Seq(Nat) /\ Len(q) \in Nat \ {0}
      /\ Len(Tail(q)) = Len(q) - 1 /\ Head(q) = q[1]
  OBVIOUS
<1>2. \A k \in 1 .. Len(q) - 1 : Tail(q)[k] = q[k + 1]
  OBVIOUS
<1>3. DOMAIN q = 1 .. Len(q) /\ DOMAIN Tail(q) = 1 .. Len(q) - 1
  BY <1>1
<1>4. Elements(q) = Elements(Tail(q)) \union {Head(q)}
  <2>1. ASSUME NEW y \in Elements(q)
        PROVE  y \in Elements(Tail(q)) \union {Head(q)}
    <3>1. PICK k \in 1 .. Len(q) : y = q[k]
      BY <1>3 DEF Elements
    <3>2. CASE k = 1
      BY <3>1, <3>2, <1>1
    <3>3. CASE k # 1
      <4>1. k - 1 \in 1 .. Len(q) - 1 /\ Tail(q)[k - 1] = q[k]
        BY <3>3, <1>1, <1>2
      <4>2. QED
        BY <4>1, <3>1, <1>3 DEF Elements
    <3>4. QED
      BY <3>2, <3>3
  <2>2. ASSUME NEW y \in Elements(Tail(q)) \union {Head(q)}
        PROVE  y \in Elements(q)
    <3>1. CASE y = Head(q)
      BY <3>1, <1>1, <1>3 DEF Elements
    <3>2. CASE y \in Elements(Tail(q))
      <4>1. PICK k \in 1 .. Len(q) - 1 : y = Tail(q)[k]
        BY <3>2, <1>3 DEF Elements
      <4>2. k + 1 \in 1 .. Len(q) /\ y = q[k + 1]
        BY <4>1, <1>1, <1>2
      <4>3. QED
        BY <4>2, <1>3 DEF Elements
    <3>3. QED
      BY <2>2, <3>1, <3>2
  <2>3. QED
    BY <2>1, <2>2
<1>5. ASSUME Increasing(q)
      PROVE  Increasing(Tail(q)) /\ \A y \in Elements(Tail(q)) : Head(q) < y
  <2>1. ASSUME NEW j \in 1 .. Len(q) - 1, NEW k \in 1 .. Len(q) - 1, j < k
        PROVE  Tail(q)[j] < Tail(q)[k]
    BY <2>1, <1>1, <1>2, <1>3, <1>5 DEF Increasing
  <2>2. ASSUME NEW k \in 1 .. Len(q) - 1
        PROVE  Head(q) < Tail(q)[k]
    <3>1. 1 \in 1 .. Len(q) /\ k + 1 \in 1 .. Len(q) /\ 1 < k + 1
      BY <1>1
    <3>2. QED
      BY <3>1, <1>1, <1>2, <1>3, <1>5 DEF Increasing
  <2>3. QED
    BY <2>1, <2>2, <1>3 DEF Increasing, Elements
<1>6. QED
  BY <1>1, <1>4, <1>5

(* What a codec gives out of the packets it keeps comes from the front.    *)
LEMMA SplitFacts ==
  ASSUME NEW q \in Seq(Nat), NEW k \in 0 .. Len(q)
  PROVE  /\ SubSeq(q, k + 1, Len(q)) \in Seq(Nat)
         /\ Len(SubSeq(q, k + 1, Len(q))) = Len(q) - k
         /\ Elements(q) = Elements(SubSeq(q, 1, k)) \union Elements(SubSeq(q, k + 1, Len(q)))
         /\ Elements(SubSeq(q, 1, k)) \subseteq Nat
         /\ k = 0 => Elements(SubSeq(q, 1, k)) = {}
         /\ Increasing(q) =>
              /\ Increasing(SubSeq(q, k + 1, Len(q)))
              /\ Before(Elements(SubSeq(q, 1, k)), Elements(SubSeq(q, k + 1, Len(q))))
<1> DEFINE f == SubSeq(q, 1, k)
           g == SubSeq(q, k + 1, Len(q))
<1>1. Len(q) \in Nat /\ k \in Nat /\ k <= Len(q) /\ DOMAIN q = 1 .. Len(q)
  OBVIOUS
<1>2. f \in Seq(Nat) /\ Len(f) = k /\ \A n \in 1 .. k : f[n] = q[n]
  BY <1>1
<1>3. g \in Seq(Nat) /\ Len(g) = Len(q) - k /\ \A n \in 1 .. Len(q) - k : g[n] = q[k + n]
  <2>1. /\ k + 1 \in Int /\ Len(q) \in Int
        /\ \A n \in k + 1 .. Len(q) : q[n] \in Nat
    BY <1>1
  <2>2. /\ g \in Seq(Nat)
        /\ Len(g) = IF k + 1 <= Len(q) THEN Len(q) - (k + 1) + 1 ELSE 0
        /\ \A n \in 1 .. Len(q) - (k + 1) + 1 : g[n] = q[(k + 1) + n - 1]
    <3>1. \A m \in Int, n \in Int : (\A l \in m .. n : q[l] \in Nat) =>
            /\ SubSeq(q, m, n) \in Seq(Nat)
            /\ Len(SubSeq(q, m, n)) = IF m <= n THEN n - m + 1 ELSE 0
            /\ \A l \in 1 .. n - m + 1 : SubSeq(q, m, n)[l] = q[m + l - 1]
      BY SubSeqProperties
    <3>2. QED
      BY <2>1, <3>1, Zenon
  <2> HIDE DEF g
  <2>3. Len(g) = Len(q) - k
    <3>1. CASE k + 1 <= Len(q)
      <4>1. Len(g) = Len(q) - (k + 1) + 1
        BY <2>2, <3>1
      <4>2. QED
        BY <1>1, <4>1
    <3>2. CASE ~(k + 1 <= Len(q))
      <4>1. Len(g) = 0
        BY <2>2, <3>2
      <4>2. \A n \in Nat, j \in Nat : j <= n /\ ~(j + 1 <= n) => n - j = 0
        OBVIOUS
      <4>3. Len(q) - k = 0
        BY <1>1, <3>2, <4>2, Zenon
      <4>4. QED
        BY <4>1, <4>3, Zenon
    <3>3. QED
      BY <3>1, <3>2
  <2>4. ASSUME NEW n \in 1 .. Len(q) - k PROVE g[n] = q[k + n]
    <3>1. n \in 1 .. Len(q) - (k + 1) + 1 /\ (k + 1) + n - 1 = k + n
      BY <1>1
    <3>2. QED
      BY <2>2, <3>1
  <2>5. QED
    BY <2>2, <2>3, <2>4
<1>4. DOMAIN f = 1 .. k /\ DOMAIN g = 1 .. Len(q) - k
  BY <1>2, <1>3
<1> HIDE DEF f, g
<1>5. \A n \in 1 .. Len(q) - k : k + n \in 1 .. Len(q)
  BY <1>1
<1>6. Elements(q) = Elements(f) \union Elements(g)
  <2>1. ASSUME NEW n \in 1 .. Len(q)
        PROVE  q[n] \in Elements(f) \union Elements(g)
    <3>1. CASE n <= k
      BY <1>1, <1>2, <1>4, <3>1 DEF Elements
    <3>2. CASE ~(n <= k)
      <4>1. n - k \in 1 .. Len(q) - k /\ k + (n - k) = n
        BY <1>1, <3>2
      <4>2. g[n - k] = q[n]
        BY <1>3, <4>1
      <4>3. QED
        BY <1>4, <4>1, <4>2 DEF Elements
    <3>3. QED
      BY <3>1, <3>2
  <2>2. \A n \in 1 .. k : f[n] \in Elements(q)
    BY <1>1, <1>2 DEF Elements
  <2>3. \A n \in 1 .. Len(q) - k : g[n] \in Elements(q)
    BY <1>1, <1>3, <1>5 DEF Elements
  <2>4. QED
    BY <1>1, <1>4, <2>1, <2>2, <2>3 DEF Elements
<1>7. Elements(f) \subseteq Nat /\ (k = 0 => Elements(f) = {})
  <2>1. k = 0 => DOMAIN f = {}
    BY <1>4
  <2>2. QED
    BY <1>2, <1>4, <2>1 DEF Elements
<1>8. ASSUME Increasing(q)
      PROVE  Increasing(g) /\ Before(Elements(f), Elements(g))
  <2>1. ASSUME NEW m \in 1 .. Len(q) - k, NEW n \in 1 .. Len(q) - k, m < n
        PROVE  g[m] < g[n]
    <3>1. k + m \in 1 .. Len(q) /\ k + n \in 1 .. Len(q) /\ k + m < k + n
      BY <1>1, <2>1
    <3>2. QED
      BY <1>1, <1>3, <1>8, <3>1 DEF Increasing
  <2>2. ASSUME NEW m \in 1 .. k, NEW n \in 1 .. Len(q) - k
        PROVE  f[m] < g[n]
    <3>1. m \in 1 .. Len(q) /\ k + n \in 1 .. Len(q) /\ m < k + n
      BY <1>1
    <3>2. QED
      BY <1>1, <1>2, <1>3, <1>8, <3>1 DEF Increasing
  <2>3. QED
    BY <1>4, <2>1, <2>2 DEF Increasing, Before, Elements
<1>9. QED
  BY <1>3, <1>6, <1>7, <1>8 DEF f, g

LEMMA EmptyFacts == Elements(<<>>) = {} /\ Increasing(<<>>)
  BY DEF Elements, Increasing
-----------------------------------------------------------------------------
LEMMA StreamReachedType ==
  ASSUME TypeOK, StreamReached
  PROVE  media_type' \in decs /\ jumping' \in BOOLEAN /\ pc' \in {"idle", "loop"}
BY DEF TypeOK, StreamReached, Later

LEMMA ReturnFramesType ==
  ASSUME TypeOK, NEW S \in SUBSET Nat, ReturnFrames(S)
  PROVE  /\ media_type' \in decs /\ jumping' \in BOOLEAN /\ empty' \in BOOLEAN
         /\ pc' \in {"idle", "loop"}
         /\ skipped' \in [Streams -> SUBSET Nat]
         /\ shown' \in [Streams -> SUBSET Nat]
<1> DEFINE R == \E i \in S : Reaches(i)
<1>1. media_type' \in decs /\ jumping' \in BOOLEAN /\ pc' \in {"idle", "loop"}
  <2>1. CASE jumping /\ R
    BY <2>1, StreamReachedType DEF ReturnFrames
  <2>2. CASE jumping /\ ~R
    BY <2>2 DEF ReturnFrames, TypeOK
  <2>3. CASE ~jumping
    BY <2>3 DEF ReturnFrames, TypeOK
  <2>4. QED
    BY <2>1, <2>2, <2>3
<1>2. \/ skipped' = [skipped EXCEPT ![media_type] = @ \union S] /\ shown' = shown
      \/ shown' = [shown EXCEPT ![media_type] = @ \union S] /\ skipped' = skipped
  BY DEF ReturnFrames
<1>3. skipped \in [Streams -> SUBSET Nat] /\ shown \in [Streams -> SUBSET Nat]
  BY DEF TypeOK
<1>4. /\ skipped' \in [Streams -> SUBSET Nat]
      /\ shown' \in [Streams -> SUBSET Nat]
  BY <1>2, <1>3
<1>5. QED
  BY <1>1, <1>4 DEF ReturnFrames

(* The parts of a step that gives a good packet to the codec: k of the     *)
(* packets it then has come out.                                           *)
Gives(kept, k) ==
  /\ k \in 0 .. Len(kept)
  /\ Len(kept) - k <= Delay[media_type]
  /\ held' = [held EXCEPT ![media_type] = SubSeq(kept, k + 1, Len(kept))]
  /\ IF k = 0 THEN UNCHANGED <<pc, media_type, jumping, skipped, shown, empty>>
     ELSE ReturnFrames(Elements(SubSeq(kept, 1, k)))

LEMMA DecodeParts ==
  ASSUME TypeOK, DecodePacket
  PROVE  /\ pc = "decode" /\ media_type \in Streams
         /\ queue[media_type] \in Seq(Nat) /\ queue[media_type] # <<>>
         /\ held[media_type] \in Seq(Nat) /\ Head(queue[media_type]) \in Nat
         /\ queue' = [queue EXCEPT ![media_type] = Tail(queue[media_type])]
         /\ UNCHANGED <<file, decs, pos, fetch_count, failures, target, from, discarded, refused, cut>>
         /\ \E kept \in Seq(Nat), k \in Nat :
              /\ kept = Append(held[media_type], Head(queue[media_type]))
              /\ kept # <<>> /\ Len(kept) = Len(held[media_type]) + 1
              /\ Gives(kept, k)
<1>1. media_type \in Streams /\ queue[media_type] \in Seq(Nat) /\ held[media_type] \in Seq(Nat)
  BY DEF TypeOK
<1>2. queue[media_type] # <<>>
  BY DEF DecodePacket
<1>3. Head(queue[media_type]) \in Nat
  BY <1>1, <1>2, TailFacts
<1> DEFINE kept == Append(held[media_type], Head(queue[media_type]))
<1>4. \A q \in Seq(Nat), x \in Nat :
        Append(q, x) \in Seq(Nat) /\ Append(q, x) # <<>> /\ Len(Append(q, x)) = Len(q) + 1
  OBVIOUS
<1>5. kept \in Seq(Nat) /\ kept # <<>> /\ Len(kept) = Len(held[media_type]) + 1
  BY <1>1, <1>3, <1>4
<1>6. \E k \in 0 .. Len(kept) : Gives(kept, k)
  BY DEF DecodePacket, Gives
<1> HIDE DEF kept
<1>7. \E k \in Nat : Gives(kept, k)
  BY <1>6
<1>8. QED
  BY <1>1, <1>2, <1>3, <1>5, <1>7 DEF DecodePacket, kept

(* And of one that fails: k of the packets before it are thrown away.      *)
LEMMA FailParts ==
  ASSUME TypeOK, DecodeFails
  PROVE  /\ pc = "decode" /\ media_type \in Streams
         /\ queue[media_type] \in Seq(Nat) /\ queue[media_type] # <<>>
         /\ held[media_type] \in Seq(Nat) /\ Head(queue[media_type]) \in Nat
         /\ queue' = [queue EXCEPT ![media_type] = Tail(queue[media_type])]
         /\ \E k \in 0 .. Len(held[media_type]) :
              /\ held' = [held EXCEPT ![media_type] =
                            SubSeq(held[media_type], k + 1, Len(held[media_type]))]
              /\ discarded' = [discarded EXCEPT ![media_type] =
                                 @ \union Elements(SubSeq(held[media_type], 1, k))]
<1>1. media_type \in Streams /\ queue[media_type] \in Seq(Nat) /\ held[media_type] \in Seq(Nat)
  BY DEF TypeOK
<1>2. queue[media_type] # <<>>
  BY DEF DecodeFails
<1>3. Head(queue[media_type]) \in Nat
  BY <1>1, <1>2, TailFacts
<1>4. QED
  BY <1>1, <1>2, <1>3 DEF DecodeFails

LEMMA TypeStep ==
  ASSUME TypeOK, [Next]_vars
  PROVE  TypeOK'
<1> USE FilesAssumption, StreamsAssumption, CountsAssumption
<1>a. file \in Seq(Packet) /\ Len(file) \in Nat
  BY DEF TypeOK
<1>b. media_type \in Streams /\ queue[media_type] \in Seq(Nat) /\ held[media_type] \in Seq(Nat)
  BY DEF TypeOK
<1>1. ASSUME NEW s \in Streams, next_frames(s)
      PROVE  TypeOK'
  BY <1>1 DEF TypeOK, next_frames, history
<1>2. ASSUME NEW time \in Times, jump_to_time(time)
      PROVE  TypeOK'
  <2>1. time \in Int
    <3>1. PICK i \in 1 .. Len(file) : time = pts(i)
      BY DEF Times
    <3>2. DEFINE S == { j \in 1 .. i - 1 : file[j].stream = file[i].stream }
    <3>3. S \in SUBSET (1 .. i - 1) /\ IsFiniteSet(1 .. i - 1)
      <4>1. i - 1 \in Int
        BY <1>a
      <4>2. IsFiniteSet(1 .. i - 1)
        BY <4>1, FS_Interval
      <4>3. QED
        BY <4>2
    <3>4. IsFiniteSet(S)
      BY <3>3, FS_Subset
    <3>5. Cardinality(S) \in Nat
      BY <3>4, FS_CardinalityType
    <3>6. QED
      BY <3>1, <3>5 DEF pts
  <2>2. QED
    <3>1. queue' \in [Streams -> Seq(Nat)] /\ held' \in [Streams -> Seq(Nat)]
      BY <1>2 DEF jump_to_time, reset
    <3>2. /\ skipped' \in [Streams -> SUBSET Nat] /\ shown' \in [Streams -> SUBSET Nat]
          /\ discarded' \in [Streams -> SUBSET Nat]
      BY <1>2 DEF jump_to_time
    <3>3. pos' \in 1 .. Len(file) + 1 /\ from' \in 1 .. pos'
      BY <1>2, <1>a DEF jump_to_time
    <3>4. media_type' \in decs /\ target' \in Int
      BY <1>2, <2>1 DEF jump_to_time, First
    <3>5. /\ UNCHANGED <<file, decs, fetch_count, failures, empty, refused>>
          /\ pc' = "loop" /\ jumping' = TRUE /\ cut' = {}
      BY <1>2 DEF jump_to_time
    <3>6. /\ file' \in Files /\ decs' \subseteq Streams /\ media_type' \in decs'
          /\ fetch_count' \in Nat \union {NO_FETCH_MADE} /\ failures' \in 0 .. ALLOWED_FAILURES
          /\ pos' \in 1 .. Len(file') + 1
      BY <3>3, <3>4, <3>5 DEF TypeOK
    <3>7. empty' \in BOOLEAN /\ refused' \in BOOLEAN /\ jumping' \in BOOLEAN
      BY <3>5 DEF TypeOK
    <3>8. cut' \subseteq Streams /\ pc' \in {"idle", "loop", "fetch", "decode", "thrown"}
      BY <3>5
    <3>9. QED
      BY <3>1, <3>2, <3>3, <3>4, <3>6, <3>7, <3>8 DEF TypeOK
<1>3. CASE Loop
  <2>1. /\ fetch_count' \in Nat \union {NO_FETCH_MADE}
        /\ pc' \in {"fetch", "decode"} /\ failures' = 0 /\ refused' = FALSE
    BY <1>3 DEF Loop
  <2>2. /\ UNCHANGED <<file, decs, pos, queue, held, media_type, jumping, target>>
        /\ UNCHANGED <<from, skipped, shown, discarded, empty, cut>>
    BY <1>3 DEF Loop
  <2>3. 0 \in 0 .. ALLOWED_FAILURES /\ FALSE \in BOOLEAN
    OBVIOUS
  <2>4. pc' \in {"idle", "loop", "fetch", "decode", "thrown"}
    BY <2>1
  <2>5. UNCHANGED <<file, decs, pos, queue, held, media_type, from, skipped, shown, discarded, cut>>
    BY <2>2
  <2> HIDE FilesAssumption, StreamsAssumption, CountsAssumption
  <2>6. /\ file' \in Files /\ decs' \subseteq Streams /\ pos' \in 1 .. Len(file') + 1
        /\ queue' \in [Streams -> Seq(Nat)] /\ held' \in [Streams -> Seq(Nat)]
        /\ media_type' \in decs' /\ from' \in 1 .. pos' /\ cut' \subseteq Streams
        /\ skipped' \in [Streams -> SUBSET Nat] /\ shown' \in [Streams -> SUBSET Nat]
        /\ discarded' \in [Streams -> SUBSET Nat]
    BY <2>5 DEF TypeOK
  <2>7. jumping' \in BOOLEAN /\ target' \in Int /\ empty' \in BOOLEAN
    BY <2>2 DEF TypeOK
  <2>8. QED
    BY <2>1, <2>3, <2>4, <2>6, <2>7, Zenon DEF TypeOK
<1>4. CASE fetch_next
  <2>1. pos \in Nat /\ pos' \in 1 .. Len(file) + 1
    BY <1>4, <1>a DEF TypeOK, fetch_next
  <2>2. queue' \in [Streams -> Seq(Nat)]
    <3>1. CASE file[pos].stream \in decs
      <4>1. PICK s \in Streams : queue' = [queue EXCEPT ![s] = Append(queue[s], pos)]
        BY <1>4, <3>1 DEF fetch_next, TypeOK
      <4>2. queue[s] \in Seq(Nat) /\ queue \in [Streams -> Seq(Nat)]
        BY DEF TypeOK
      <4>3. Append(queue[s], pos) \in Seq(Nat)
        BY <4>2, <2>1
      <4>4. QED
        BY <4>1, <4>2, <4>3
    <3>2. CASE file[pos].stream \notin decs
      BY <1>4, <3>2 DEF fetch_next, TypeOK
    <3>3. QED
      BY <3>1, <3>2
  <2>3. fetch_count' \in Nat \union {NO_FETCH_MADE}
    BY <1>4 DEF TypeOK, fetch_next, NO_FETCH_MADE
  <2>4. QED
    BY <1>4, <2>1, <2>2, <2>3 DEF TypeOK, fetch_next, history
<1>5. CASE FetchEnds
  BY <1>5 DEF TypeOK, FetchEnds
<1>6. CASE NothingDecoded
  <2>1. CASE fetch_count = 0
    <3>1. media_type' \in decs /\ jumping' \in BOOLEAN /\ pc' \in {"idle", "loop"}
      BY <1>6, <2>1, StreamReachedType DEF NothingDecoded, ReturnNothing, TypeOK
    <3>2. cut' \subseteq Streams
      BY <1>6, <1>b, <2>1 DEF NothingDecoded, ReturnNothing, TypeOK
    <3>3. QED
      BY <1>6, <2>1, <3>1, <3>2 DEF TypeOK, NothingDecoded, ReturnNothing
  <2>2. CASE fetch_count # 0
    BY <1>6, <2>2 DEF TypeOK, NothingDecoded
  <2>3. QED
    BY <2>1, <2>2
<1>7. CASE DecodePacket
  <2>1. PICK kept \in Seq(Nat), k \in Nat : Gives(kept, k)
    BY <1>7, DecodeParts
  <2>2. /\ queue' = [queue EXCEPT ![media_type] = Tail(queue[media_type])] /\ pc = "decode"
        /\ UNCHANGED <<file, decs, pos, fetch_count, failures, target, from, discarded, refused, cut>>
        /\ Tail(queue[media_type]) \in Seq(Nat)
    BY <1>7, DecodeParts, TailFacts
  <2>3. queue' \in [Streams -> Seq(Nat)]
    BY <2>2 DEF TypeOK
  <2>4. /\ SubSeq(kept, k + 1, Len(kept)) \in Seq(Nat)
        /\ Elements(SubSeq(kept, 1, k)) \in SUBSET Nat
    BY <2>1, SplitFacts DEF Gives
  <2>5. held' \in [Streams -> Seq(Nat)]
    BY <2>1, <2>4 DEF TypeOK, Gives
  <2>6. CASE k = 0
    BY <2>1, <2>2, <2>3, <2>5, <2>6 DEF TypeOK, Gives
  <2>7. CASE k # 0
    <3>1. ReturnFrames(Elements(SubSeq(kept, 1, k)))
      BY <2>1, <2>7 DEF Gives
    <3>2. QED
      BY <2>2, <2>3, <2>4, <2>5, <3>1, ReturnFramesType DEF TypeOK
  <2>8. QED
    BY <2>6, <2>7
<1>8. CASE DecodeFails
  <2>1. PICK k \in 0 .. Len(held[media_type]) :
          /\ held' = [held EXCEPT ![media_type] =
                        SubSeq(held[media_type], k + 1, Len(held[media_type]))]
          /\ discarded' = [discarded EXCEPT ![media_type] =
                             @ \union Elements(SubSeq(held[media_type], 1, k))]
    BY <1>8, FailParts
  <2>2. /\ SubSeq(held[media_type], k + 1, Len(held[media_type])) \in Seq(Nat)
        /\ Elements(SubSeq(held[media_type], 1, k)) \in SUBSET Nat
    BY <1>b, SplitFacts
  <2>3. Tail(queue[media_type]) \in Seq(Nat)
    BY <1>8, <1>b, TailFacts DEF DecodeFails
  <2>4. queue' \in [Streams -> Seq(Nat)]
    BY <1>8, <2>3 DEF TypeOK, DecodeFails
  <2>5. held' \in [Streams -> Seq(Nat)]
    BY <2>1, <2>2 DEF TypeOK
  <2>6. discarded' \in [Streams -> SUBSET Nat]
    BY <2>1, <2>2 DEF TypeOK
  <2>7. failures' \in 0 .. ALLOWED_FAILURES /\ pc' \in {"decode", "thrown"}
    BY <1>8 DEF TypeOK, DecodeFails
  <2>8. QED
    BY <1>8, <2>4, <2>5, <2>6, <2>7 DEF TypeOK, DecodeFails
<1>9. CASE UNCHANGED vars
  BY <1>9 DEF TypeOK, vars, history
<1>10. QED
  BY <1>1, <1>2, <1>3, <1>4, <1>5, <1>6, <1>7, <1>8, <1>9 DEF Next, Step

LEMMA InitType ==
  ASSUME Init
  PROVE  TypeOK
<1>1. file \in Seq(Packet) /\ Len(file) \in Nat
  BY FilesAssumption DEF Init
<1>2. queue \in [Streams -> Seq(Nat)] /\ held \in [Streams -> Seq(Nat)]
  BY DEF Init
<1>3. /\ skipped \in [Streams -> SUBSET Nat] /\ shown \in [Streams -> SUBSET Nat]
      /\ discarded \in [Streams -> SUBSET Nat]
  BY DEF Init
<1>4. pos \in 1 .. Len(file) + 1 /\ from \in 1 .. pos
  BY <1>1 DEF Init
<1>5. decs \subseteq Streams /\ media_type \in decs
  BY DEF Init
<1>6. failures \in 0 .. ALLOWED_FAILURES /\ target \in Int /\ fetch_count \in Nat \union {NO_FETCH_MADE}
  BY CountsAssumption DEF Init, NO_FETCH_MADE
<1>7. /\ file \in Files /\ pc = "idle" /\ jumping = FALSE /\ empty = FALSE
      /\ refused = FALSE /\ cut = {}
  BY DEF Init
<1>8. QED
  BY <1>2, <1>3, <1>4, <1>5, <1>6, <1>7 DEF TypeOK

(* For any file and any number of streams, every reachable state of a      *)
(* MediaDecoder has its type.                                              *)
THEOREM TypeCorrect == Spec => []TypeOK
<1>1. Init => TypeOK
  BY InitType
<1>2. QED
  BY <1>1, TypeStep, PTL DEF Spec
-----------------------------------------------------------------------------
(* The frames that are shown come after the jump: none is shown before the *)
(* jump is over, so those it throws away are all earlier.                  *)
JumpFirst == jumping => \A s \in Streams : shown[s] = {}

IInv == TypeOK /\ JumpFirst /\ NothingLost

streamState == <<file, decs, pos, from, queue, held, skipped, shown, discarded>>

(* A step that moves no packet.                                            *)
LEMMA NothingMoves ==
  ASSUME NothingLost, UNCHANGED streamState
  PROVE  NothingLost'
BY DEF NothingLost, Accounted, streamState, InOrder, Kept, Out, Read, Increasing, Elements, Before

(* A step that leaves a stream as it is, and reads no packet of it.        *)
LEMMA StreamStays ==
  ASSUME NEW s, Accounted(s), UNCHANGED <<file, from>>,
         queue'[s] = queue[s], held'[s] = held[s],
         skipped'[s] = skipped[s], shown'[s] = shown[s], discarded'[s] = discarded[s],
         Read(s)' = Read(s)
  PROVE  Accounted(s)'
BY DEF Accounted, InOrder, Kept, Out, Increasing, Elements, Before

(* fetch_next: the packet read is later than all that were read before.    *)
LEMMA FetchAccounted ==
  ASSUME TypeOK, NothingLost, fetch_next, NEW s \in decs
  PROVE  Accounted(s)'
<1>1. /\ pos \in Nat /\ pos' = pos + 1 /\ from \in 1 .. pos
      /\ UNCHANGED <<file, from, held, skipped, shown, discarded>>
  <2>1. file \in Seq(Packet) /\ Len(file) \in Nat
    BY FilesAssumption DEF TypeOK
  <2>2. QED
    BY <2>1 DEF TypeOK, fetch_next, history
<1>2. Accounted(s) /\ s \in Streams
  BY DEF NothingLost, Accounted, TypeOK
<1>3. \A i \in Read(s) : i < pos /\ i \in Nat
  BY <1>1 DEF Read
<1>4. CASE file[pos].stream # s
  <2>1. queue'[s] = queue[s]
    BY <1>2, <1>4 DEF fetch_next, TypeOK
  <2>2. Read(s)' = Read(s)
    BY <1>1, <1>4 DEF Read
  <2>3. QED
    BY <1>1, <1>2, <2>1, <2>2, StreamStays
<1>5. CASE file[pos].stream = s
  <2>1. queue[s] \in Seq(Nat) /\ queue'[s] = Append(queue[s], pos)
    BY <1>2, <1>5 DEF fetch_next, TypeOK
  <2>2. Read(s)' = Read(s) \union {pos}
    BY <1>1, <1>5 DEF Read
  <2>3. Elements(queue[s]) \subseteq Read(s) /\ Kept(s) \subseteq Read(s)
    BY <1>2 DEF Accounted, Kept
  <2>4. Elements(queue'[s]) = Elements(queue[s]) \union {pos} /\ Increasing(queue'[s])
    BY <1>1, <1>2, <1>3, <2>1, <2>3, AppendFacts DEF Accounted, InOrder
  <2>5. Out(s)' = Out(s) /\ Kept(s)' = Kept(s) \union {pos}
    BY <1>1, <2>4 DEF Kept, Out, Elements
  <2>6. \A i \in Kept(s) : i < pos
    BY <1>3, <2>3
  <2>7. UNCHANGED <<Elements(held[s]), Increasing(held[s])>>
    BY <1>1 DEF Elements, Increasing
  <2>8. Elements(queue[s])' = Elements(queue[s]) \union {pos} /\ Increasing(queue[s])'
    BY <2>4 DEF Elements, Increasing
  <2>9. InOrder(s)'
    BY <1>1, <1>2, <2>5, <2>6, <2>7, <2>8 DEF Accounted, InOrder, Before, Kept
  <2>10. QED
    BY <1>1, <1>2, <2>2, <2>3, <2>5, <2>9 DEF Accounted
<1>6. QED
  BY <1>4, <1>5

(* One packet leaves the front of the queue and is dropped: it was damaged *)
(* and some that the codec had kept are thrown away with it.               *)
LEMMA FailAccounted ==
  ASSUME TypeOK, NothingLost, DecodeFails, NEW s \in decs
  PROVE  Accounted(s)'
<1>1. Accounted(s) /\ s \in Streams /\ media_type \in Streams
  BY DEF NothingLost, TypeOK
<1>2. UNCHANGED <<file, pos, from, skipped, shown>>
  BY DEF DecodeFails
<1>3. Read(s)' = Read(s)
  BY <1>2 DEF Read
<1>4. PICK k \in 0 .. Len(held[media_type]) :
        /\ held' = [held EXCEPT ![media_type] =
                      SubSeq(held[media_type], k + 1, Len(held[media_type]))]
        /\ discarded' = [discarded EXCEPT ![media_type] =
                           @ \union Elements(SubSeq(held[media_type], 1, k))]
  BY FailParts
<1>5. CASE s # media_type
  <2>1. queue'[s] = queue[s] /\ held'[s] = held[s] /\ discarded'[s] = discarded[s]
    BY <1>1, <1>4, <1>5 DEF DecodeFails, TypeOK
  <2>2. QED
    BY <1>1, <1>2, <1>3, <2>1, StreamStays
<1>6. CASE s = media_type
  <2> DEFINE i == Head(queue[s])
             H == Elements(held[s])
             T == Elements(Tail(queue[s]))
             F == Elements(SubSeq(held[s], 1, k))
             R == Elements(SubSeq(held[s], k + 1, Len(held[s])))
  <2>1. /\ queue[s] \in Seq(Nat) /\ queue[s] # <<>> /\ queue'[s] = Tail(queue[s])
        /\ held[s] \in Seq(Nat) /\ ~file[i].good
    BY <1>1, <1>6, FailParts DEF DecodeFails, TypeOK
  <2>2. Elements(queue[s]) = T \union {i} /\ Increasing(Tail(queue[s]))
    BY <1>1, <2>1, TailFacts DEF Accounted, InOrder
  <2>3. /\ H = F \union R /\ Before(F, R)
        /\ Increasing(SubSeq(held[s], k + 1, Len(held[s])))
    BY <1>1, <1>6, <2>1, SplitFacts DEF Accounted, InOrder
  <2>4. /\ held'[s] = SubSeq(held[s], k + 1, Len(held[s]))
        /\ discarded'[s] = discarded[s] \union F
    BY <1>1, <1>4, <1>6 DEF TypeOK
  <2>5. /\ Elements(held[s])' = R /\ Increasing(held[s])'
        /\ Elements(queue[s])' = T /\ Increasing(queue[s])'
    BY <2>1, <2>2, <2>3, <2>4 DEF Elements, Increasing
  <2> HIDE DEF i, H, T, F, R
  <2>6. Out(s)' = Out(s) \union F
    BY <1>2, <2>4 DEF Out
  <2>7. Before(skipped[s], shown[s]) /\ Before(Out(s), H \union T) /\ Before(H, T)
    BY <1>1, <2>2 DEF Accounted, InOrder, Before, H
  <2>8. Before(Out(s) \union F, R \union T) /\ Before(R, T)
    BY <2>3, <2>7 DEF Before
  <2>9. InOrder(s)'
    BY <1>2, <2>5, <2>6, <2>7, <2>8 DEF InOrder, Before
  <2>10. Kept(s) = Kept(s)' \union {i} /\ Kept(s)' \subseteq Kept(s)
    BY <2>2, <2>3, <2>5, <2>6 DEF Kept, H
  <2>11. ~file[i].good
    BY <2>1 DEF i
  <2>12. QED
    BY <1>1, <1>2, <1>3, <2>9, <2>10, <2>11 DEF Accounted
<1>7. QED
  BY <1>5, <1>6

(* The frames of a stream are not changed by what happens to another.      *)
LEMMA ReturnFramesHistory ==
  ASSUME TypeOK, NEW S \in SUBSET Nat, ReturnFrames(S), NEW s \in Streams
  PROVE  IF s # media_type THEN skipped'[s] = skipped[s] /\ shown'[s] = shown[s]
         ELSE IF jumping THEN skipped'[s] = skipped[s] \union S /\ shown'[s] = shown[s]
         ELSE skipped'[s] = skipped[s] /\ shown'[s] = shown[s] \union S
<1>1. CASE jumping
  BY <1>1 DEF ReturnFrames, TypeOK
<1>2. CASE ~jumping
  BY <1>2 DEF ReturnFrames, TypeOK
<1>3. QED
  BY <1>1, <1>2

(* The packet at the front of the queue goes to the back of the codec;     *)
(* those at the front of the codec may come out.                           *)
LEMMA DecodeAccounted ==
  ASSUME TypeOK, JumpFirst, NothingLost, DecodePacket, NEW s \in decs
  PROVE  Accounted(s)'
<1>1. Accounted(s) /\ s \in Streams /\ media_type \in Streams
  BY DEF NothingLost, TypeOK
<1>2. UNCHANGED <<file, pos, from, discarded>>
  BY DEF DecodePacket
<1>3. Read(s)' = Read(s)
  BY <1>2 DEF Read
<1>4. PICK kept \in Seq(Nat), k \in Nat :
        /\ kept = Append(held[media_type], Head(queue[media_type]))
        /\ Gives(kept, k)
  BY DecodeParts
<1> DEFINE F == Elements(SubSeq(kept, 1, k))
           R == Elements(SubSeq(kept, k + 1, Len(kept)))
<1>5. /\ Elements(kept) = F \union R /\ F \in SUBSET Nat /\ (k = 0 => F = {})
      /\ Increasing(kept) =>
           Increasing(SubSeq(kept, k + 1, Len(kept))) /\ Before(F, R)
  BY <1>4, SplitFacts DEF Gives
<1>6. /\ queue' = [queue EXCEPT ![media_type] = Tail(queue[media_type])]
      /\ queue[media_type] \in Seq(Nat) /\ queue[media_type] # <<>>
      /\ held[media_type] \in Seq(Nat)
  BY DecodeParts
<1>7. /\ held' = [held EXCEPT ![media_type] = SubSeq(kept, k + 1, Len(kept))]
      /\ k = 0 => UNCHANGED <<skipped, shown>>
      /\ k # 0 => ReturnFrames(F)
  BY <1>4 DEF Gives
<1>8. CASE s # media_type
  <2>1. queue'[s] = queue[s] /\ held'[s] = held[s]
    BY <1>1, <1>6, <1>7, <1>8 DEF TypeOK
  <2>2. skipped'[s] = skipped[s] /\ shown'[s] = shown[s]
    BY <1>1, <1>5, <1>7, <1>8, ReturnFramesHistory
  <2>3. QED
    BY <1>1, <1>2, <1>3, <2>1, <2>2, StreamStays
<1>9. CASE s = media_type
  <2> DEFINE i == Head(queue[s])
             H == Elements(held[s])
             T == Elements(Tail(queue[s]))
  <2>1. queue[s] \in Seq(Nat) /\ queue[s] # <<>> /\ held[s] \in Seq(Nat)
    BY <1>6, <1>9
  <2>2. i \in Nat /\ Elements(queue[s]) = T \union {i}
    BY <2>1, TailFacts
  <2>3. kept = Append(held[s], i)
    BY <1>4, <1>9
  <2>4. /\ Increasing(held[s]) /\ Increasing(queue[s])
        /\ Before(skipped[s], shown[s])
        /\ Before(Out(s), H \union T \union {i}) /\ Before(H, T \union {i})
    BY <1>1, <2>2 DEF Accounted, InOrder
  <2>5. Increasing(Tail(queue[s])) /\ \A y \in T : i < y
    BY <2>1, <2>4, TailFacts
  <2> HIDE DEF i
  <2>6. Elements(kept) = H \union {i} /\ Increasing(kept)
    BY <2>1, <2>2, <2>3, <2>4, AppendFacts DEF Before
  <2>7. H \union {i} = F \union R /\ Before(F, R) /\ Increasing(SubSeq(kept, k + 1, Len(kept)))
    BY <1>5, <2>6
  <2>8. /\ queue'[s] = Tail(queue[s]) /\ held'[s] = SubSeq(kept, k + 1, Len(kept))
        /\ discarded'[s] = discarded[s]
    BY <1>1, <1>2, <1>6, <1>7, <1>9 DEF TypeOK
  <2>9. /\ Elements(held[s])' = R /\ Increasing(held[s])'
        /\ Elements(queue[s])' = T /\ Increasing(queue[s])'
    BY <2>5, <2>7, <2>8 DEF Elements, Increasing
  <2>10. \/ skipped'[s] = skipped[s] \union F /\ shown'[s] = shown[s] /\ (F = {} \/ jumping)
         \/ skipped'[s] = skipped[s] /\ shown'[s] = shown[s] \union F
    <3>1. CASE k = 0
      BY <1>5, <1>7, <3>1
    <3>2. CASE k # 0
      BY <1>1, <1>5, <1>7, <1>9, <3>2, ReturnFramesHistory
    <3>3. QED
      BY <3>1, <3>2
  <2>11. jumping => shown[s] = {}
    BY <1>1 DEF JumpFirst
  <2> HIDE DEF F, R, H, T
  <2>12. Out(s)' = Out(s) \union F
    BY <2>8, <2>10 DEF Out
  <2>13. Before(Out(s), F \union R \union T)
    BY <2>4, <2>7 DEF Before
  <2>14. Before(F \union R, T)
    BY <2>4, <2>5, <2>7 DEF Before
  <2>15. Before(skipped[s], shown[s])'
    BY <2>4, <2>10, <2>11, <2>13 DEF Before, Out
  <2>16. Before(Out(s)', R \union T) /\ Before(R, T)
    BY <2>7, <2>12, <2>13, <2>14 DEF Before
  <2>17. InOrder(s)'
    BY <2>9, <2>15, <2>16 DEF InOrder, Before
  <2>18. Kept(s)' = Kept(s)
    BY <2>2, <2>7, <2>9, <2>12 DEF Kept, H
  <2>19. QED
    BY <1>1, <1>2, <1>3, <2>17, <2>18 DEF Accounted
<1>10. QED
  BY <1>8, <1>9

(* A jump empties everything, and nothing has been read after it.          *)
LEMMA JumpAccounted ==
  ASSUME TypeOK, NEW time, jump_to_time(time), NEW s \in decs
  PROVE  Accounted(s)'
<1>1. /\ queue'[s] = <<>> /\ held'[s] = <<>> /\ skipped'[s] = {} /\ shown'[s] = {}
      /\ discarded'[s] = {} /\ pos' = from'
  BY DEF TypeOK, jump_to_time, reset
<1>2. pos' \in Int
  <2>1. file \in Seq(Packet) /\ Len(file) \in Nat
    BY FilesAssumption DEF TypeOK
  <2>2. QED
    BY <2>1 DEF jump_to_time
<1>3. Read(s)' = {}
  BY <1>1, <1>2 DEF Read
<1>4. /\ Elements(queue[s])' = {} /\ Elements(held[s])' = {}
      /\ Increasing(queue[s])' /\ Increasing(held[s])'
  BY <1>1, EmptyFacts DEF Elements, Increasing
<1>5. QED
  BY <1>1, <1>3, <1>4 DEF Accounted, InOrder, Before, Kept, Out

LEMMA AccountedStep ==
  ASSUME TypeOK, JumpFirst, NothingLost, [Next]_vars
  PROVE  NothingLost'
<1>1. decs' = decs
  BY DEF Next, Step, next_frames, jump_to_time, Loop, fetch_next, FetchEnds, NothingDecoded,
         DecodePacket, DecodeFails, vars
<1>2. CASE (\E s \in Streams : next_frames(s)) \/ Loop \/ FetchEnds \/ UNCHANGED vars
  BY <1>2, NothingMoves DEF streamState, next_frames, Loop, FetchEnds, history, vars
<1>3. CASE NothingDecoded
  BY <1>3, NothingMoves DEF streamState, NothingDecoded, ReturnNothing
<1>4. CASE fetch_next \/ DecodePacket \/ DecodeFails
  BY <1>1, <1>4, FetchAccounted, DecodeAccounted, FailAccounted DEF NothingLost
<1>5. CASE \E time \in Times : jump_to_time(time)
  BY <1>1, <1>5, JumpAccounted DEF NothingLost
<1>6. QED
  BY <1>2, <1>3, <1>4, <1>5 DEF Next, Step

(* A frame is shown only by a call that no jump makes.                     *)
LEMMA JumpFirstStep ==
  ASSUME TypeOK, JumpFirst, [Next]_vars
  PROVE  JumpFirst'
<1>1. CASE (\E s \in Streams : next_frames(s)) \/ Loop \/ fetch_next \/ FetchEnds
             \/ DecodeFails \/ UNCHANGED vars
  BY <1>1 DEF JumpFirst, next_frames, Loop, fetch_next, FetchEnds, DecodeFails, history, vars
<1>2. CASE NothingDecoded
  BY <1>2 DEF history, JumpFirst, NothingDecoded, ReturnNothing, StreamReached
<1>3. CASE DecodePacket
  BY <1>3 DEF JumpFirst, DecodePacket, ReturnFrames, StreamReached
<1>4. CASE \E time \in Times : jump_to_time(time)
  BY <1>4 DEF JumpFirst, jump_to_time
<1>5. QED
  BY <1>1, <1>2, <1>3, <1>4 DEF Next, Step

LEMMA InitInv ==
  ASSUME Init
  PROVE  IInv
<1>1. TypeOK /\ JumpFirst
  BY InitType DEF Init, JumpFirst
<1>2. ASSUME NEW s \in decs
      PROVE  Accounted(s)
  <2>1. /\ queue[s] = <<>> /\ held[s] = <<>> /\ Read(s) = {}
        /\ skipped[s] = {} /\ shown[s] = {} /\ discarded[s] = {}
    BY <1>2 DEF Init, Read
  <2>2. QED
    BY <2>1, EmptyFacts DEF Accounted, InOrder, Before, Kept, Out
<1>3. QED
  BY <1>1, <1>2 DEF IInv, NothingLost

LEMMA InvStep ==
  ASSUME IInv, [Next]_vars
  PROVE  IInv'
BY TypeStep, JumpFirstStep, AccountedStep DEF IInv

(* For any file, any streams, any delay of their codecs and any number of  *)
(* packets fetched at a time: a frame that can be decoded is never lost,   *)
(* shown twice or out of order.                                            *)
THEOREM PacketsKept == Spec => []NothingLost
<1>1. Init => IInv
  BY InitInv
<1>2. IInv /\ [Next]_vars => IInv'
  BY InvStep
<1>3. IInv => NothingLost
  BY DEF IInv
<1>4. QED
  BY <1>1, <1>2, <1>3, PTL DEF Spec
-----------------------------------------------------------------------------
(* A fetch that found nothing has read the file to its end, or the reader  *)
(* failed.                                                                 *)
FetchedNothing == pc = "decode" /\ fetch_count = 0 => pos = Len(file) + 1 \/ refused

CodecsHold == \A s \in Streams : Len(held[s]) <= Delay[s]

EndInv == FetchedNothing /\ CodecsHold /\ EmptyMeansStopped

(* Only a packet that is decoded, or fails, changes what a codec holds.    *)
LEMMA CodecsHoldStep ==
  ASSUME TypeOK, CodecsHold, [Next]_vars
  PROVE  CodecsHold'
<1>1. CASE held' = held
  BY <1>1 DEF CodecsHold
<1>2. CASE held' = [s \in Streams |-> <<>>]
  BY <1>2, StreamsAssumption DEF CodecsHold
<1>3. CASE DecodePacket
  <2>1. PICK kept \in Seq(Nat), k \in Nat : Gives(kept, k)
    BY <1>3, DecodeParts
  <2>2. Len(SubSeq(kept, k + 1, Len(kept))) <= Delay[media_type]
    BY <2>1, SplitFacts DEF Gives
  <2>3. \A s \in Streams : held'[s] = IF s = media_type THEN SubSeq(kept, k + 1, Len(kept)) ELSE held[s]
    BY <2>1 DEF Gives, TypeOK
  <2>4. QED
    BY <2>2, <2>3 DEF CodecsHold
<1>4. CASE DecodeFails
  <2>1. media_type \in Streams /\ held[media_type] \in Seq(Nat)
    BY DEF TypeOK
  <2> DEFINE h == held[media_type]
  <2>2. PICK k \in 0 .. Len(h) : held' = [held EXCEPT ![media_type] = SubSeq(h, k + 1, Len(h))]
    BY <1>4, FailParts
  <2>3. Len(SubSeq(h, k + 1, Len(h))) = Len(h) - k /\ Len(h) \in Nat
    BY <2>1, SplitFacts
  <2>4. Len(h) <= Delay[media_type] /\ Delay[media_type] \in Nat
    BY <2>1, StreamsAssumption DEF CodecsHold
  <2>5. \A s \in Streams : held'[s] = IF s = media_type THEN SubSeq(h, k + 1, Len(h)) ELSE held[s]
    BY <2>2 DEF TypeOK
  <2> HIDE DEF h
  <2>6. Len(SubSeq(h, k + 1, Len(h))) <= Delay[media_type]
    BY <2>3, <2>4
  <2>7. QED
    BY <2>5, <2>6 DEF CodecsHold
<1>5. QED
  BY <1>1, <1>2, <1>3, <1>4 DEF Next, Step, vars, next_frames, Loop, fetch_next, FetchEnds,
     NothingDecoded, jump_to_time, reset

LEMMA EndStep ==
  ASSUME TypeOK, EndInv, [Next]_vars
  PROVE  EndInv'
<1>0. SUFFICES FetchedNothing' /\ EmptyMeansStopped'
  BY CodecsHoldStep DEF EndInv
<1>a. Len(file) \in Nat /\ pos \in 1 .. Len(file) + 1
  BY FilesAssumption DEF TypeOK
<1>b. media_type \in Streams /\ decs \subseteq Streams
  BY DEF TypeOK
<1>1. CASE (\E s \in Streams : next_frames(s)) \/ Loop \/ \E time \in Times : jump_to_time(time)
  BY <1>1 DEF FetchedNothing, EmptyMeansStopped, next_frames, Loop, jump_to_time, EndInv, NO_FETCH_MADE
<1>2. CASE fetch_next
  <2>1. fetch_count' >= Requested => fetch_count' # 0
    BY <1>2, CountsAssumption
  <2>2. pc' # "idle" /\ (pc' = "decode" => fetch_count' >= Requested)
    BY <1>2 DEF fetch_next
  <2>3. QED
    BY <2>1, <2>2 DEF FetchedNothing, EmptyMeansStopped
<1>3. CASE FetchEnds
  <2>1. pos = Len(file) + 1 \/ pos <= Len(file)
    BY <1>a
  <2>2. UNCHANGED <<pos, file>> /\ pc' = "decode" /\ (refused' <=> pos <= Len(file))
    BY <1>3 DEF FetchEnds
  <2>3. QED
    BY <2>1, <2>2 DEF FetchedNothing, EmptyMeansStopped
<1>4. CASE NothingDecoded
  <2>1. UNCHANGED <<pos, file, held, queue, fetch_count, refused>> /\ pc' # "decode"
    BY <1>4 DEF NothingDecoded, ReturnNothing, StreamReached
  <2>2. pc' = "idle" => fetch_count = 0 /\ media_type' = media_type
    BY <1>4 DEF NothingDecoded, ReturnNothing, StreamReached
  <2>3. pc = "decode" /\ queue[media_type] = <<>>
    BY <1>4 DEF NothingDecoded
  <2>4. QED
    BY <1>b, <2>1, <2>2, <2>3 DEF EndInv, FetchedNothing, CodecsHold, EmptyMeansStopped
<1>5. CASE DecodePacket
  <2>1. UNCHANGED <<pos, file, fetch_count, refused>> /\ pc = "decode"
    BY <1>5 DEF DecodePacket
  <2>2. pc' = "idle" => ~empty'
    BY <1>5 DEF DecodePacket, ReturnFrames
  <2>3. QED
    BY <2>1, <2>2 DEF EndInv, FetchedNothing, EmptyMeansStopped
<1>6. CASE DecodeFails
  BY <1>6 DEF DecodeFails, EndInv, FetchedNothing, EmptyMeansStopped
<1>7. CASE UNCHANGED vars
  BY <1>7 DEF vars, EndInv, FetchedNothing, EmptyMeansStopped
<1>8. QED
  BY <1>1, <1>2, <1>3, <1>4, <1>5, <1>6, <1>7 DEF Next, Step

(* For any file, streams and codecs, wherever the reader fails: a call     *)
(* that returns no frame was stopped by the end of the file or by the      *)
(* reader, and left nothing in the queue of its stream.                    *)
THEOREM EmptyWhenStopped == Spec => []EmptyMeansStopped
<1>1. Init => TypeOK /\ EndInv
  <2>1. SUFFICES ASSUME Init PROVE TypeOK /\ EndInv
    OBVIOUS
  <2>2. CodecsHold
    BY <2>1, StreamsAssumption DEF Init, CodecsHold
  <2>3. QED
    BY <2>1, <2>2, InitType DEF Init, EndInv, FetchedNothing, EmptyMeansStopped
<1>2. TypeOK /\ EndInv /\ [Next]_vars => (TypeOK /\ EndInv)'
  BY TypeStep, EndStep
<1>3. EndInv => EmptyMeansStopped
  BY DEF EndInv
<1>4. QED
  BY <1>1, <1>2, <1>3, PTL DEF Spec
-----------------------------------------------------------------------------
(* The packets that were dropped since the last frame came out.            *)
Dropped(s) == { i \in Read(s) \ Kept(s) : \A j \in skipped[s] \union shown[s] : j < i }

(* Each failed attempt has dropped one of them.                            *)
FailuresCounted ==
  /\ pc = "fetch" => failures = 0
  /\ pc = "decode" => Cardinality(Dropped(media_type)) >= failures
  /\ pc = "thrown" => Cardinality(Dropped(media_type)) > ALLOWED_FAILURES

LEMMA DroppedFinite ==
  ASSUME TypeOK, NEW s
  PROVE  IsFiniteSet(Dropped(s)) /\ Cardinality(Dropped(s)) \in Nat
<1>1. from \in Int /\ pos - 1 \in Int
  BY FilesAssumption DEF TypeOK
<1>2. Dropped(s) \in SUBSET (from .. pos - 1)
  BY DEF Dropped, Read
<1>3. QED
  BY <1>1, <1>2, FS_Interval, FS_Subset, FS_CardinalityType

(* A packet that fails is later than every frame that came out, and one    *)
(* more of those that were dropped.                                        *)
LEMMA FailDropsOne ==
  ASSUME TypeOK, NothingLost, DecodeFails
  PROVE  Cardinality(Dropped(media_type))' = Cardinality(Dropped(media_type)) + 1
<1> DEFINE s == media_type
           i == Head(queue[s])
           T == Elements(Tail(queue[s]))
           H == Elements(held[s])
<1>1. s \in decs /\ s \in Streams /\ Accounted(s)
  BY DEF TypeOK, NothingLost
<1>2. UNCHANGED <<file, pos, from, skipped, shown, media_type>>
  BY DEF DecodeFails
<1>3. PICK k \in 0 .. Len(held[s]) :
        /\ held' = [held EXCEPT ![s] = SubSeq(held[s], k + 1, Len(held[s]))]
        /\ discarded' = [discarded EXCEPT ![s] = @ \union Elements(SubSeq(held[s], 1, k))]
  BY FailParts
<1>4. /\ queue[s] \in Seq(Nat) /\ queue[s] # <<>> /\ queue'[s] = Tail(queue[s])
      /\ held[s] \in Seq(Nat)
  BY <1>1, FailParts DEF TypeOK
<1> DEFINE F == Elements(SubSeq(held[s], 1, k))
           R == Elements(SubSeq(held[s], k + 1, Len(held[s])))
<1>5. H = F \union R
  BY <1>4, SplitFacts
<1>6. held'[s] = SubSeq(held[s], k + 1, Len(held[s])) /\ discarded'[s] = discarded[s] \union F
  BY <1>1, <1>3 DEF TypeOK
<1>7. /\ i \in Nat /\ Elements(queue[s]) = T \union {i}
      /\ \A y \in T : i < y
  BY <1>1, <1>4, TailFacts DEF Accounted, InOrder
<1> HIDE DEF s
<1>8. /\ Elements(queue[s])' = T /\ Elements(held[s])' = R
      /\ skipped[s]' = skipped[s] /\ shown[s]' = shown[s] /\ discarded[s]' = discarded[s] \union F
  BY <1>2, <1>4, <1>6 DEF Elements, s
<1> HIDE DEF i, T, H, F, R
<1>9. /\ \A x \in H : x < i
      /\ \A x \in Out(s) : x < i
      /\ i \in Kept(s) /\ i \in Read(s)
  BY <1>1, <1>7 DEF Accounted, InOrder, Before, Kept, H
<1>10. Kept(s) = Out(s) \union H \union T \union {i}
  BY <1>7 DEF Kept, H
<1>11. Kept(s)' = Out(s) \union H \union T
  BY <1>5, <1>8 DEF Kept, Out
<1>12. i \notin Kept(s)'
  <2>1. ~(i < i)
    BY <1>7
  <2>2. QED
    BY <1>7, <1>9, <1>11, <2>1
<1>13. Read(s)' = Read(s)
  BY <1>2 DEF Read, s
<1>14. \A x \in skipped[s] \union shown[s] : x < i
  BY <1>9 DEF Out
<1>15. Dropped(s)' = Dropped(s) \union {i} /\ i \notin Dropped(s)
  BY <1>8, <1>9, <1>10, <1>11, <1>12, <1>13, <1>14 DEF Dropped
<1>16. Cardinality(Dropped(s)') = Cardinality(Dropped(s)) + 1
  BY <1>15, DroppedFinite, FS_AddElement
<1>17. QED
  BY <1>2, <1>16 DEF s

(* A packet that goes to a codec which gives nothing is not dropped.       *)
LEMMA KeptIsNotDropped ==
  ASSUME TypeOK, DecodePacket, pc' = "decode"
  PROVE  Dropped(media_type)' = Dropped(media_type)
<1> DEFINE s == media_type
           i == Head(queue[s])
<1>1. PICK kept \in Seq(Nat), k \in Nat : kept = Append(held[s], i) /\ Gives(kept, k)
  BY DecodeParts
<1> DEFINE F == Elements(SubSeq(kept, 1, k))
           R == Elements(SubSeq(kept, k + 1, Len(kept)))
<1>2. k = 0
  BY <1>1 DEF Gives, ReturnFrames, StreamReached
<1>3. Elements(kept) = F \union R /\ F = {}
  BY <1>1, <1>2, SplitFacts DEF Gives
<1>4. /\ s \in Streams /\ queue[s] \in Seq(Nat) /\ queue[s] # <<>> /\ held[s] \in Seq(Nat)
      /\ queue' = [queue EXCEPT ![s] = Tail(queue[s])]
      /\ UNCHANGED <<file, pos, from, discarded>>
  BY DecodeParts
<1>5. i \in Nat /\ Elements(queue[s]) = Elements(Tail(queue[s])) \union {i}
  BY <1>4, TailFacts
<1>6. /\ held' = [held EXCEPT ![s] = SubSeq(kept, k + 1, Len(kept))]
      /\ UNCHANGED <<skipped, shown, media_type>>
  BY <1>1, <1>2 DEF Gives
<1>7. queue'[s] = Tail(queue[s]) /\ held'[s] = SubSeq(kept, k + 1, Len(kept))
  BY <1>4, <1>6 DEF TypeOK
<1> HIDE DEF i
<1>8. Elements(kept) = Elements(held[s]) \union {i}
  BY <1>1, <1>4, <1>5, AppendFacts
<1> HIDE DEF s
<1>9. /\ Elements(queue[s])' = Elements(Tail(queue[s])) /\ Elements(held[s])' = R
      /\ skipped[s]' = skipped[s] /\ shown[s]' = shown[s] /\ Out(s)' = Out(s)
  BY <1>4, <1>6, <1>7 DEF Elements, Out, s
<1> HIDE DEF F, R
<1>10. Kept(s)' = Kept(s)
  BY <1>3, <1>5, <1>8, <1>9 DEF Kept
<1>11. Read(s)' = Read(s)
  BY <1>4, <1>6 DEF Read, s
<1>12. Dropped(s)' = Dropped(s)
  BY <1>9, <1>10, <1>11 DEF Dropped
<1>13. QED
  BY <1>6, <1>12 DEF s

LEMMA FailuresCountedStep ==
  ASSUME IInv, FailuresCounted, [Next]_vars
  PROVE  FailuresCounted'
<1>a. TypeOK /\ TypeOK' /\ NothingLost
  BY TypeStep DEF IInv
<1>b. /\ failures \in Nat /\ ALLOWED_FAILURES \in Nat
      /\ Cardinality(Dropped(media_type)) \in Nat
  BY <1>a, DroppedFinite, CountsAssumption DEF TypeOK
<1>c. Cardinality(Dropped(media_type))' \in Nat
  <2>1. IsFiniteSet(Dropped(media_type)')
    <3>1. from' \in Int /\ pos' - 1 \in Int
      BY <1>a, FilesAssumption DEF TypeOK
    <3>2. Dropped(media_type)' \in SUBSET (from' .. pos' - 1)
      BY DEF Dropped, Read
    <3>3. QED
      BY <3>1, <3>2, FS_Interval, FS_Subset
  <2>2. QED
    BY <2>1, FS_CardinalityType
<1>1. CASE pc' \in {"idle", "loop"}
  BY <1>1 DEF FailuresCounted
<1>2. CASE Loop
  <2>1. failures' = 0 /\ pc' # "thrown"
    BY <1>2 DEF Loop
  <2>2. QED
    BY <1>c, <2>1 DEF FailuresCounted
<1>3. CASE fetch_next \/ FetchEnds
  <2>1. failures = 0 /\ failures' = failures /\ pc' # "thrown"
    BY <1>3 DEF FailuresCounted, fetch_next, FetchEnds
  <2>2. QED
    BY <1>c, <2>1 DEF FailuresCounted
<1>4. CASE DecodePacket /\ pc' \notin {"idle", "loop"}
  <2>1. pc = "decode" /\ pc' = "decode" /\ failures' = failures
    BY <1>4 DEF DecodePacket, ReturnFrames, StreamReached
  <2>2. QED
    BY <1>4, <1>a, <2>1, KeptIsNotDropped DEF FailuresCounted
<1>5. CASE DecodeFails
  <2>1. Cardinality(Dropped(media_type))' = Cardinality(Dropped(media_type)) + 1
    BY <1>5, <1>a, FailDropsOne
  <2>2. pc = "decode" /\ Cardinality(Dropped(media_type)) >= failures
    BY <1>5 DEF DecodeFails, FailuresCounted
  <2>3. CASE failures >= ALLOWED_FAILURES
    BY <1>5, <1>b, <2>1, <2>2, <2>3 DEF DecodeFails, FailuresCounted
  <2>4. CASE ~(failures >= ALLOWED_FAILURES)
    BY <1>5, <1>b, <2>1, <2>2, <2>4 DEF DecodeFails, FailuresCounted
  <2>5. QED
    BY <2>3, <2>4
<1>6. CASE UNCHANGED vars
  BY <1>6 DEF vars, FailuresCounted, Dropped, Read, Kept, Out, Elements
<1>7. CASE (\E s \in Streams : next_frames(s)) \/ NothingDecoded \/ \E time \in Times : jump_to_time(time)
  <2>1. pc' \in {"idle", "loop"}
    BY <1>7 DEF next_frames, NothingDecoded, ReturnNothing, StreamReached, jump_to_time
  <2>2. QED
    BY <1>1, <2>1
<1>8. QED
  BY <1>1, <1>2, <1>3, <1>4, <1>5, <1>6, <1>7 DEF Next, Step

(* For any file, streams and codecs, and any number of allowed failures: a *)
(* call throws only after more packets than that failed since a frame was  *)
(* returned.                                                               *)
THEOREM ThrowsOnlyForMany == Spec => []ThrowsForMany
<1>1. Init => IInv /\ FailuresCounted
  <2>1. SUFFICES ASSUME Init PROVE IInv /\ FailuresCounted
    OBVIOUS
  <2>2. IInv
    BY <2>1, InitInv
  <2>3. QED
    BY <2>1, <2>2 DEF Init, FailuresCounted
<1>2. IInv /\ FailuresCounted /\ [Next]_vars => (IInv /\ FailuresCounted)'
  BY InvStep, FailuresCountedStep
<1>3. FailuresCounted => ThrowsForMany
  BY DEF FailuresCounted, ThrowsForMany, Dropped
<1>4. QED
  BY <1>1, <1>2, <1>3, PTL DEF Spec
-----------------------------------------------------------------------------
(* Later packets of a stream have later times.                             *)
LEMMA PtsOrder ==
  ASSUME TypeOK, NEW i \in Nat, NEW j \in Nat, i < j, i >= 1, file[i].stream = file[j].stream
  PROVE  pts(i) < pts(j)
<1> DEFINE S(k) == { m \in 1 .. k - 1 : file[m].stream = file[k].stream }
<1>1. \A k \in Nat : IsFiniteSet(S(k)) /\ Cardinality(S(k)) \in Nat
  <2>1. ASSUME NEW k \in Nat PROVE IsFiniteSet(S(k))
    <3>1. S(k) \in SUBSET (1 .. k - 1)
      OBVIOUS
    <3>2. IsFiniteSet(1 .. k - 1)
      BY FS_Interval
    <3>3. QED
      BY <3>1, <3>2, FS_Subset
  <2>2. QED
    BY <2>1, FS_CardinalityType
<1>2. S(i) \union {i} \in SUBSET S(j) /\ i \notin S(i)
  OBVIOUS
<1>3. /\ IsFiniteSet(S(i)) /\ Cardinality(S(i)) \in Nat
      /\ IsFiniteSet(S(j)) /\ Cardinality(S(j)) \in Nat
  BY <1>1
<1>4. pts(i) = Cardinality(S(i)) /\ pts(j) = Cardinality(S(j))
  BY DEF pts
<1> HIDE DEF S
<1>5. Cardinality(S(i) \union {i}) = Cardinality(S(i)) + 1
  BY <1>2, <1>3, FS_AddElement
<1>6. Cardinality(S(i) \union {i}) <= Cardinality(S(j))
  BY <1>2, <1>3, FS_Subset
<1>7. QED
  BY <1>3, <1>4, <1>5, <1>6

LEMMA PtsType ==
  ASSUME NEW i \in Nat
  PROVE  pts(i) \in Nat
<1> DEFINE S == { m \in 1 .. i - 1 : file[m].stream = file[i].stream }
<1>1. IsFiniteSet(1 .. i - 1) /\ S \in SUBSET (1 .. i - 1)
  BY FS_Interval
<1>2. IsFiniteSet(S)
  BY <1>1, FS_Subset
<1>3. QED
  BY <1>2, FS_CardinalityType DEF pts

(* A jump has not reached its target in this stream yet.                   *)
Ahead(s) == \A j \in skipped[s] : ~Reaches(j)

(* There was no jump, or one of the frames thrown away has reached the     *)
(* target, or the stream ended before it, when nothing more comes, or the  *)
(* reader failed.                                                          *)
NoJump(s) == target = -1 /\ skipped[s] = {}
HasReached(s) == \E i \in skipped[s] : Reaches(i)
Ended(s) == shown[s] = {} /\ pos = Len(file) + 1 /\ queue[s] = <<>>

Landed(s) == NoJump(s) \/ HasReached(s) \/ Ended(s) \/ s \in cut

JumpInv == \A s \in decs : IF jumping /\ s >= media_type THEN Ahead(s) ELSE Landed(s)

(* What JumpInv says in a state: a frame shown is later, in the order of   *)
(* the stream, than one that reached the target.                           *)
LEMMA JumpInvLands ==
  ASSUME IInv, JumpInv
  PROVE  JumpLands
<1> SUFFICES ASSUME NEW s \in decs, s \notin cut, NEW i \in shown[s]
             PROVE  pts(i) > target
  BY DEF JumpLands
<1>1. TypeOK /\ Accounted(s) /\ s \in Streams /\ ~jumping
  BY DEF IInv, NothingLost, TypeOK, JumpFirst
<1>2. from \in Nat /\ from >= 1 /\ target \in Int
  BY <1>1, FilesAssumption DEF TypeOK
<1>3. skipped[s] \subseteq Nat /\ shown[s] \subseteq Nat
  BY <1>1 DEF TypeOK
<1>4. \A j \in skipped[s] \union shown[s] : j >= 1 /\ file[j].stream = s
  BY <1>1, <1>2, <1>3 DEF Accounted, Kept, Out, Read
<1>5. NoJump(s) \/ HasReached(s)
  BY <1>1 DEF JumpInv, Landed, Ended
<1>6. CASE NoJump(s)
  BY <1>3, <1>6, PtsType DEF NoJump
<1>7. CASE HasReached(s)
  <2>1. PICK j \in skipped[s] : pts(j) >= target
    BY <1>7 DEF HasReached, Reaches
  <2>2. j < i
    BY <1>1 DEF Accounted, InOrder, Before
  <2>3. i \in Nat /\ j \in Nat /\ j >= 1 /\ file[j].stream = file[i].stream
    BY <1>3, <1>4
  <2>4. pts(j) < pts(i)
    BY <1>1, <2>2, <2>3, PtsOrder
  <2>5. pts(i) \in Nat /\ pts(j) \in Nat
    BY <2>3, PtsType
  <2>6. QED
    BY <1>2, <2>1, <2>4, <2>5
<1>8. QED
  BY <1>5, <1>6, <1>7

(* A step that throws no frame away and leaves the jump where it is: the   *)
(* streams that ended stay at their end.                                   *)
LEMMA JumpStays ==
  ASSUME JumpInv, UNCHANGED <<file, decs, skipped, target, jumping>>, cut \subseteq cut',
         jumping => media_type' = media_type,
         \A s \in decs : Ended(s) => Ended(s)'
  PROVE  JumpInv'
<1> SUFFICES ASSUME NEW s \in decs
             PROVE  IF jumping /\ s >= media_type' THEN Ahead(s)' ELSE Landed(s)'
  BY DEF JumpInv
<1>1. /\ Ahead(s)' = Ahead(s) /\ NoJump(s)' = NoJump(s) /\ HasReached(s)' = HasReached(s)
  BY DEF Ahead, NoJump, HasReached, Reaches, pts
<1>2. Landed(s) => Landed(s)'
  BY <1>1 DEF Landed
<1>3. CASE jumping
  BY <1>1, <1>2, <1>3 DEF JumpInv
<1>4. CASE ~jumping
  BY <1>2, <1>4 DEF JumpInv
<1>5. QED
  BY <1>3, <1>4

(* What a stream has come to is not changed by what happens to another.    *)
LEMMA OtherStays ==
  ASSUME NEW s, UNCHANGED <<file, target, pos>>, cut \subseteq cut',
         skipped'[s] = skipped[s], shown'[s] = shown[s], queue'[s] = queue[s]
  PROVE  (Ahead(s) => Ahead(s)') /\ (Landed(s) => Landed(s)')
<1>1. \A i : Reaches(i)' = Reaches(i)
  BY DEF Reaches, pts
<1>2. /\ Ahead(s)' = Ahead(s) /\ NoJump(s)' = NoJump(s) /\ HasReached(s)' = HasReached(s)
      /\ Ended(s)' = Ended(s)
  BY <1>1 DEF Ahead, NoJump, HasReached, Ended
<1>3. QED
  BY <1>2 DEF Landed

(* The stream of the call has landed, and the jump goes on or returns.     *)
LEMMA JumpGoesOn ==
  ASSUME TypeOK, JumpInv, jumping, StreamReached, UNCHANGED <<file, decs, target, pos>>,
         cut \subseteq cut',
         NEW m, m = media_type, Landed(m)',
         \A s \in decs \ {m} :
           skipped'[s] = skipped[s] /\ shown'[s] = shown[s] /\ queue'[s] = queue[s]
  PROVE  JumpInv'
<1>1. decs \subseteq Nat /\ m \in decs
  BY StreamsAssumption DEF TypeOK
<1>2. ASSUME NEW s \in decs, s # m
      PROVE  /\ Ahead(s) => Ahead(s)'
             /\ Landed(s) => Landed(s)'
  BY <1>2, OtherStays
<1>3. CASE Later = {}
  <2>1. jumping' = FALSE
    BY <1>3 DEF StreamReached
  <2>2. \A s \in decs : s # m => ~(s >= m)
    BY <1>1, <1>3 DEF Later
  <2>3. ASSUME NEW s \in decs PROVE Landed(s)'
    <3>1. CASE s = m
      BY <3>1
    <3>2. CASE s # m
      BY <1>2, <2>2, <3>2 DEF JumpInv
    <3>3. QED
      BY <3>1, <3>2
  <2>4. QED
    BY <2>1, <2>3 DEF JumpInv
<1>4. CASE Later # {}
  <2>1. jumping' = jumping /\ First(media_type', Later)
    BY <1>4 DEF StreamReached
  <2>2. media_type' \in decs /\ media_type' > m
        /\ \A r \in decs : r > m => media_type' <= r
    BY <2>1 DEF First, Later
  <2>3. ASSUME NEW s \in decs
        PROVE  IF s >= media_type' THEN Ahead(s)' ELSE Landed(s)'
    <3>1. CASE s >= media_type'
      <4>1. s >= m /\ s # m
        BY <1>1, <2>2, <3>1
      <4>2. QED
        BY <1>2, <3>1, <4>1 DEF JumpInv
    <3>2. CASE ~(s >= media_type') /\ s # m
      <4>1. ~(s >= m)
        BY <1>1, <2>2, <3>2
      <4>2. QED
        BY <1>2, <3>2, <4>1 DEF JumpInv
    <3>3. CASE s = m
      BY <1>1, <2>2, <3>3
    <3>4. QED
      BY <3>1, <3>2, <3>3
  <2>4. QED
    BY <2>1, <2>3 DEF JumpInv
<1>5. QED
  BY <1>3, <1>4

(* Frames come out: one of them reaches the target, or the jump goes on in *)
(* its stream.                                                             *)
LEMMA JumpFrames ==
  ASSUME IInv, JumpInv, DecodePacket, NEW S \in SUBSET Nat, ReturnFrames(S),
         NEW m, m = media_type
  PROVE  JumpInv'
<1>1. /\ TypeOK /\ m \in decs /\ m \in Streams /\ decs \subseteq Nat
      /\ UNCHANGED <<file, decs, target, pos, cut>> /\ queue[m] # <<>>
  BY StreamsAssumption DEF IInv, TypeOK, DecodePacket
<1>2. \A s \in decs \ {m} :
         skipped'[s] = skipped[s] /\ shown'[s] = shown[s] /\ queue'[s] = queue[s]
  <2>1. \A s \in Streams \ {m} : skipped'[s] = skipped[s] /\ shown'[s] = shown[s]
    BY <1>1, ReturnFramesHistory
  <2>2. \A s \in Streams \ {m} : queue'[s] = queue[s]
    BY <1>1 DEF DecodePacket, TypeOK
  <2>3. QED
    BY <1>1, <2>1, <2>2 DEF TypeOK
<1>3. \A i : Reaches(i)' = Reaches(i)
  BY <1>1 DEF Reaches, pts
<1> DEFINE R == \E i \in S : Reaches(i)
<1>4. CASE jumping
  <2>1. skipped'[m] = skipped[m] \union S /\ Ahead(m)
    BY <1>1, <1>4, ReturnFramesHistory DEF JumpInv
  <2>2. CASE R
    <3>1. StreamReached
      BY <1>4, <2>2 DEF ReturnFrames
    <3>2. HasReached(m)'
      BY <1>3, <2>1, <2>2 DEF HasReached
    <3>3. Landed(m)'
      BY <3>2 DEF Landed
    <3>4. QED
      BY <1>1, <1>2, <1>4, <3>1, <3>3, JumpGoesOn
  <2>3. CASE ~R
    <3>1. UNCHANGED <<media_type, jumping>>
      BY <1>4, <2>3 DEF ReturnFrames
    <3>2. Ahead(m)'
      BY <1>3, <2>1, <2>3 DEF Ahead
    <3>3. ASSUME NEW s \in decs, s # m
          PROVE  (Ahead(s) => Ahead(s)') /\ (Landed(s) => Landed(s)')
      BY <1>1, <1>2, <3>3, OtherStays
    <3>4. m = media_type /\ m >= m
      BY <1>1
    <3>5. ASSUME NEW s \in decs
          PROVE  IF jumping /\ s >= media_type THEN Ahead(s)' ELSE Landed(s)'
      <4>1. CASE s = m
        BY <1>4, <3>2, <3>4, <4>1
      <4>2. CASE s # m
        BY <3>3, <4>2 DEF JumpInv
      <4>3. QED
        BY <4>1, <4>2
    <3>6. QED
      BY <1>1, <3>1, <3>5 DEF JumpInv
  <2>4. QED
    BY <2>2, <2>3
<1>5. CASE ~jumping
  <2>1. UNCHANGED <<skipped, jumping>>
    BY <1>5 DEF ReturnFrames
  <2>2. ASSUME NEW s \in decs, Ended(s)
        PROVE  Ended(s)'
    <3>1. s # m
      BY <1>1, <2>2 DEF Ended
    <3>2. shown'[s] = shown[s] /\ queue'[s] = queue[s]
      BY <1>2, <3>1
    <3>3. QED
      BY <1>1, <2>2, <3>2 DEF Ended
  <2>3. QED
    BY <1>1, <1>5, <2>1, <2>2, JumpStays
<1>6. QED
  BY <1>4, <1>5

(* No call is made before the jump has returned.                           *)
JumpReturns == pc = "idle" => ~jumping

LEMMA JumpReturnsStep ==
  ASSUME JumpReturns, [Next]_vars
  PROVE  JumpReturns'
<1>1. CASE NothingDecoded \/ DecodePacket
  <2>1. pc = "decode"
    BY <1>1 DEF NothingDecoded, DecodePacket
  <2>2. QED
    BY <1>1, <2>1 DEF JumpReturns, NothingDecoded, DecodePacket, ReturnNothing, ReturnFrames, StreamReached
<1>2. QED
  BY <1>1 DEF JumpReturns, Next, Step, vars, next_frames, jump_to_time, Loop, fetch_next, FetchEnds, DecodeFails

LEMMA JumpStep ==
  ASSUME IInv, EndInv, JumpInv, JumpReturns, [Next]_vars
  PROVE  JumpInv'
<1>a. TypeOK /\ JumpFirst /\ FetchedNothing
  BY DEF IInv, EndInv
<1>b. media_type \in decs /\ media_type \in Streams /\ decs \subseteq Nat
  BY <1>a, StreamsAssumption DEF TypeOK
<1>1. CASE (\E s \in Streams : next_frames(s)) \/ Loop \/ FetchEnds \/ UNCHANGED vars
  <2>1. UNCHANGED <<file, decs, skipped, target, jumping, shown, pos, queue, cut>>
    BY <1>1 DEF next_frames, Loop, FetchEnds, history, vars
  <2>2. \A s \in decs : Ended(s) => Ended(s)'
    BY <2>1 DEF Ended
  <2>3. jumping => media_type' = media_type
    BY <1>1 DEF JumpReturns, next_frames, Loop, FetchEnds, vars
  <2>4. QED
    BY <2>1, <2>2, <2>3, JumpStays
<1>2. CASE fetch_next
  <2>1. /\ UNCHANGED <<file, decs, skipped, target, jumping, shown, media_type, cut>>
        /\ pos <= Len(file)
    BY <1>2 DEF fetch_next, history
  <2>2. \A s \in decs : ~Ended(s)
    BY <1>a, <2>1, FilesAssumption DEF Ended, TypeOK
  <2>3. QED
    BY <2>1, <2>2, JumpStays
<1>3. CASE DecodeFails
  <2>1. UNCHANGED <<file, decs, skipped, target, jumping, shown, media_type, pos, cut>>
    BY <1>3 DEF DecodeFails
  <2>2. ASSUME NEW s \in decs, Ended(s)
        PROVE  Ended(s)'
    <3>1. s # media_type
      BY <1>3, <2>2 DEF DecodeFails, Ended
    <3>2. queue'[s] = queue[s]
      BY <1>3, <1>a, <3>1 DEF DecodeFails, TypeOK
    <3>3. QED
      BY <2>1, <2>2, <3>2 DEF Ended
  <2>3. QED
    BY <2>1, <2>2, JumpStays
<1>4. CASE NothingDecoded
  <2>1. /\ UNCHANGED <<file, decs, target, skipped, shown, pos, queue>> /\ queue[media_type] = <<>>
        /\ cut \subseteq cut'
    BY <1>4 DEF NothingDecoded, ReturnNothing
  <2>2. CASE jumping /\ fetch_count = 0
    <3>1. StreamReached /\ (pos = Len(file) + 1 \/ refused)
      BY <1>4, <1>a, <2>2 DEF NothingDecoded, ReturnNothing, FetchedNothing
    <3>2. PICK m : m = media_type
      OBVIOUS
    <3>3. shown[m] = {} /\ queue[m] = <<>>
      BY <1>a, <1>b, <2>1, <2>2, <3>2 DEF JumpFirst
    <3>4. Landed(m)'
      <4>1. CASE pos = Len(file) + 1
        BY <2>1, <3>3, <4>1 DEF Landed, Ended
      <4>2. CASE refused
        BY <1>4, <2>2, <3>2, <4>2 DEF Landed, NothingDecoded, ReturnNothing
      <4>3. QED
        BY <3>1, <4>1, <4>2
    <3>5. QED
      BY <1>a, <2>1, <2>2, <3>1, <3>2, <3>4, JumpGoesOn
  <2>3. CASE ~(jumping /\ fetch_count = 0)
    <3>1. jumping' = jumping /\ media_type' = media_type
      BY <1>4, <2>3 DEF NothingDecoded, ReturnNothing
    <3>2. \A s \in decs : Ended(s) => Ended(s)'
      BY <2>1 DEF Ended
    <3>3. QED
      BY <2>1, <3>1, <3>2, JumpStays
  <2>4. QED
    BY <2>2, <2>3
<1>5. CASE DecodePacket
  <2>1. PICK kept \in Seq(Nat), k \in Nat : Gives(kept, k)
    BY <1>5, <1>a, DecodeParts
  <2>2. Elements(SubSeq(kept, 1, k)) \in SUBSET Nat
    BY <2>1, SplitFacts DEF Gives
  <2>3. CASE k # 0
    BY <1>5, <2>1, <2>2, <2>3, JumpFrames DEF Gives
  <2>4. CASE k = 0
    <3>1. /\ UNCHANGED <<file, decs, target, pos, cut, media_type, jumping, skipped, shown>>
          /\ queue[media_type] # <<>>
      BY <1>5, <2>1, <2>4 DEF DecodePacket, Gives
    <3>2. ASSUME NEW s \in decs, Ended(s)
          PROVE  Ended(s)'
      <4>1. s # media_type
        BY <3>1, <3>2 DEF Ended
      <4>2. queue'[s] = queue[s]
        BY <1>5, <1>a, <4>1 DEF DecodePacket, TypeOK
      <4>3. QED
        BY <3>1, <3>2, <4>2 DEF Ended
    <3>3. QED
      BY <3>1, <3>2, JumpStays
  <2>5. QED
    BY <2>3, <2>4
<1>6. CASE \E time \in Times : jump_to_time(time)
  <2>1. /\ decs' = decs /\ jumping' = TRUE
        /\ \A s \in decs : skipped'[s] = {}
        /\ media_type' \in decs /\ \A s \in decs : media_type' <= s
    BY <1>6, <1>a DEF jump_to_time, First, TypeOK
  <2>2. \A s \in decs : s >= media_type'
    BY <1>b, <2>1
  <2>3. \A s \in decs : Ahead(s)'
    BY <2>1 DEF Ahead
  <2>4. QED
    BY <2>1, <2>2, <2>3 DEF JumpInv
<1>7. QED
  BY <1>1, <1>2, <1>3, <1>4, <1>5, <1>6 DEF Next, Step

LEMMA JumpInductive ==
  /\ Init => IInv /\ EndInv /\ JumpInv /\ JumpReturns
  /\ IInv /\ EndInv /\ JumpInv /\ JumpReturns /\ [Next]_vars
       => (IInv /\ EndInv /\ JumpInv /\ JumpReturns)'
<1>1. Init => IInv /\ EndInv /\ JumpInv /\ JumpReturns
  <2>1. SUFFICES ASSUME Init PROVE IInv /\ EndInv /\ JumpInv /\ JumpReturns
    OBVIOUS
  <2>2. CodecsHold
    BY <2>1, StreamsAssumption DEF Init, CodecsHold
  <2>3. \A s \in decs : NoJump(s)
    BY <2>1, InitType DEF Init, NoJump, TypeOK
  <2>4. QED
    BY <2>1, <2>2, <2>3, InitInv
    DEF Init, EndInv, FetchedNothing, EmptyMeansStopped, JumpInv, Landed, JumpReturns
<1>2. IInv /\ EndInv /\ [Next]_vars => EndInv'
  BY EndStep DEF IInv
<1>3. QED
  BY <1>1, <1>2, InvStep, JumpStep, JumpReturnsStep

(* For any file, streams, codecs and targets, wherever the reader fails:   *)
(* every frame that is shown after a jump is past its target, if no read   *)
(* error cut the jump of its stream short.                                 *)
THEOREM JumpReachesTarget == Spec => []JumpLands
<1>1. IInv /\ JumpInv => JumpLands
  BY JumpInvLands
<1>2. QED
  BY <1>1, JumpInductive, PTL DEF Spec

(* While a jump throws frames of a stream away, none has reached its       *)
(* target.                                                                 *)
LEMMA ThrowsAwayStep ==
  ASSUME IInv, JumpInv, [Next]_vars, NEW s \in decs, NEW i \in skipped[s], Reaches(i)
  PROVE  skipped'[s] \in {skipped[s], {}}
<1>1. TypeOK /\ s \in Streams /\ media_type \in decs /\ decs \subseteq Nat
  BY StreamsAssumption DEF IInv, TypeOK
<1>2. CASE skipped' = skipped
  BY <1>2
<1>3. CASE \E time \in Times : jump_to_time(time)
  BY <1>1, <1>3 DEF jump_to_time
<1>4. CASE DecodePacket
  <2>1. PICK kept \in Seq(Nat), k \in Nat : Gives(kept, k)
    BY <1>1, <1>4, DecodeParts
  <2>2. Elements(SubSeq(kept, 1, k)) \in SUBSET Nat
    BY <2>1, SplitFacts DEF Gives
  <2>3. CASE k = 0
    BY <2>1, <2>3 DEF Gives
  <2>4. CASE k # 0 /\ ~(jumping /\ s = media_type)
    <3>1. ReturnFrames(Elements(SubSeq(kept, 1, k)))
      BY <2>1, <2>4 DEF Gives
    <3>2. skipped'[s] = skipped[s]
      BY <1>1, <2>2, <2>4, <3>1, ReturnFramesHistory
    <3>3. QED
      BY <3>2
  <2>5. CASE jumping /\ s = media_type
    <3>1. s >= media_type
      BY <1>1, <2>5
    <3>2. Ahead(s)
      BY <2>5, <3>1 DEF JumpInv
    <3>3. QED
      BY <3>2 DEF Ahead
  <2>6. QED
    BY <2>3, <2>4, <2>5
<1>5. QED
  BY <1>2, <1>3, <1>4 DEF Next, Step, vars, history, next_frames, Loop, fetch_next, FetchEnds,
     NothingDecoded, ReturnNothing, DecodeFails

(* For any file, streams, codecs and targets: no jump throws away a frame  *)
(* of a stream after one that has reached the target was thrown away.      *)
THEOREM JumpStopsThere == Spec => NoneThrownAfter
<1>1. IInv /\ JumpInv /\ [Next]_vars =>
        [\A s \in decs : \A i \in skipped[s] :
           Reaches(i) => skipped'[s] \in {skipped[s], {}}]_vars
  BY ThrowsAwayStep
<1>2. QED
  BY <1>1, JumpInductive, PTL DEF Spec, NoneThrownAfter
=============================================================================
