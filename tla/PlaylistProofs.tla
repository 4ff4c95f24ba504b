----------------------------- MODULE PlaylistProofs -----------------------------
(***************************************************************************)
(* The queue of a playlist holds every file once, whatever calls are made, *)
(* for any files and any bound on their number, and is in the order of the *)
(* files when it is not shuffled; what each call does to the current file  *)
(* follows from that.  Both are needed together: unshuffle() takes its     *)
(* place from the queue, and removing an entry looks for it in the queue,  *)
(* where it is because an injection of a finite set into one of the same   *)
(* size is onto (HoldsEveryIndex).                                         *)
(***************************************************************************)
EXTENDS Playlist, SequenceTheorems, FiniteSetTheorems, TLAPS

(* Sequences and functions on 1 .. n.                                      *)
LEMMA FunIsSeq ==
  ASSUME NEW S, NEW n \in Nat, NEW f \in [1 .. n -> S]
  PROVE  f \in Seq(S) /\ Len(f) = n
<1>1. f \in Seq(S)
  BY SeqDef
<1>2. Len(f) \in Nat /\ DOMAIN f = 1 .. Len(f) /\ DOMAIN f = 1 .. n
  BY <1>1, LenProperties
<1>. QED  BY <1>1, <1>2, SMT

LEMMA AppendIs ==
  ASSUME NEW S, NEW s \in Seq(S), NEW e \in S
  PROVE  /\ Append(s, e) \in Seq(S)
         /\ Len(Append(s, e)) = Len(s) + 1
         /\ \A k \in 1 .. Len(s) + 1 :
              Append(s, e)[k] = IF k = Len(s) + 1 THEN e ELSE s[k]
BY LenProperties, SMT

LEMMA SubSeqIs ==
  ASSUME NEW S, NEW s \in Seq(S), NEW m \in Nat \ {0}, NEW n \in 0 .. Len(s)
  PROVE  /\ SubSeq(s, m, n) \in Seq(S)
         /\ Len(SubSeq(s, m, n)) = IF m <= n THEN n - m + 1 ELSE 0
         /\ \A k \in 1 .. n - m + 1 : SubSeq(s, m, n)[k] = s[m + k - 1]
<1>1. \A i \in m .. n : s[i] \in S
  BY LenProperties, SMT
<1>. QED  BY <1>1, SubSeqProperties, SMT

LEMMA InsertAtIs ==
  ASSUME NEW S, NEW s \in Seq(S), NEW i \in 1 .. Len(s) + 1, NEW e \in S
  PROVE  /\ InsertAt(s, i, e) \in Seq(S)
         /\ Len(InsertAt(s, i, e)) = Len(s) + 1
         /\ \A k \in 1 .. Len(s) + 1 :
              InsertAt(s, i, e)[k] = IF k < i THEN s[k] ELSE IF k = i THEN e ELSE s[k - 1]
<1> DEFINE front == SubSeq(s, 1, i - 1)
           back  == SubSeq(s, i, Len(s))
<1>0. Len(s) \in Nat /\ i \in Nat /\ \A k \in 1 .. Len(s) : s[k] \in S
  BY LenProperties
<1>1. /\ front \in Seq(S) /\ Len(front) = i - 1
      /\ \A k \in 1 .. i - 1 : front[k] = s[k]
  BY <1>0, SubSeqIs, SMT
<1>2. /\ back \in Seq(S) /\ Len(back) = Len(s) - i + 1
      /\ \A k \in 1 .. Len(s) - i + 1 : back[k] = s[i + k - 1]
  BY <1>0, SubSeqIs, SMT
<1>3. <<e>> \in Seq(S) /\ Len(<<e>>) = 1 /\ <<e>>[1] = e
  OBVIOUS
<1> DEFINE start == front \o <<e>>
<1>4. /\ start \in Seq(S) /\ Len(start) = i
      /\ \A k \in 1 .. i : start[k] = IF k < i THEN s[k] ELSE e
  <2>1. /\ start \in Seq(S) /\ Len(start) = Len(front) + Len(<<e>>)
        /\ \A k \in 1 .. Len(front) + Len(<<e>>) :
             start[k] = IF k <= Len(front) THEN front[k] ELSE <<e>>[k - Len(front)]
    BY <1>1, <1>3, ConcatProperties, Zenon
  <2>. HIDE DEF start, front
  <2>. QED  BY <1>0, <1>1, <1>3, <2>1, SMT
<1>5. /\ start \o back \in Seq(S) /\ Len(start \o back) = Len(start) + Len(back)
      /\ \A k \in 1 .. Len(start) + Len(back) :
           (start \o back)[k] = IF k <= Len(start) THEN start[k] ELSE back[k - Len(start)]
  BY <1>2, <1>4, ConcatProperties, Zenon
<1>6. InsertAt(s, i, e) = start \o back
  BY DEF InsertAt
<1>. HIDE DEF start, front, back
<1>. QED  BY <1>0, <1>2, <1>4, <1>5, <1>6, SMT

LEMMA RemoveAtIs ==
  ASSUME NEW S, NEW s \in Seq(S), NEW i \in 1 .. Len(s)
  PROVE  /\ RemoveAt(s, i) \in Seq(S)
         /\ Len(RemoveAt(s, i)) = Len(s) - 1
         /\ \A k \in 1 .. Len(s) - 1 :
              RemoveAt(s, i)[k] = IF k < i THEN s[k] ELSE s[k + 1]
<1> DEFINE front == SubSeq(s, 1, i - 1)
           back  == SubSeq(s, i + 1, Len(s))
<1>0. Len(s) \in Nat /\ i \in Nat /\ \A k \in 1 .. Len(s) : s[k] \in S
  BY LenProperties
<1>1. /\ front \in Seq(S) /\ Len(front) = i - 1
      /\ \A k \in 1 .. i - 1 : front[k] = s[k]
  BY <1>0, SubSeqIs, SMT
<1>2. /\ back \in Seq(S) /\ Len(back) = Len(s) - i
      /\ \A k \in 1 .. Len(s) - i : back[k] = s[i + k]
  BY <1>0, SubSeqIs, SMT
<1> DEFINE whole == front \o back
<1>3. /\ whole \in Seq(S) /\ Len(whole) = Len(front) + Len(back)
      /\ \A k \in 1 .. Len(front) + Len(back) :
           whole[k] = IF k <= Len(front) THEN front[k] ELSE back[k - Len(front)]
  BY <1>1, <1>2, ConcatProperties, Zenon
<1>4. RemoveAt(s, i) = whole
  BY DEF RemoveAt
<1>. HIDE DEF front, back, whole
<1>5. Len(front) + Len(back) = Len(s) - 1
  BY <1>0, <1>1, <1>2, SMT
<1>6. ASSUME NEW k \in 1 .. Len(s) - 1
      PROVE  whole[k] = IF k < i THEN s[k] ELSE s[k + 1]
  <2>1. whole[k] = IF k <= Len(front) THEN front[k] ELSE back[k - Len(front)]
    BY <1>3, <1>5
  <2>2. CASE k < i
    BY <1>0, <1>1, <2>1, <2>2, SMT
  <2>3. CASE k >= i
    <3>1. k - (i - 1) \in 1 .. Len(s) - i /\ i + (k - (i - 1)) = k + 1
      BY <1>0, <2>3, SMT
    <3>2. whole[k] = back[k - (i - 1)] /\ back[k - (i - 1)] = s[i + (k - (i - 1))]
      BY <1>0, <1>1, <1>2, <2>1, <2>3, <3>1, SMT
    <3>. QED  BY <1>0, <2>3, <3>1, <3>2, SMT
  <2>. QED  BY <1>0, <2>2, <2>3, SMT
<1>. QED  BY <1>3, <1>4, <1>5, <1>6
-----------------------------------------------------------------------------
(* An order of n indices has each of them.                                 *)
LEMMA HoldsEveryIndex ==
  ASSUME NEW n \in Nat, NEW q \in Orders(n)
  PROVE  \A i \in 0 .. n - 1 : \E k \in 1 .. n : q[k] = i
<1>1. /\ IsFiniteSet(1 .. n) /\ IsFiniteSet(0 .. n - 1)
      /\ Cardinality(1 .. n) = n /\ Cardinality(0 .. n - 1) = n
  <2>1. /\ Cardinality(1 .. n) = IF 1 > n THEN 0 ELSE n - 1 + 1
        /\ Cardinality(0 .. n - 1) = IF 0 > n - 1 THEN 0 ELSE (n - 1) - 0 + 1
        /\ IsFiniteSet(1 .. n) /\ IsFiniteSet(0 .. n - 1)
    BY FS_Interval, SMT
  <2>. QED  BY <2>1, SMT
<1>2. q \in Injection(1 .. n, 0 .. n - 1)
  BY DEF Orders
<1>3. q \in Surjection(1 .. n, 0 .. n - 1)
  BY <1>1, <1>2, FS_Injection
<1>. QED  BY <1>3 DEF Surjection

LEMMA OrderIs ==
  ASSUME NEW n \in Nat, NEW q
  PROVE  q \in Orders(n) <=>
           /\ q \in [1 .. n -> 0 .. n - 1]
           /\ \A a, b \in 1 .. n : q[a] = q[b] => a = b
BY DEF Orders, Injection, IsInjective

LEMMA IdentityIsOrder ==
  ASSUME NEW n \in Nat
  PROVE  [k \in 1 .. n |-> k - 1] \in Orders(n)
BY OrderIs, SMT

(* Moving the indices from i on up makes room for i and nothing else.      *)
Up(i, a) == IF a >= i THEN a + 1 ELSE a

LEMMA UpKeepsApart ==
  ASSUME NEW i \in Int, NEW a \in Int, NEW b \in Int
  PROVE  Up(i, a) # i /\ (Up(i, a) = Up(i, b) => a = b)
BY SMT DEF Up

(* Index i at place i of n others, the ones from i on moved up.            *)
LEMMA InsertedIsOrder ==
  ASSUME NEW n \in Nat, NEW q \in Orders(n), NEW i \in 0 .. n - 1,
         NEW up \in [1 .. n -> 0 .. n],
         \A k \in 1 .. n : up[k] = Up(i, q[k]),
         NEW r \in [1 .. n + 1 -> 0 .. n],
         \A k \in 1 .. n + 1 :
           r[k] = IF k < i + 1 THEN up[k] ELSE IF k = i + 1 THEN i ELSE up[k - 1]
  PROVE  /\ r \in Orders(n + 1)
         /\ (\A k \in 1 .. n : q[k] = k - 1) => \A k \in 1 .. n + 1 : r[k] = k - 1
<1>1. /\ q \in [1 .. n -> 0 .. n - 1]
      /\ \A a, b \in 1 .. n : q[a] = q[b] => a = b
  BY OrderIs
<1>2. ASSUME NEW k \in 1 .. n, NEW l \in 1 .. n
      PROVE  up[k] # i /\ (up[k] = up[l] => k = l)
  <2>1. /\ q[k] \in Int /\ up[k] = Up(i, q[k])
        /\ q[l] \in Int /\ up[l] = Up(i, q[l])
        /\ i \in Int
    BY <1>1
  <2>2. up[k] # i /\ (up[k] = up[l] => q[k] = q[l])
    BY <2>1, UpKeepsApart, Zenon
  <2>. QED  BY <1>1, <2>2
<1>3. ASSUME NEW a \in 1 .. n + 1, NEW b \in 1 .. n + 1, r[a] = r[b]
      PROVE  a = b
  <2>1. /\ a < i + 1 => a \in 1 .. n /\ r[a] = up[a]
        /\ a = i + 1 => r[a] = i
        /\ a > i + 1 => a - 1 \in 1 .. n /\ r[a] = up[a - 1]
    BY SMT
  <2>2. /\ b < i + 1 => b \in 1 .. n /\ r[b] = up[b]
        /\ b = i + 1 => r[b] = i
        /\ b > i + 1 => b - 1 \in 1 .. n /\ r[b] = up[b - 1]
    BY SMT
  <2>. QED  BY <1>2, <1>3, <2>1, <2>2, SMT
<1>4. r \in Orders(n + 1)
  <2>1. n + 1 \in Nat /\ 0 .. n = 0 .. (n + 1) - 1
    BY SMT
  <2>. QED  BY <1>3, <2>1, OrderIs
<1>5. ASSUME \A k \in 1 .. n : q[k] = k - 1, NEW k \in 1 .. n + 1
      PROVE  r[k] = k - 1
  <2>1. CASE k < i + 1
    <3>1. k \in 1 .. n /\ r[k] = up[k] /\ up[k] = IF q[k] >= i THEN q[k] + 1 ELSE q[k]
      BY <2>1, SMT DEF Up
    <3>. QED  BY <1>5, <2>1, <3>1, SMT
  <2>2. CASE k = i + 1
    BY <2>2, SMT
  <2>3. CASE k > i + 1
    <3>1. /\ k - 1 \in 1 .. n /\ r[k] = up[k - 1]
          /\ up[k - 1] = IF q[k - 1] >= i THEN q[k - 1] + 1 ELSE q[k - 1]
      BY <2>3, SMT DEF Up
    <3>2. q[k - 1] = (k - 1) - 1
      BY <1>5, <3>1
    <3>. QED  BY <2>3, <3>1, <3>2, SMT
  <2>. QED  BY <2>1, <2>2, <2>3, SMT
<1>. QED  BY <1>4, <1>5

(* Taking index i out, the indices above it moved down.                    *)
LEMMA RemoveIsOrder ==
  ASSUME NEW n \in Nat, NEW q \in Orders(n), NEW i \in 0 .. n - 1, NEW r,
         LET left == RemoveAt(q, CHOOSE k \in 1 .. n : q[k] = i)
         IN  r = [k \in 1 .. n - 1 |-> IF left[k] > i THEN left[k] - 1 ELSE left[k]]
  PROVE  /\ r \in Orders(n - 1)
         /\ (\A k \in 1 .. n : q[k] = k - 1) => \A k \in 1 .. n - 1 : r[k] = k - 1
<1> DEFINE at == CHOOSE k \in 1 .. n : q[k] = i
           left == RemoveAt(q, at)
<1>1. /\ q \in [1 .. n -> 0 .. n - 1]
      /\ \A a, b \in 1 .. n : q[a] = q[b] => a = b
  BY OrderIs
<1>2. at \in 1 .. n /\ q[at] = i
  BY HoldsEveryIndex
<1>3. r = [k \in 1 .. n - 1 |-> IF left[k] > i THEN left[k] - 1 ELSE left[k]]
  OBVIOUS
<1>. HIDE DEF at
<1>4. q \in Seq(0 .. n - 1) /\ Len(q) = n
  BY <1>1, FunIsSeq
<1>5. \A k \in 1 .. n - 1 : left[k] = IF k < at THEN q[k] ELSE q[k + 1]
  BY <1>2, <1>4, RemoveAtIs
<1>. HIDE DEF left
<1>6. \A k \in 1 .. n - 1 : left[k] \in 0 .. n - 1 /\ left[k] # i
  BY <1>1, <1>2, <1>5, SMT
<1>7. \A k, l \in 1 .. n - 1 : left[k] = left[l] => k = l
  <2>. SUFFICES ASSUME NEW k \in 1 .. n - 1, NEW l \in 1 .. n - 1, left[k] = left[l]
                PROVE  k = l
    OBVIOUS
  <2>1. /\ k < at => left[k] = q[k]
        /\ k >= at => left[k] = q[k + 1]
        /\ l < at => left[l] = q[l]
        /\ l >= at => left[l] = q[l + 1]
    BY <1>2, <1>5, SMT
  <2>2. k \in 1 .. n /\ l \in 1 .. n /\ k + 1 \in 1 .. n /\ l + 1 \in 1 .. n
    BY SMT
  <2>. QED  BY <1>1, <1>2, <2>1, <2>2, SMT
<1>8. \A k \in 1 .. n - 1 : r[k] = IF left[k] > i THEN left[k] - 1 ELSE left[k]
  BY <1>3
<1>9. r \in [1 .. n - 1 -> 0 .. (n - 1) - 1]
  BY <1>3, <1>6, SMT
<1>10. \A a, b \in 1 .. n - 1 : r[a] = r[b] => a = b
  BY <1>6, <1>7, <1>8, SMT
<1>11. r \in Orders(n - 1)
  <2>1. n - 1 \in Nat
    BY SMT
  <2>. QED  BY <1>9, <1>10, <2>1, OrderIs
<1>12. ASSUME \A k \in 1 .. n : q[k] = k - 1, NEW k \in 1 .. n - 1
       PROVE  r[k] = k - 1
  <2>1. at = i + 1
    BY <1>2, <1>12, SMT
  <2>2. left[k] = IF k < i + 1 THEN k - 1 ELSE k
    BY <1>5, <1>12, <2>1, SMT
  <2>. QED  BY <1>8, <2>2, SMT
<1>. QED  BY <1>11, <1>12

-----------------------------------------------------------------------------
IInv == m_entries \in Seq(Paths) /\ QueueValid /\ InOrder

(* What the steps need of a state that satisfies it.                       *)
LEMMA IInvFacts ==
  ASSUME IInv
  PROVE  /\ size \in Nat /\ m_q \in Orders(size)
         /\ m_q \in [1 .. size -> 0 .. size - 1] /\ Len(m_q) = size
<1>1. size \in Nat /\ m_q \in Orders(size)
  BY LenProperties DEF IInv, QueueValid, size
<1>2. m_q \in [1 .. size -> 0 .. size - 1]
  BY <1>1, OrderIs
<1>. QED  BY <1>1, <1>2, FunIsSeq

LEMMA InitIInv == Init => IInv
<1>. SUFFICES ASSUME NEW n \in 0 .. MaxEntries, NEW entries \in [1 .. n -> Paths],
                     NEW loop_type, Construct(entries, loop_type)
              PROVE  IInv
  BY DEF Init
<1>1. n \in Nat
  BY MaxEntriesAssumption, SMT
<1>2. entries \in Seq(Paths) /\ Len(entries) = n
  BY <1>1, FunIsSeq
<1>3. entries = <<>> <=> n = 0
  BY <1>2, EmptySeq, SeqEqual, SMT
<1>4. /\ m_entries = entries /\ m_q = [k \in 1 .. n |-> k - 1]
      /\ m_qi = IF entries = <<>> THEN npos ELSE 0
  BY <1>2 DEF Construct
<1>5. m_q \in Orders(n)
  BY <1>1, <1>4, IdentityIsOrder
<1>6. m_qi = IF n = 0 THEN npos ELSE 0
  BY <1>3, <1>4
<1>7. QueueValid
  <2>1. n # 0 => 0 \in 0 .. n - 1
    BY <1>1, SMT
  <2>. QED  BY <1>2, <1>4, <1>5, <1>6, <2>1 DEF QueueValid, size
<1>8. InOrder
  BY <1>2, <1>4, SMT DEF InOrder, size
<1>. QED  BY <1>2, <1>4, <1>7, <1>8 DEF IInv

(* The calls that keep the files.                                          *)
LEMMA ReorderStep ==
  ASSUME IInv, UNCHANGED <<m_entries, aborted>>, size # 0,
         m_q' \in Orders(size), m_qi' \in 0 .. size - 1,
         ~m_shuffled' => (m_q' = m_q /\ ~m_shuffled) \/ m_q' = [k \in 1 .. size |-> k - 1]
  PROVE  IInv'
<1>1. m_entries' \in Seq(Paths) /\ QueueValid'
  BY DEF IInv, QueueValid, size
<1>2. InOrder'
  <2>. SUFFICES ASSUME ~m_shuffled', NEW k \in 1 .. size
                PROVE  m_q'[k] = k - 1
    BY DEF InOrder, size
  <2>. QED  BY DEF IInv, InOrder
<1>. QED  BY <1>1, <1>2 DEF IInv

LEMMA MoveInRange ==
  ASSUME IInv, ~aborted, NEW move_cmd \in PlaylistMvCmd, can_move(move_cmd)
  PROVE  size # 0 /\ playlist_get_move(move_cmd) \in 0 .. size - 1
<1>1. size \in Nat /\ size > 0 /\ Len(m_q) = size
  BY IInvFacts DEF can_move
<1>2. m_qi \in 0 .. size - 1
  BY <1>1, SMT DEF IInv, QueueValid
<1>3. playlist_get_move(move_cmd) # npos
  BY DEF can_move
<1>. QED
  BY <1>1, <1>2, <1>3, SMT
  DEF PlaylistMvCmd, playlist_get_move, playlist_get_next, playlist_get_skip,
      playlist_get_rewind, npos

(* The calls that change the files.                                        *)
LEMMA PushBackStep ==
  ASSUME IInv, ~aborted, NEW entry \in Paths, push_back(entry)
  PROVE  IInv'
<1> DEFINE n == size
<1>1. n \in Nat /\ m_q \in Orders(n) /\ m_q \in [1 .. n -> 0 .. n - 1] /\ Len(m_q) = n
  BY IInvFacts
<1>2. m_entries' \in Seq(Paths) /\ size' = n + 1
  <2>1. m_entries \in Seq(Paths) /\ m_entries' = Append(m_entries, entry)
    BY DEF IInv, push_back
  <2>. QED  BY <2>1, AppendIs DEF size
<1>3. m_q \in Seq(0 .. n) /\ n \in 0 .. n
  <2>1. m_q \in [1 .. n -> 0 .. n]
    BY <1>1, SMT
  <2>. QED  BY <1>1, <2>1, FunIsSeq
<1>4. m_q' = Append(m_q, n)
  BY DEF push_back
<1>. HIDE DEF n
<1>5. /\ m_q' \in Seq(0 .. n) /\ Len(m_q') = n + 1
      /\ \A k \in 1 .. n + 1 : m_q'[k] = IF k = n + 1 THEN n ELSE m_q[k]
  BY <1>1, <1>3, <1>4, AppendIs
<1>6. m_q' \in [1 .. n + 1 -> 0 .. (n + 1) - 1]
  BY <1>1, <1>5, LenProperties, SMT
<1>7. \A a, b \in 1 .. n + 1 : m_q'[a] = m_q'[b] => a = b
  <2>1. \A a, b \in 1 .. n : m_q[a] = m_q[b] => a = b
    BY <1>1, OrderIs
  <2>2. \A a \in 1 .. n : m_q[a] \in Int /\ m_q[a] < n
    BY <1>1
  <2>. QED  BY <1>1, <1>5, <2>1, <2>2, SMT
<1>8. m_q' \in Orders(n + 1)
  <2>1. n + 1 \in Nat
    BY <1>1, SMT
  <2>. QED  BY <1>6, <1>7, <2>1, OrderIs
<1>9. m_qi' \in 0 .. n
  <2>1. m_qi = npos \/ m_qi \in 0 .. n - 1
    BY DEF IInv, QueueValid, n
  <2>2. m_qi' = IF m_qi = npos THEN 0 ELSE m_qi
    BY DEF push_back
  <2>. QED  BY <1>1, <2>1, <2>2, SMT
<1>10. QueueValid'
  <2>1. size' # 0 /\ 0 .. n = 0 .. size' - 1
    BY <1>1, <1>2, SMT
  <2>. QED  BY <1>2, <1>8, <1>9, <2>1 DEF QueueValid
<1>11. InOrder'
  <2>1. ~m_shuffled' => \A k \in 1 .. n : m_q[k] = k - 1
    BY DEF push_back, IInv, InOrder, n
  <2>. QED  BY <1>1, <1>2, <1>5, <2>1, SMT DEF InOrder
<1>. QED  BY <1>2, <1>10, <1>11 DEF IInv

LEMMA InsertStep ==
  ASSUME IInv, ~aborted, NEW entry \in Paths, NEW i \in 0 .. size, insert(entry, i)
  PROVE  IInv'
<1>1. CASE i >= size
  BY <1>1, PushBackStep DEF insert
<1>2. CASE ~(i >= size)
  <2> DEFINE n == size
             up == [k \in 1 .. n |-> IF m_q[k] >= i THEN m_q[k] + 1 ELSE m_q[k]]
  <2>1. n \in Nat /\ m_q \in Orders(n) /\ m_q \in [1 .. n -> 0 .. n - 1]
    BY IInvFacts
  <2>2. i \in 0 .. n - 1 /\ n # 0
    BY <1>2, <2>1, SMT
  <2>3. /\ m_entries' = InsertAt(m_entries, i + 1, entry)
        /\ m_q' = InsertAt(up, i + 1, i)
        /\ m_qi' = IF m_qi >= i THEN m_qi + 1 ELSE m_qi
        /\ m_shuffled' = m_shuffled
    BY <1>2 DEF insert
  <2>4. m_entries' \in Seq(Paths) /\ size' = n + 1
    <3>1. m_entries \in Seq(Paths) /\ i + 1 \in 1 .. Len(m_entries) + 1
      BY <2>1, <2>2, SMT DEF IInv, size
    <3> DEFINE place == i + 1
    <3>2. m_entries' = InsertAt(m_entries, place, entry) /\ place \in 1 .. Len(m_entries) + 1
      BY <2>3, <3>1
    <3>. HIDE DEF place
    <3>3. m_entries' \in Seq(Paths) /\ Len(m_entries') = Len(m_entries) + 1
      BY <3>1, <3>2, InsertAtIs
    <3>. QED  BY <3>3 DEF size
  <2>5. up \in [1 .. n -> 0 .. n] /\ \A k \in 1 .. n : up[k] = Up(i, m_q[k])
    BY <2>1, <2>2, SMT DEF Up
  <2>6. up \in Seq(0 .. n) /\ Len(up) = n
    BY <2>1, <2>5, FunIsSeq
  <2>. HIDE DEF n, up
  <2>7. /\ m_q' \in Seq(0 .. n) /\ Len(m_q') = n + 1
        /\ \A k \in 1 .. n + 1 :
             m_q'[k] = IF k < i + 1 THEN up[k] ELSE IF k = i + 1 THEN i ELSE up[k - 1]
    <3>1. i + 1 \in 1 .. Len(up) + 1 /\ i \in 0 .. n
      BY <2>1, <2>2, <2>6, SMT
    <3> DEFINE place == i + 1
              T     == 0 .. n
    <3>2. m_q' = InsertAt(up, place, i) /\ place \in 1 .. Len(up) + 1 /\ up \in Seq(T) /\ i \in T
      BY <2>3, <2>6, <3>1
    <3>. HIDE DEF place, T
    <3>3. /\ m_q' \in Seq(T) /\ Len(m_q') = Len(up) + 1
          /\ \A k \in 1 .. Len(up) + 1 :
               m_q'[k] = IF k < place THEN up[k] ELSE IF k = place THEN i ELSE up[k - 1]
      BY <3>2, InsertAtIs
    <3>. QED  BY <2>6, <3>3 DEF place, T
  <2>8. m_q' \in [1 .. n + 1 -> 0 .. n]
    BY <2>7, LenProperties
  <2>9. /\ m_q' \in Orders(n + 1)
        /\ (\A k \in 1 .. n : m_q[k] = k - 1) => \A k \in 1 .. n + 1 : m_q'[k] = k - 1
    BY <2>1, <2>2, <2>5, <2>7, <2>8, InsertedIsOrder
  <2>10. m_qi' \in 0 .. n
    <3>1. m_qi \in 0 .. n - 1
      BY <2>2 DEF IInv, QueueValid, n
    <3>. QED  BY <2>1, <2>2, <2>3, <3>1, SMT
  <2>11. QueueValid'
    <3>1. size' # 0 /\ 0 .. n = 0 .. size' - 1
      BY <2>1, <2>4, SMT
    <3>. QED  BY <2>4, <2>9, <2>10, <3>1 DEF QueueValid
  <2>12. InOrder'
    BY <2>3, <2>4, <2>9 DEF IInv, InOrder, n
  <2>. QED  BY <2>4, <2>11, <2>12 DEF IInv
<1>. QED  BY <1>1, <1>2

LEMMA ClearStep ==
  ASSUME clear
  PROVE  IInv'
<1>1. m_entries' = <<>> /\ m_q' = <<>> /\ m_qi' = npos
  BY DEF clear
<1>2. m_entries' \in Seq(Paths) /\ size' = 0
  BY <1>1, EmptySeq DEF size
<1>3. <<>> \in Orders(0)
  <2>1. <<>> \in [1 .. 0 -> 0 .. 0 - 1] /\ \A a, b \in 1 .. 0 : <<>>[a] = <<>>[b] => a = b
    BY SMT
  <2>. QED  BY <2>1, OrderIs
<1>4. QueueValid' /\ InOrder'
  BY <1>1, <1>2, <1>3, SMT DEF QueueValid, InOrder
<1>. QED  BY <1>2, <1>4 DEF IInv

LEMMA RemoveStep ==
  ASSUME IInv, ~aborted, NEW i \in 0 .. size - 1, remove_at_entry_idx(i)
  PROVE  IInv'
<1>1. CASE size = 1
  BY <1>1, ClearStep DEF remove_at_entry_idx
<1>2. CASE size # 1
  <2> DEFINE n == size
  <2>1. n \in Nat /\ m_q \in Orders(n) /\ n - 1 \in Nat /\ n - 1 # 0
    BY <1>2, IInvFacts, SMT
  <2>2. /\ m_entries' = RemoveAt(m_entries, i + 1)
        /\ m_q' = QueueWithout(i)
        /\ m_qi' = IF m_qi > i THEN m_qi - 1 ELSE m_qi
        /\ aborted' = (m_qi' >= size - 1)
        /\ m_shuffled' = m_shuffled
    BY <1>2 DEF remove_at_entry_idx
  <2>3. m_entries' \in Seq(Paths) /\ size' = n - 1
    <3>1. m_entries \in Seq(Paths) /\ i + 1 \in 1 .. Len(m_entries)
      BY <2>1, SMT DEF IInv, size
    <3>. QED  BY <2>2, <3>1, RemoveAtIs DEF size
  <2>4. /\ m_q' \in Orders(n - 1)
        /\ (\A k \in 1 .. n : m_q[k] = k - 1) => \A k \in 1 .. n - 1 : m_q'[k] = k - 1
    BY <2>1, <2>2, RemoveIsOrder DEF QueueWithout
  <2>. HIDE DEF n
  <2>5. ~aborted' => m_qi' \in 0 .. (n - 1) - 1
    <3>1. m_qi \in 0 .. n - 1
      BY <2>1 DEF IInv, QueueValid, n
    <3>2. ~aborted' => ~(m_qi' >= n - 1)
      BY <2>2 DEF n
    <3>3. i \in 0 .. n - 1
      BY DEF n
    <3>. QED  BY <2>1, <2>2, <3>1, <3>2, <3>3, SMT
  <2>6. QueueValid'
    BY <2>1, <2>3, <2>4, <2>5 DEF QueueValid
  <2>7. InOrder'
    BY <2>2, <2>3, <2>4 DEF IInv, InOrder, n
  <2>. QED  BY <2>3, <2>6, <2>7 DEF IInv
<1>. QED  BY <1>1, <1>2

LEMMA NextIInv == IInv /\ [Next]_vars => IInv'
<1>. SUFFICES ASSUME IInv, [Next]_vars
              PROVE  IInv'
  OBVIOUS
<1>1. ASSUME ~aborted, NEW keep_current_file_first \in BOOLEAN, shuffle(keep_current_file_first)
      PROVE  IInv'
  <2>1. CASE size = 0
    <3>1. UNCHANGED <<m_entries, m_q, m_qi, aborted>> /\ m_shuffled' = TRUE
      BY <1>1, <2>1 DEF shuffle
    <3>. QED  BY <3>1 DEF IInv, QueueValid, InOrder, size
  <2>2. CASE size # 0
    <3>1. size \in Nat /\ 0 \in 0 .. size - 1
      BY <2>2, IInvFacts, SMT
    <3>. QED  BY <1>1, <2>2, <3>1, ReorderStep DEF shuffle, Reshuffle
  <2>. QED  BY <2>1, <2>2
<1>2. ASSUME ~aborted, unshuffle
      PROVE  IInv'
  <2>1. size \in Nat /\ m_q \in Orders(size) /\ m_q \in [1 .. size -> 0 .. size - 1]
    BY IInvFacts
  <2>2. /\ UNCHANGED <<m_entries, aborted>> /\ m_q' = [k \in 1 .. size |-> k - 1]
        /\ m_qi' = IF size = 0 THEN m_qi ELSE index
    BY <1>2 DEF unshuffle
  <2>3. m_q' \in Orders(size)
    BY <2>1, <2>2, IdentityIsOrder
  <2>4. CASE size = 0
    BY <2>1, <2>2, <2>3, <2>4, SMT DEF IInv, QueueValid, InOrder, size
  <2>5. CASE size # 0
    <3>1. m_qi \in 0 .. size - 1
      BY <1>2, <2>5 DEF IInv, QueueValid
    <3>2. m_qi + 1 \in 1 .. size
      BY <2>1, <3>1, SMT
    <3>3. m_qi' \in 0 .. size - 1
      BY <2>1, <2>2, <2>5, <3>2 DEF index
    <3>. QED  BY <2>2, <2>3, <2>5, <3>3, ReorderStep
  <2>. QED  BY <2>4, <2>5
<1>3. ASSUME ~aborted, NEW move_cmd \in PlaylistMvCmd, move(move_cmd)
      PROVE  IInv'
  <2> DEFINE next == playlist_get_move(move_cmd)
  <2>1. size # 0 /\ next \in 0 .. size - 1 /\ size \in Nat /\ m_q \in Orders(size)
    BY <1>3, MoveInRange, IInvFacts DEF move
  <2>2. UNCHANGED <<m_entries, aborted>>
    BY <1>3 DEF move
  <2>3. CASE Reshuffle(next, TRUE)
    <3>1. 0 \in 0 .. size - 1
      BY <2>1, SMT
    <3>. QED  BY <2>1, <2>2, <2>3, <3>1, ReorderStep DEF Reshuffle
  <2>4. CASE m_qi' = next /\ UNCHANGED <<m_q, m_shuffled>>
    BY <2>1, <2>2, <2>4, ReorderStep
  <2>. QED  BY <1>3, <2>3, <2>4 DEF move
<1>4. ASSUME ~aborted, NEW loop_type \in LoopType, set_loop_type(loop_type)
      PROVE  IInv'
  BY <1>4 DEF set_loop_type, IInv, QueueValid, InOrder, size
<1>5. ASSUME ~aborted, NEW entry \in Paths, push_back(entry)
      PROVE  IInv'
  BY <1>5, PushBackStep
<1>6. ASSUME ~aborted, NEW entry \in Paths, NEW i \in 0 .. size, insert(entry, i)
      PROVE  IInv'
  BY <1>6, InsertStep
<1>7. ASSUME clear
      PROVE  IInv'
  BY <1>7, ClearStep
<1>8. ASSUME ~aborted, NEW i \in 0 .. size, remove(i)
      PROVE  IInv'
  <2>1. CASE size <= 1
    BY <1>8, <2>1, ClearStep DEF remove
  <2>2. CASE ~(size <= 1) /\ i = size
    BY <1>8, <2>2 DEF remove, Fail, IInv, QueueValid, InOrder, size
  <2>3. CASE ~(size <= 1) /\ i # size
    <3>1. i \in 0 .. size - 1
      BY <2>3, IInvFacts, SMT
    <3>. QED  BY <1>8, <2>3, <3>1, RemoveStep DEF remove
  <2>. QED  BY <2>1, <2>2, <2>3
<1>9. ASSUME ~aborted, NEW entry \in Paths, remove_entry(entry)
      PROVE  IInv'
  BY <1>9, RemoveStep DEF remove_entry
<1>10. CASE UNCHANGED vars
  BY <1>10 DEF vars, IInv, QueueValid, InOrder, size
<1>. QED
  BY <1>1, <1>2, <1>3, <1>4, <1>5, <1>6, <1>7, <1>8, <1>9, <1>10 DEF Next

LEMMA IInvHolds == Spec => []IInv
BY InitIInv, NextIInv, PTL DEF Spec

(* Every file is in the queue once, and the place in it is one of its.     *)
THEOREM QueueIsValid == Spec => []QueueValid
<1>1. IInv => QueueValid
  BY DEF IInv
<1>. QED  BY <1>1, IInvHolds, PTL

(* A playlist that is not shuffled is in the order of its files.           *)
THEOREM UnshuffledIsInOrder == Spec => []InOrder
<1>1. IInv => InOrder
  BY DEF IInv
<1>. QED  BY <1>1, IInvHolds, PTL
-----------------------------------------------------------------------------
(* What the calls do to the current file.                                  *)
LEMMA PlaceInRange ==
  ASSUME IInv, ~aborted, size > 0
  PROVE  /\ size \in Nat /\ m_qi \in 0 .. size - 1 /\ m_qi + 1 \in 1 .. size
         /\ index \in 0 .. size - 1 /\ index + 1 \in 1 .. size
<1>1. size \in Nat /\ m_q \in [1 .. size -> 0 .. size - 1]
  BY IInvFacts
<1>2. m_qi \in 0 .. size - 1
  BY <1>1, SMT DEF IInv, QueueValid
<1>3. m_qi + 1 \in 1 .. size
  BY <1>1, <1>2, SMT
<1>4. index \in 0 .. size - 1
  BY <1>1, <1>3 DEF index
<1>. QED  BY <1>1, <1>2, <1>3, <1>4, SMT

LEMMA PushBackKeepsCurrent ==
  ASSUME IInv, ~aborted, size > 0, NEW entry \in Paths, push_back(entry)
  PROVE  current' = current
<1>1. /\ size \in Nat /\ m_qi \in 0 .. size - 1 /\ m_qi + 1 \in 1 .. size
      /\ index + 1 \in 1 .. size /\ Len(m_q) = size /\ m_q \in Seq(0 .. size - 1)
      /\ m_entries \in Seq(Paths) /\ m_qi # npos
  BY PlaceInRange, IInvFacts, FunIsSeq, SMT DEF IInv, npos
<1>2. m_qi' = m_qi
  BY <1>1 DEF push_back
<1>3. \A k \in 1 .. size : Append(m_q, size)[k] = m_q[k] /\ Append(m_entries, entry)[k] = m_entries[k]
  BY <1>1, SMT DEF size
<1>4. m_q'[m_qi' + 1] = index
  BY <1>1, <1>2, <1>3 DEF push_back, index
<1>. QED  BY <1>1, <1>3, <1>4 DEF push_back, current, index

LEMMA InsertedFile ==
  ASSUME NEW s \in Seq(Paths), NEW place \in 1 .. Len(s) + 1, NEW entry \in Paths
  PROVE  /\ InsertAt(s, place, entry) \in Seq(Paths)
         /\ Len(InsertAt(s, place, entry)) = Len(s) + 1
         /\ \A k \in 1 .. Len(s) + 1 :
              InsertAt(s, place, entry)[k] =
                IF k < place THEN s[k] ELSE IF k = place THEN entry ELSE s[k - 1]
BY InsertAtIs

LEMMA InsertKeepsCurrent ==
  ASSUME IInv, ~aborted, size > 0, NEW entry \in Paths, NEW i \in 0 .. size, insert(entry, i)
  PROVE  current' = current
<1>1. CASE i >= size
  BY <1>1, PushBackKeepsCurrent DEF insert
<1>2. CASE ~(i >= size)
  <2> DEFINE up == [k \in 1 .. size |-> IF m_q[k] >= i THEN m_q[k] + 1 ELSE m_q[k]]
  <2>1. /\ size \in Nat /\ m_qi \in 0 .. size - 1 /\ m_qi + 1 \in 1 .. size
        /\ index \in 0 .. size - 1 /\ index + 1 \in 1 .. size
        /\ m_q \in [1 .. size -> 0 .. size - 1] /\ m_entries \in Seq(Paths)
    BY PlaceInRange, IInvFacts DEF IInv
  <2>2. i \in 0 .. size - 1 /\ i + 1 \in 1 .. size + 1
    BY <1>2, <2>1, SMT
  <2>3. up \in [1 .. size -> 0 .. size]
    BY <2>1, <2>2, SMT
  <2>4. up \in Seq(0 .. size) /\ Len(up) = size
    BY <2>1, <2>3, FunIsSeq
  <2>5. up[m_qi + 1] = IF index >= i THEN index + 1 ELSE index
    BY <2>1 DEF index
  <2>6. /\ m_entries' = InsertAt(m_entries, i + 1, entry)
        /\ m_q' = InsertAt(up, i + 1, i)
        /\ m_qi' = IF m_qi >= i THEN m_qi + 1 ELSE m_qi
    BY <1>2 DEF insert
  <2> HIDE DEF up
  <2>7. \A k \in 1 .. size + 1 :
          m_q'[k] = IF k < i + 1 THEN up[k] ELSE IF k = i + 1 THEN i ELSE up[k - 1]
    <3> DEFINE place == i + 1
               T     == 0 .. size
    <3>1. m_q' = InsertAt(up, place, i) /\ place \in 1 .. Len(up) + 1 /\ up \in Seq(T) /\ i \in T
      BY <2>2, <2>4, <2>6
    <3>. HIDE DEF place, T
    <3>2. /\ m_q' \in Seq(T) /\ Len(m_q') = Len(up) + 1
          /\ \A k \in 1 .. Len(up) + 1 :
               m_q'[k] = IF k < place THEN up[k] ELSE IF k = place THEN i ELSE up[k - 1]
      BY <3>1, InsertAtIs
    <3>. QED  BY <2>4, <3>2 DEF place
  <2>8. \A k \in 1 .. size + 1 :
          m_entries'[k] = IF k < i + 1 THEN m_entries[k] ELSE IF k = i + 1 THEN entry ELSE m_entries[k - 1]
    <3> DEFINE place == i + 1
    <3>1. /\ m_entries' = InsertAt(m_entries, place, entry) /\ entry \in Paths
          /\ place \in 1 .. Len(m_entries) + 1 /\ m_entries \in Seq(Paths)
      BY <2>1, <2>2, <2>6 DEF size
    <3>. HIDE DEF place
    <3>2. \A k \in 1 .. Len(m_entries) + 1 :
            InsertAt(m_entries, place, entry)[k] =
              IF k < place THEN m_entries[k] ELSE IF k = place THEN entry ELSE m_entries[k - 1]
      BY <3>1, InsertedFile, Zenon
    <3>3. \A k \in 1 .. Len(m_entries) + 1 :
            m_entries'[k] =
              IF k < place THEN m_entries[k] ELSE IF k = place THEN entry ELSE m_entries[k - 1]
      BY <3>1, <3>2, Zenon
    <3>. QED  BY <3>3 DEF place, size
  <2>9. m_q'[m_qi' + 1] = up[m_qi + 1]
    <3>1. CASE m_qi >= i
      <4>1. /\ m_qi' + 1 \in 1 .. size + 1 /\ ~(m_qi' + 1 < i + 1) /\ m_qi' + 1 # i + 1
            /\ (m_qi' + 1) - 1 = m_qi + 1
        BY <2>1, <2>2, <2>6, <3>1, SMT
      <4>. QED  BY <2>7, <4>1
    <3>2. CASE ~(m_qi >= i)
      <4>1. m_qi' + 1 \in 1 .. size + 1 /\ m_qi' + 1 < i + 1 /\ m_qi' = m_qi
        BY <2>1, <2>2, <2>6, <3>2, SMT
      <4>. QED  BY <2>7, <4>1
    <3>. QED  BY <3>1, <3>2
  <2>10. m_entries'[up[m_qi + 1] + 1] = m_entries[index + 1]
    <3>1. CASE index >= i
      <4>1. /\ (index + 1) + 1 \in 1 .. size + 1 /\ ~((index + 1) + 1 < i + 1)
            /\ (index + 1) + 1 # i + 1 /\ ((index + 1) + 1) - 1 = index + 1
        BY <2>1, <2>2, <3>1, SMT
      <4>. QED  BY <2>5, <2>8, <3>1, <4>1
    <3>2. CASE ~(index >= i)
      <4>1. index + 1 \in 1 .. size + 1 /\ index + 1 < i + 1
        BY <2>1, <2>2, <3>2, SMT
      <4>. QED  BY <2>5, <2>8, <3>2, <4>1
    <3>. QED  BY <3>1, <3>2
  <2>. QED  BY <2>9, <2>10 DEF current, index
<1>. QED  BY <1>1, <1>2

LEMMA ReorderKeepsCurrent ==
  ASSUME IInv, ~aborted, size > 0, unshuffle \/ shuffle(TRUE)
  PROVE  current' = current
<1>1. size \in Nat /\ index + 1 \in 1 .. size /\ (index + 1) - 1 = index
  BY PlaceInRange, SMT
<1>2. m_entries' = m_entries
  BY DEF shuffle, unshuffle
<1>3. CASE unshuffle
  <2>1. m_qi' = index /\ m_q' = [k \in 1 .. size |-> k - 1]
    BY <1>1, <1>3 DEF unshuffle
  <2>2. m_q'[m_qi' + 1] = index
    BY <1>1, <2>1
  <2>. QED  BY <1>2, <2>2 DEF current, index
<1>4. CASE shuffle(TRUE)
  <2>1. m_q'[1] = m_q[m_qi + 1] /\ m_qi' = 0
    BY <1>1, <1>4 DEF shuffle, Reshuffle
  <2>2. m_q'[m_qi' + 1] = m_q[m_qi + 1]
    BY <2>1
  <2>. QED  BY <1>2, <2>2 DEF current, index
<1>. QED  BY <1>3, <1>4

(* For any files and any bound on their number: reordering the queue or    *)
(* adding to it does not change the current file.                          *)
THEOREM CurrentIsKept == Spec => CurrentKept
<1>1. IInv /\ [Next]_vars =>
        [ size > 0 /\ \/ shuffle(TRUE) \/ unshuffle
                      \/ \E entry \in Paths : push_back(entry) \/ \E i \in 0 .. size : insert(entry, i)
            => current' = current ]_vars
  <2>. SUFFICES ASSUME IInv, Next, size > 0,
                       \/ shuffle(TRUE) \/ unshuffle
                       \/ \E entry \in Paths : push_back(entry) \/ \E i \in 0 .. size : insert(entry, i)
                PROVE  current' = current
    OBVIOUS
  <2>1. ~aborted
    BY DEF Next
  <2>. QED  BY <2>1, ReorderKeepsCurrent, PushBackKeepsCurrent, InsertKeepsCurrent
<1>. QED  BY <1>1, IInvHolds, PTL DEF Spec, CurrentKept

LEMMA MoveGoesWherePeeked ==
  ASSUME NEW move_cmd, move(move_cmd)
  PROVE  current' = peek_move(move_cmd)
<1> DEFINE next == playlist_get_move(move_cmd)
<1>1. m_entries' = m_entries
  BY DEF move
<1>2. m_q'[m_qi' + 1] = m_q[next + 1]
  <2>1. CASE Reshuffle(next, TRUE)
    <3>1. m_q'[1] = m_q[next + 1] /\ m_qi' = 0
      BY <2>1 DEF Reshuffle
    <3>. QED  BY <3>1
  <2>2. CASE m_qi' = next /\ m_q' = m_q
    BY <2>2
  <2>. QED  BY <2>1, <2>2 DEF move
<1>. QED  BY <1>1, <1>2 DEF current, index, peek_move

(* For any files: the file that is named as the next one is the next one.  *)
THEOREM PeekIsRight == Spec => PeekAgrees
<1>1. [Next]_vars => [\A move_cmd \in PlaylistMvCmd : move(move_cmd) => current' = peek_move(move_cmd)]_vars
  BY MoveGoesWherePeeked
<1>. QED  BY <1>1, PTL DEF Spec, PeekAgrees

LEMMA RemoveOther ==
  ASSUME IInv, ~aborted, ~m_shuffled, size > 1, NEW i \in 0 .. size - 1, remove(i), i # index
  PROVE  ~aborted' /\ current' = current
<1>1. /\ size \in Nat /\ m_qi \in 0 .. size - 1 /\ m_qi + 1 \in 1 .. size
      /\ m_q \in Orders(size) /\ m_entries \in Seq(Paths)
  BY PlaceInRange, IInvFacts, SMT DEF IInv
<1>2. \A k \in 1 .. size : m_q[k] = k - 1
  BY DEF IInv, InOrder
<1>3. index = m_qi
  BY <1>1, <1>2, SMT DEF index
<1>4. remove_at_entry_idx(i) /\ size # 1
  <2>1. ~(size <= 1) /\ i # size /\ size # 1
    BY <1>1, SMT
  <2>. QED  BY <2>1 DEF remove
<1>5. /\ m_entries' = RemoveAt(m_entries, i + 1) /\ m_q' = QueueWithout(i)
      /\ m_qi' = IF m_qi > i THEN m_qi - 1 ELSE m_qi
      /\ aborted' = (m_qi' >= size - 1)
  BY <1>4 DEF remove_at_entry_idx
<1>6. m_qi' \in 0 .. size - 2 /\ i + 1 \in 1 .. size
  BY <1>1, <1>3, <1>5, SMT
<1>7. m_qi' \in Nat /\ m_qi' < size - 1 /\ m_qi' + 1 \in 1 .. size - 1 /\ (m_qi' + 1) - 1 = m_qi'
  BY <1>1, <1>3, <1>5, SMT
<1>8. ~aborted'
  <2>1. ~(m_qi' >= size - 1)
    BY <1>1, <1>7, SMT
  <2>. QED  BY <1>5, <2>1, Zenon
<1>9. \A k \in 1 .. size - 1 : m_q'[k] = k - 1
  BY <1>1, <1>2, <1>5, RemoveIsOrder DEF QueueWithout
<1>10. m_q'[m_qi' + 1] = m_qi'
  <2>1. m_qi' + 1 \in 1 .. size - 1 /\ (m_qi' + 1) - 1 = m_qi'
    BY <1>7
  <2>. QED  BY <1>9, <2>1
<1>11. \A k \in 1 .. size - 1 : m_entries'[k] = IF k < i + 1 THEN m_entries[k] ELSE m_entries[k + 1]
  BY <1>1, <1>5, <1>6, RemoveAtIs DEF size
<1>12. m_entries'[m_qi' + 1] = m_entries[m_qi + 1]
  <2>1. CASE m_qi > i
    <3>1. m_qi' + 1 \in 1 .. size - 1 /\ ~(m_qi' + 1 < i + 1) /\ (m_qi' + 1) + 1 = m_qi + 1
      BY <1>1, <1>5, <1>6, <2>1, SMT
    <3>. QED  BY <1>11, <3>1
  <2>2. CASE ~(m_qi > i)
    <3>1. m_qi' + 1 \in 1 .. size - 1 /\ m_qi' + 1 < i + 1 /\ m_qi' = m_qi
      BY <1>1, <1>3, <1>5, <1>6, <2>2, SMT
    <3>. QED  BY <1>11, <3>1
  <2>. QED  BY <2>1, <2>2
<1>. QED  BY <1>3, <1>10, <1>12, <1>8 DEF current, index

(* For any files: removing another file than the current one from a        *)
(* playlist that is not shuffled leaves the current one current.           *)
THEOREM RemovingKeepsCurrent == Spec => RemoveKeepsCurrent
<1>1. IInv /\ [Next]_vars =>
        [\A i \in 0 .. size - 1 :
           ~m_shuffled /\ size > 1 /\ remove(i) /\ i # index => ~aborted' /\ current' = current]_vars
  BY RemoveOther DEF Next
<1>. QED  BY <1>1, IInvHolds, PTL DEF Spec, RemoveKeepsCurrent
=============================================================================
