----------------------------- MODULE AudioProofs -----------------------------
(***************************************************************************)
(* The audio path for every value of its constants.                        *)
(*                                                                         *)
(* JitterBuffer: its types, InWindow and Capacity are invariants, and      *)
(* frames leave it oldest first.                                           *)
(*                                                                         *)
(* MediaPath: what is played is in order.  Playing ties the buffer to a    *)
(* number N, the packet at nextOut: what is stored lies from N on, what    *)
(* waits for the sink or was played lies before N, and N is so close to    *)
(* the packets under way that no two of them are confused on the circle.   *)
(*                                                                         *)
(* AudioManager: every open session is in someone's hands.                 *)
(*                                                                         *)
(* MediaTransport: every frame is in one place, and the frames of a stream *)
(* are in order from the sender's queue to the call that hears them.       *)
(***************************************************************************)
EXTENDS MediaPath, AudioManager, MediaTransport,
        FiniteSetTheorems, WellFoundedInduction, SequenceTheorems, TLAPS

(* Arithmetic on the circle: distances are bounded, tell sequence numbers  *)
(* apart, and shrink by one when the position advances.                    *)
LEMMA DeltaFacts ==
    ASSUME NEW a \in SeqSpace, NEW s \in SeqSpace
    PROVE  /\ seqDelta(a, s) \in -Half .. (Half - 1)
           /\ seqDelta(a, s) = 0 <=> a = s
           /\ seqDelta(a, s) >= 1 => seqDelta(Inc(a), s) = seqDelta(a, s) - 1
           /\ Inc(a) \in SeqSpace
           /\ \A t \in SeqSpace : seqDelta(a, s) = seqDelta(a, t) => s = t
  BY HalfAssumption DEF SeqSpace, seqDelta, Inc

(* The fields of a buffer. *)
IsBuffer(b) ==
    b = [frames |-> b.frames, nextOut |-> b.nextOut,
         hasNext |-> b.hasNext, primed |-> b.primed]

(* A buffer the methods may meet: typed, ahead of the position, empty      *)
(* before the first Push.  The cap is left out.                            *)
GoodBuffer(b) ==
    /\ IsBuffer(b)
    /\ b.frames \in [DOMAIN b.frames -> Packets]
    /\ DOMAIN b.frames \subseteq SeqSpace
    /\ b.nextOut \in SeqSpace
    /\ b.hasNext \in BOOLEAN
    /\ b.primed \in BOOLEAN
    /\ \A s \in DOMAIN b.frames : seqDelta(b.nextOut, s) >= 0
    /\ ~b.hasNext => DOMAIN b.frames = {}

(* The invariant in terms of the predicate on buffers. *)
LEMMA IInvIsGood == IInv <=> GoodBuffer(jb) /\ Capacity
  BY DEF IInv, GoodBuffer, IsBuffer, TypeOK, InWindow

(* The frames of a buffer are finitely many. *)
LEMMA FramesFinite ==
    ASSUME NEW D \in SUBSET SeqSpace
    PROVE  IsFiniteSet(D) /\ Cardinality(D) \in Nat
  <1>1. 0 \in Int /\ 2 * Half - 1 \in Int
    BY HalfAssumption
  <1>2. IsFiniteSet(SeqSpace)
    BY <1>1, FS_Interval DEF SeqSpace
  <1> QED
    BY <1>2, FS_Subset, FS_CardinalityType

(* Storing a frame that is not late keeps a good buffer good. *)
LEMMA StoreKeepsGood ==
    ASSUME NEW b, GoodBuffer(b), NEW seq \in SeqSpace, NEW pkt \in Packets,
           ~IsLate(b, seq),
           NEW c, c = [frames |-> Store(b.frames, seq, pkt),
                       nextOut |-> IF b.hasNext THEN b.nextOut ELSE seq,
                       hasNext |-> TRUE, primed |-> b.primed]
    PROVE  GoodBuffer(c) /\ c.hasNext /\ DOMAIN c.frames = DOMAIN b.frames \cup {seq}
  <1> DEFINE f == Store(b.frames, seq, pkt)
             n == IF b.hasNext THEN b.nextOut ELSE seq
  <1>1. c = [frames |-> f, nextOut |-> n, hasNext |-> TRUE, primed |-> b.primed]
    OBVIOUS
  <1>2. DOMAIN f = DOMAIN b.frames \cup {seq} /\ f \in [DOMAIN f -> Packets]
    BY DEF Store, GoodBuffer
  <1>3. \A s \in DOMAIN f : seqDelta(n, s) >= 0
    <2>1. CASE b.hasNext
      <3>1. seqDelta(b.nextOut, seq) \in -Half .. (Half - 1)
        BY DeltaFacts DEF GoodBuffer
      <3>2. ~(seqDelta(b.nextOut, seq) < 0)
        BY <2>1 DEF IsLate
      <3>3. seqDelta(b.nextOut, seq) >= 0
        BY <3>1, <3>2, HalfAssumption
      <3> QED
        BY <2>1, <3>3, <1>2 DEF GoodBuffer
    <2>2. CASE ~b.hasNext
      BY <2>2, <1>2, DeltaFacts DEF GoodBuffer
    <2> QED
      BY <2>1, <2>2 DEF GoodBuffer
  <1>4. n \in SeqSpace /\ DOMAIN f \subseteq SeqSpace
    BY <1>2 DEF GoodBuffer
  <1>5. b.primed \in BOOLEAN
    BY DEF GoodBuffer
  <1> HIDE DEF f, n
  <1>6. /\ c.frames = f /\ c.nextOut = n /\ c.hasNext = TRUE /\ c.primed = b.primed
        /\ IsBuffer(c)
    BY <1>1 DEF IsBuffer
  <1>7. GoodBuffer(c)
    BY <1>2, <1>3, <1>4, <1>5, <1>6 DEF GoodBuffer
  <1> QED
    BY <1>2, <1>6, <1>7

(* Deleting any frame, and advancing the position by one if the frame at   *)
(* the position is gone, keeps a good buffer good.                         *)
LEMMA AdvanceKeepsGood ==
    ASSUME NEW b, GoodBuffer(b), b.hasNext, NEW seq,
           NEW c, IsBuffer(c), c.frames = Delete(b.frames, seq),
           c.hasNext = TRUE, c.primed \in BOOLEAN,
           \/ c.nextOut = b.nextOut
           \/ c.nextOut = Inc(b.nextOut) /\ seq = b.nextOut
    PROVE  GoodBuffer(c) /\ DOMAIN c.frames = DOMAIN b.frames \ {seq}
  <1> DEFINE f == Delete(b.frames, seq)
             n == c.nextOut
  <1>1. DOMAIN f = DOMAIN b.frames \ {seq} /\ f \in [DOMAIN f -> Packets]
    BY DEF Delete, GoodBuffer
  <1>2. \A s \in DOMAIN f : seqDelta(n, s) >= 0
    <2> SUFFICES ASSUME NEW s \in DOMAIN f PROVE seqDelta(n, s) >= 0
      OBVIOUS
    <2>1. s \in SeqSpace /\ b.nextOut \in SeqSpace /\ seqDelta(b.nextOut, s) >= 0
      BY <1>1 DEF GoodBuffer
    <2>2. CASE n = b.nextOut
      BY <2>1, <2>2
    <2>3. CASE n # b.nextOut
      <3>1. s # b.nextOut
        BY <1>1, <2>3
      <3>2. seqDelta(b.nextOut, s) \in -Half .. (Half - 1) /\ seqDelta(b.nextOut, s) # 0
        BY <2>1, <3>1, DeltaFacts
      <3>3. seqDelta(b.nextOut, s) >= 1
        BY <2>1, <3>2, HalfAssumption
      <3>4. seqDelta(n, s) = seqDelta(b.nextOut, s) - 1
        BY <2>1, <2>3, <3>3, DeltaFacts
      <3> QED
        BY <3>2, <3>3, <3>4, HalfAssumption
    <2> QED
      BY <2>2, <2>3
  <1>3. n \in SeqSpace
    BY DeltaFacts DEF GoodBuffer
  <1>4. DOMAIN f \subseteq SeqSpace
    BY <1>1 DEF GoodBuffer
  <1>5. c.frames = f
    OBVIOUS
  <1> HIDE DEF f
  <1> QED
    BY <1>1, <1>2, <1>3, <1>4, <1>5 DEF GoodBuffer

(* The scan of the hard-cap loop finds the frame nearest to the position   *)
(* whenever two frames or more are stored: only one frame can be at the    *)
(* distance Half - 1 that the scan overlooks.                              *)
LEMMA OldestIsFirst ==
    ASSUME NEW b, GoodBuffer(b), Cardinality(DOMAIN b.frames) > 1
    PROVE  /\ Oldest(b) \in DOMAIN b.frames
           /\ \A t \in DOMAIN b.frames :
                 seqDelta(b.nextOut, Oldest(b)) <= seqDelta(b.nextOut, t)
  <1> DEFINE D == DOMAIN b.frames
             d(s) == seqDelta(b.nextOut, s)
  <1>1. D \subseteq SeqSpace /\ b.nextOut \in SeqSpace /\ \A s \in D : d(s) >= 0
    BY DEF GoodBuffer
  <1>2. ASSUME NEW s \in D PROVE d(s) \in 0 .. (Half - 1)
    <2>1. d(s) \in -Half .. (Half - 1) /\ d(s) >= 0
      BY <1>1, DeltaFacts
    <2> QED
      BY <2>1, HalfAssumption
  <1>3. ASSUME NEW s \in D, NEW t \in D, d(s) = d(t) PROVE s = t
    <2>1. s \in SeqSpace /\ t \in SeqSpace /\ b.nextOut \in SeqSpace
      BY <1>1
    <2> QED
      BY <2>1, <1>3, DeltaFacts
  <1>4. IsFiniteSet(D)
    BY <1>1, FramesFinite
  <1>5. PICK s1 \in D : TRUE
    BY <1>4, FS_EmptySet
  <1>6. PICK s2 \in D : s2 # s1
    <2>1. D # {s1}
      BY FS_Singleton, <1>4
    <2> QED
      BY <2>1, <1>5
  <1>7. d(s1) # Half - 1 \/ d(s2) # Half - 1
    BY <1>3, <1>5, <1>6
  <1> DEFINE C == Candidates(b)
  <1>8. C = {s \in D : d(s) \in 0 .. (Half - 2)}
    BY DEF Candidates
  <1>9. C # {}
    BY <1>2, <1>5, <1>6, <1>7, <1>8, HalfAssumption
  <1>10. \E s \in C : \A t \in C : d(s) <= d(t)
    <2> DEFINE T == {d(s) : s \in C}
    <2>1. T \subseteq Nat /\ T # {}
      BY <1>8, <1>9, HalfAssumption
    <2> HIDE DEF T
    <2>2. PICK x \in T : \A y \in T : ~(<<y, x>> \in OpToRel(<, Nat))
      BY <2>1, WFMin, NatLessThanWellFounded
    <2>3. \A y \in T : ~(y < x)
      BY <2>1, <2>2 DEF OpToRel
    <2>4. \A y \in T : x <= y
      BY <2>1, <2>3
    <2> USE DEF T
    <2>5. PICK s \in C : x = d(s)
      OBVIOUS
    <2> QED
      BY <2>4, <2>5
  <1>11. Oldest(b) \in C /\ \A t \in C : d(Oldest(b)) <= d(t)
    BY <1>9, <1>10 DEF Oldest
  <1>12. \A t \in D : d(Oldest(b)) <= d(t)
    <2> SUFFICES ASSUME NEW t \in D PROVE d(Oldest(b)) <= d(t)
      OBVIOUS
    <2>1. CASE t \in C
      BY <2>1, <1>11
    <2>2. CASE t \notin C
      BY <2>2, <1>2, <1>8, <1>11, HalfAssumption
    <2> QED
      BY <2>1, <2>2
  <1> QED
    BY <1>8, <1>11, <1>12

(* An update of a buffer's fields, written out. *)
LEMMA Updated ==
    ASSUME NEW b, GoodBuffer(b), NEW f, NEW n
    PROVE  [b EXCEPT !.frames = f, !.nextOut = n, !.hasNext = TRUE]
             = [frames |-> f, nextOut |-> n, hasNext |-> TRUE, primed |-> b.primed]
  <1> DEFINE c == [b EXCEPT !.frames = f, !.nextOut = n, !.hasNext = TRUE]
  <1>1. c = [b EXCEPT !.frames = f, !.nextOut = n, !.hasNext = TRUE]
    OBVIOUS
  <1> HIDE DEF c
  <1>2. c = [frames |-> f, nextOut |-> n, hasNext |-> TRUE, primed |-> b.primed]
    BY <1>1 DEF GoodBuffer, IsBuffer
  <1> QED
    BY <1>1, <1>2

(* Push keeps the buffer good and within its cap. *)
LEMMA PushKeepsGood ==
    ASSUME NEW b, GoodBuffer(b), Cardinality(DOMAIN b.frames) <= MaxFrames,
           NEW seq \in SeqSpace, NEW pkt \in Packets
    PROVE  /\ GoodBuffer(Push(b, seq, pkt))
           /\ Cardinality(DOMAIN Push(b, seq, pkt).frames) <= MaxFrames
           /\ \A s \in DOMAIN b.frames \ DOMAIN Push(b, seq, pkt).frames :
                 \A t \in DOMAIN Push(b, seq, pkt).frames :
                    seqDelta(b.nextOut, s) <= seqDelta(b.nextOut, t)
  <1> DEFINE f == Store(b.frames, seq, pkt)
             m == IF b.hasNext THEN b.nextOut ELSE seq
             c == [frames |-> f, nextOut |-> m, hasNext |-> TRUE, primed |-> b.primed]
             over == Cardinality(DOMAIN c.frames) > MaxFrames
  <1>1. c = [b EXCEPT !.frames = f, !.nextOut = m, !.hasNext = TRUE]
    <2> HIDE DEF f, m
    <2> QED
      BY Updated
  <1>2. Push(b, seq, pkt) = IF IsLate(b, seq) THEN b ELSE IF over THEN DropOldest(c) ELSE c
    BY <1>1 DEF Push
  <1>3. CASE IsLate(b, seq)
    BY <1>2, <1>3
  <1>4. CASE ~IsLate(b, seq)
    <2>1. GoodBuffer(c) /\ c.hasNext /\ DOMAIN c.frames = DOMAIN b.frames \cup {seq}
      BY <1>4, StoreKeepsGood
    <2>2. /\ IsFiniteSet(DOMAIN b.frames) /\ Cardinality(DOMAIN b.frames) \in Nat
          /\ IsFiniteSet(DOMAIN c.frames) /\ Cardinality(DOMAIN c.frames) \in Nat
      BY <2>1, FramesFinite DEF GoodBuffer
    <2>3. Cardinality(DOMAIN c.frames) <= MaxFrames + 1
      <3>1. Cardinality(DOMAIN b.frames \cup {seq})
              = IF seq \in DOMAIN b.frames THEN Cardinality(DOMAIN b.frames)
                ELSE Cardinality(DOMAIN b.frames) + 1
        BY <2>2, FS_AddElement
      <3> QED
        BY <2>1, <2>2, <3>1, FramesAssumption
    <2>4. CASE ~over
      BY <1>2, <1>4, <2>1, <2>2, <2>4, FramesAssumption
    <2>5. CASE over
      <3> DEFINE o == Oldest(c)
                 n == IF o = c.nextOut THEN Inc(c.nextOut) ELSE c.nextOut
                 e == [frames |-> Delete(c.frames, o), nextOut |-> n,
                       hasNext |-> TRUE, primed |-> c.primed]
      <3>1. Push(b, seq, pkt) = e
        BY <1>2, <1>4, <2>5 DEF DropOldest
      <3>2. /\ o \in DOMAIN c.frames
            /\ \A t \in DOMAIN c.frames : seqDelta(c.nextOut, o) <= seqDelta(c.nextOut, t)
        <4>1. Cardinality(DOMAIN c.frames) > 1
          BY <2>2, <2>5, FramesAssumption
        <4> HIDE DEF c
        <4> QED
          BY <2>1, <4>1, OldestIsFirst
      <3>3. GoodBuffer(e) /\ DOMAIN e.frames = DOMAIN c.frames \ {o}
        <4>1. c.primed \in BOOLEAN
          BY <2>1 DEF GoodBuffer
        <4> HIDE DEF c, o
        <4>2. n \in {c.nextOut, Inc(c.nextOut)} /\ (n # c.nextOut => o = c.nextOut)
          OBVIOUS
        <4> HIDE DEF n
        <4>3. /\ e.frames = Delete(c.frames, o) /\ e.nextOut = n
              /\ e.hasNext = TRUE /\ e.primed = c.primed
              /\ IsBuffer(e)
          BY DEF IsBuffer
        <4> HIDE DEF e
        <4> QED
          BY <2>1, <4>1, <4>2, <4>3, AdvanceKeepsGood
      <3>4. Cardinality(DOMAIN c.frames \ {o}) = Cardinality(DOMAIN c.frames) - 1
        <4> HIDE DEF c, o
        <4> QED
          BY <2>2, <3>2, FS_RemoveElement
      <3>5. Cardinality(DOMAIN e.frames) <= MaxFrames
        <4> HIDE DEF c, o, e
        <4> QED
          BY <2>2, <2>3, <3>3, <3>4, FramesAssumption
      <3>6. ASSUME NEW s \in DOMAIN b.frames \ DOMAIN e.frames, NEW t \in DOMAIN e.frames
            PROVE  seqDelta(b.nextOut, s) <= seqDelta(b.nextOut, t)
        <4>1. b.hasNext /\ c.nextOut = b.nextOut
          BY DEF GoodBuffer
        <4> HIDE DEF c, o, e
        <4>2. s = o /\ t \in DOMAIN c.frames
          BY <2>1, <3>3
        <4> QED
          BY <3>2, <4>1, <4>2
      <3> HIDE DEF c, o, n, e
      <3> QED
        BY <3>1, <3>3, <3>5, <3>6
    <2> QED
      BY <2>4, <2>5
  <1> QED
    BY <1>3, <1>4

(* Pop keeps the buffer good and within its cap. *)
LEMMA PopKeepsGood ==
    ASSUME NEW b, GoodBuffer(b), Cardinality(DOMAIN b.frames) <= MaxFrames
    PROVE  /\ GoodBuffer(Pop(b))
           /\ Cardinality(DOMAIN Pop(b).frames) <= MaxFrames
           /\ DOMAIN b.frames \ DOMAIN Pop(b).frames \subseteq {b.nextOut}
           /\ DOMAIN Pop(b).frames \subseteq DOMAIN b.frames
  <1>1. CASE ~b.hasNext \/ Prerolling(b)
    BY <1>1 DEF Pop
  <1>2. CASE b.hasNext /\ ~Prerolling(b)
    <2> DEFINE c == [frames |-> Delete(b.frames, b.nextOut), nextOut |-> Inc(b.nextOut),
                     hasNext |-> TRUE, primed |-> TRUE]
    <2>1. c = Pop(b)
      <3>1. Pop(b) = [b EXCEPT !.primed = TRUE, !.frames = Delete(b.frames, b.nextOut),
                               !.nextOut = Inc(b.nextOut)]
        BY <1>2 DEF Pop
      <3>2. b.hasNext = TRUE
        BY <1>2 DEF GoodBuffer
      <3> QED
        BY <3>1, <3>2 DEF GoodBuffer, IsBuffer
    <2>2. GoodBuffer(c) /\ DOMAIN c.frames = DOMAIN b.frames \ {b.nextOut}
      <3>1. /\ c.frames = Delete(b.frames, b.nextOut) /\ c.nextOut = Inc(b.nextOut)
            /\ c.hasNext = TRUE /\ c.primed = TRUE
            /\ IsBuffer(c)
        BY DEF IsBuffer
      <3> HIDE DEF c
      <3> QED
        BY <1>2, <3>1, AdvanceKeepsGood
    <2>3. Cardinality(DOMAIN b.frames \ {b.nextOut}) <= MaxFrames
      <3>1. IsFiniteSet(DOMAIN b.frames) /\ Cardinality(DOMAIN b.frames) \in Nat
        BY FramesFinite DEF GoodBuffer
      <3>2. CASE b.nextOut \notin DOMAIN b.frames
        <4>1. DOMAIN b.frames \ {b.nextOut} = DOMAIN b.frames
          BY <3>2
        <4> QED
          BY <4>1
      <3>3. CASE b.nextOut \in DOMAIN b.frames
        <4>1. Cardinality(DOMAIN b.frames \ {b.nextOut}) = Cardinality(DOMAIN b.frames) - 1
          BY <3>1, <3>3, FS_RemoveElement
        <4> QED
          BY <3>1, <4>1, FramesAssumption
      <3> QED
        BY <3>2, <3>3
    <2> HIDE DEF c
    <2> QED
      BY <2>1, <2>2, <2>3
  <1> QED
    BY <1>1, <1>2

(* The new buffer satisfies the invariant. *)
LEMMA InitGood == Init => IInv
  BY FS_EmptySet, FramesAssumption, HalfAssumption
  DEF Init, NewJitterBuffer, IInv, TypeOK, InWindow, Capacity, SeqSpace

(* Push and Pop preserve the invariant. *)
LEMMA NextGood == IInv /\ [Next]_jb => IInv'
  <1> SUFFICES ASSUME IInv, [Next]_jb PROVE IInv'
    OBVIOUS
  <1>1. GoodBuffer(jb) /\ Cardinality(DOMAIN jb.frames) <= MaxFrames
    BY IInvIsGood DEF Capacity
  <1>2. GoodBuffer(jb') /\ Cardinality(DOMAIN jb'.frames) <= MaxFrames
    <2>1. CASE PushAny
      BY <1>1, <2>1, PushKeepsGood DEF PushAny
    <2>2. CASE PopAny
      BY <1>1, <2>2, PopKeepsGood DEF PopAny
    <2>3. CASE UNCHANGED jb
      BY <1>1, <2>3
    <2> QED
      BY <2>1, <2>2, <2>3 DEF Next
  <1> QED
    BY <1>2 DEF GoodBuffer, IsBuffer, IInv, TypeOK, InWindow, Capacity

(* The jitter buffer's invariant: whatever is pushed and popped, in any     *)
(* order, the fields keep their types, no frame is left behind the playout *)
(* position, and the hard cap holds.                                       *)
THEOREM BufferInvariant == Spec => [](TypeOK /\ InWindow /\ Capacity)
  <1>1. IInv => TypeOK /\ InWindow /\ Capacity
    BY DEF IInv
  <1> QED
    BY <1>1, InitGood, NextGood, PTL DEF Spec

(* A frame leaves the buffer, by Pop or by the hard cap of Push, only as   *)
(* the oldest one in it.                                                   *)
THEOREM OldestLeavesFirst == Spec => LeavesOldestFirst
  <1> DEFINE A == \A s \in DOMAIN jb.frames \ DOMAIN jb'.frames :
                    \A t \in DOMAIN jb'.frames :
                       seqDelta(jb.nextOut, s) <= seqDelta(jb.nextOut, t)
  <1>1. IInv /\ [Next]_jb => [A]_jb
    <2> SUFFICES ASSUME IInv, Next PROVE A
      OBVIOUS
    <2>1. GoodBuffer(jb) /\ Cardinality(DOMAIN jb.frames) <= MaxFrames
      BY IInvIsGood DEF Capacity
    <2>2. CASE PushAny
      BY <2>1, <2>2, PushKeepsGood DEF PushAny
    <2>3. CASE PopAny
      <3> SUFFICES ASSUME NEW s \in DOMAIN jb.frames \ DOMAIN jb'.frames,
                          NEW t \in DOMAIN jb'.frames
                   PROVE  seqDelta(jb.nextOut, s) <= seqDelta(jb.nextOut, t)
        OBVIOUS
      <3>1. s = jb.nextOut /\ t \in DOMAIN jb.frames
        BY <2>1, <2>3, PopKeepsGood DEF PopAny
      <3>2. jb.nextOut \in SeqSpace /\ t \in SeqSpace /\ seqDelta(jb.nextOut, t) >= 0
        BY <2>1, <3>1 DEF GoodBuffer
      <3>3. seqDelta(jb.nextOut, s) = 0
        BY <3>1, <3>2, DeltaFacts
      <3> QED
        BY <3>2, <3>3
    <2> QED
      BY <2>2, <2>3 DEF Next
  <1>2. Spec => [][A]_jb
    BY <1>1, InitGood, NextGood, PTL DEF Spec
  <1> QED
    BY <1>2 DEF LeavesOldestFirst
-----------------------------------------------------------------------------
(* Numbers on the circle. *)

(* Division with remainder. *)
LEMMA Quotient ==
    ASSUME NEW m \in Nat \ {0}, NEW x \in Nat
    PROVE  \E q \in Int : x = m * q + (x % m) /\ x % m \in 0 .. (m - 1)
  <1>1. x % m \in 0 .. (m - 1)
    OBVIOUS
  <1>2. x = m * (x \div m) + (x % m) /\ x \div m \in Int
    OBVIOUS
  <1> QED
    BY <1>1, <1>2

(* A number has one quotient and one remainder. *)
LEMMA SameQuotient ==
    ASSUME NEW m \in Nat \ {0}, NEW p \in Int, NEW q \in Int,
           m * p - m * q < m, m * q - m * p < m
    PROVE  p = q
  <1>1. ASSUME p >= q + 1 PROVE FALSE
    <2>1. m * p >= m * (q + 1)
      BY <1>1
    <2> QED
      BY <2>1
  <1>2. ASSUME q >= p + 1 PROVE FALSE
    <2>1. m * q >= m * (p + 1)
      BY <1>2
    <2> QED
      BY <2>1
  <1> QED
    BY <1>1, <1>2

(* Truncation to the circle: the next number has the next place, and       *)
(* within half a circle seqDelta tells the true distance.                  *)
LEMMA SeqNumberFacts ==
    ASSUME NEW a \in Nat
    PROVE  /\ SeqNumber(a) \in SeqSpace
           /\ SeqNumber(a + 1) = Inc(SeqNumber(a))
           /\ \A b \in Nat : a - b <= Half /\ b - a < Half
                                => seqDelta(SeqNumber(a), SeqNumber(b)) = b - a
  <1> DEFINE m == 2 * Half
  <1>1. m \in Nat \ {0} /\ m > 2
    BY HalfAssumption
  <1>2. SeqNumber(a) = a % m
    BY DEF SeqNumber
  <1> HIDE DEF m
  <1>3. PICK q \in Int : a = m * q + SeqNumber(a) /\ SeqNumber(a) \in 0 .. (m - 1)
    BY <1>1, <1>2, Quotient
  <1>4. ASSUME NEW b \in Nat, NEW d \in Int, b = a + d, -m < d, d < m
        PROVE  SeqNumber(b) \in {SeqNumber(a) + d - m, SeqNumber(a) + d, SeqNumber(a) + d + m} \cap (0 .. (m - 1))
    <2>1. SeqNumber(b) = b % m
      BY DEF SeqNumber, m
    <2>2. PICK r \in Int : b = m * r + SeqNumber(b) /\ SeqNumber(b) \in 0 .. (m - 1)
      BY <1>1, <2>1, Quotient
    <2>3. m * r - m * q = d + SeqNumber(a) - SeqNumber(b)
      BY <1>1, <1>3, <1>4, <2>2
    <2>4. CASE r = q
      BY <2>2, <2>3, <2>4, <1>1, <1>3, <1>4
    <2>5. CASE r > q
      <3>1. m * r >= m * (q + 1) /\ m * (q + 1) = m * q + m
        BY <2>5, <1>1
      <3>2. m * r - m * (q + 1) < m
        BY <3>1, <2>3, <2>2, <1>1, <1>3, <1>4
      <3>3. m * r = m * q + m
        BY <3>1, <3>2, <1>1, SameQuotient
      <3> QED
        BY <3>3, <2>3, <2>2, <1>1, <1>3, <1>4
    <2>6. CASE r < q
      <3>1. m * q >= m * (r + 1) /\ m * (r + 1) = m * r + m
        BY <2>6, <1>1
      <3>2. m * q - m * (r + 1) < m
        BY <3>1, <2>3, <2>2, <1>1, <1>3, <1>4
      <3>3. m * q = m * r + m
        BY <3>1, <3>2, <1>1, SameQuotient
      <3> QED
        BY <3>3, <2>3, <2>2, <1>1, <1>3, <1>4
    <2> QED
      BY <2>4, <2>5, <2>6
  <1>5. SeqNumber(a + 1) = Inc(SeqNumber(a))
    BY <1>1, <1>3, <1>4 DEF Inc, m
  <1>6. ASSUME NEW b \in Nat, a - b <= Half, b - a < Half
        PROVE  seqDelta(SeqNumber(a), SeqNumber(b)) = b - a
    <2>1. SeqNumber(b) \in {SeqNumber(a) + (b - a) - m, SeqNumber(a) + (b - a), SeqNumber(a) + (b - a) + m}
                         \cap (0 .. (m - 1))
      BY <1>1, <1>4, <1>6, HalfAssumption DEF m
    <2> QED
      BY <2>1, <1>1, <1>3, <1>6, HalfAssumption DEF seqDelta, m
  <1> QED
    BY <1>3, <1>5, <1>6 DEF SeqSpace, m
-----------------------------------------------------------------------------
(* The buffer against the true numbers.  b plays from number N, and holds  *)
(* packets from there on, up to hi, each in its place.                     *)
Placed(b, N, hi) ==
    /\ b.hasNext /\ b.nextOut = SeqNumber(N)
    /\ \A s \in DOMAIN b.frames : b.frames[s] \in N .. hi /\ s = SeqNumber(b.frames[s])

(* A later end keeps it placed. *)
LEMMA PlacedGrows ==
    ASSUME NEW b, NEW N \in Nat, NEW hi \in Nat, NEW up \in Nat, hi <= up, Placed(b, N, hi)
    PROVE  Placed(b, N, up)
  BY DEF Placed

(* Frames without the one at the position belong to the next one. *)
LEMMA PlacedAdvances ==
    ASSUME NEW f, NEW N \in Nat, NEW hi \in Nat,
           \A s \in DOMAIN f : f[s] \in N .. hi /\ s = SeqNumber(f[s]),
           NEW s \in DOMAIN f, s # SeqNumber(N)
    PROVE  f[s] \in (N + 1) .. hi
  BY DEF Placed

(* An update of two fields. *)
LEMMA Dropped ==
    ASSUME NEW f, NEW m, NEW h, NEW p, NEW g, NEW k, NEW c,
           c = [frames |-> f, nextOut |-> m, hasNext |-> h, primed |-> p]
    PROVE  [c EXCEPT !.frames = g, !.nextOut = k]
             = [frames |-> g, nextOut |-> k, hasNext |-> h, primed |-> p]
  <1> DEFINE e == [c EXCEPT !.frames = g, !.nextOut = k]
  <1>1. e = [c EXCEPT !.frames = g, !.nextOut = k]
    OBVIOUS
  <1> HIDE DEF e
  <1>2. e = [frames |-> g, nextOut |-> k, hasNext |-> h, primed |-> p]
    BY <1>1
  <1> QED
    BY <1>1, <1>2

(* What Push makes of a buffer that plays, of a packet that is not late. *)
LEMMA PushForms ==
    ASSUME NEW b, GoodBuffer(b), b.hasNext, NEW seq \in SeqSpace, NEW pkt, ~IsLate(b, seq),
           NEW f, f = Store(b.frames, seq, pkt), NEW P, P = Push(b, seq, pkt)
    PROVE  /\ P.hasNext /\ P.primed = b.primed
           /\ ~(Cardinality(DOMAIN f) > MaxFrames) => P.frames = f /\ P.nextOut = b.nextOut
           /\ Cardinality(DOMAIN f) > MaxFrames =>
                 \E o : /\ P.frames = Delete(f, o)
                        /\ P.nextOut = IF o = b.nextOut THEN Inc(b.nextOut) ELSE b.nextOut
  <1> DEFINE m == IF b.hasNext THEN b.nextOut ELSE seq
             c == [frames |-> f, nextOut |-> m, hasNext |-> TRUE, primed |-> b.primed]
             o == Oldest(c)
             g == Delete(f, o)
             k == IF o = m THEN Inc(m) ELSE m
  <1>1. c = [b EXCEPT !.frames = f, !.nextOut = m, !.hasNext = TRUE]
    <2> HIDE DEF m
    <2> QED
      BY Updated
  <1>2. P = IF Cardinality(DOMAIN c.frames) > MaxFrames THEN DropOldest(c) ELSE c
    BY <1>1 DEF Push
  <1>3. c.frames = f /\ c.nextOut = m /\ c.hasNext /\ c.primed = b.primed
    OBVIOUS
  <1>4. DropOldest(c) = [c EXCEPT !.frames = g, !.nextOut = k]
    BY <1>3 DEF DropOldest
  <1>5. m = b.nextOut
    OBVIOUS
  <1>6. CASE ~(Cardinality(DOMAIN f) > MaxFrames)
    <2> HIDE DEF c, m
    <2> QED
      BY <1>2, <1>3, <1>5, <1>6
  <1>7. CASE Cardinality(DOMAIN f) > MaxFrames
    <2>1. P = [c EXCEPT !.frames = g, !.nextOut = k]
      BY <1>2, <1>3, <1>4, <1>7
    <2> HIDE DEF g, k, m, o
    <2>2. P = [frames |-> g, nextOut |-> k, hasNext |-> TRUE, primed |-> b.primed]
      BY <2>1, Dropped
    <2> HIDE DEF c
    <2>3. P.frames = g /\ P.nextOut = k /\ P.hasNext /\ P.primed = b.primed
      BY <2>2
    <2> QED
      BY <1>5, <1>7, <2>3 DEF g, k
  <1> QED
    BY <1>6, <1>7

(* Push of a packet within half a circle: a late one changes nothing; any  *)
(* other is stored, and an eviction moves the position by one at most.     *)
LEMMA PushPlaced ==
    ASSUME NEW b, GoodBuffer(b), NEW N \in Nat, NEW hi \in Nat, hi - N < Half,
           Placed(b, N, hi), NEW n \in Packets, n \in Nat, n <= hi, N - n <= Half
    PROVE  /\ \E k \in {N, N + 1} :
                 Placed(Push(b, SeqNumber(n), n), k, hi) /\ (k # N => N <= hi)
           /\ Push(b, SeqNumber(n), n).primed = b.primed
           /\ n >= N /\ ~(Cardinality(DOMAIN b.frames \cup {SeqNumber(n)}) > MaxFrames) =>
                /\ Placed(Push(b, SeqNumber(n), n), N, hi)
                /\ DOMAIN Push(b, SeqNumber(n), n).frames = DOMAIN b.frames \cup {SeqNumber(n)}
                /\ \A s \in DOMAIN b.frames \ {SeqNumber(n)} :
                      Push(b, SeqNumber(n), n).frames[s] = b.frames[s]
                /\ Push(b, SeqNumber(n), n).frames[SeqNumber(n)] = n
  <1> DEFINE seq == SeqNumber(n)
             f == Store(b.frames, seq, n)
             P == Push(b, seq, n)
  <1>1. b.hasNext /\ b.nextOut = SeqNumber(N)
    BY DEF Placed
  <1>2. seq \in SeqSpace /\ (IsLate(b, seq) <=> n < N)
    BY <1>1, SeqNumberFacts, HalfAssumption DEF IsLate
  <1>3. CASE n < N
    BY <1>2, <1>3 DEF Push
  <1>4. CASE n >= N
    <2>1. /\ DOMAIN f = DOMAIN b.frames \cup {seq} /\ f[seq] = n
          /\ \A s \in DOMAIN b.frames \ {seq} : f[s] = b.frames[s]
      BY DEF Store
    <2>2. \A s \in DOMAIN f : f[s] \in N .. hi /\ s = SeqNumber(f[s])
      BY <1>4, <2>1 DEF Placed
    <2>3. ~IsLate(b, seq)
      BY <1>2, <1>4
    <2>4. /\ P.hasNext /\ P.primed = b.primed
          /\ ~(Cardinality(DOMAIN f) > MaxFrames) => P.frames = f /\ P.nextOut = b.nextOut
          /\ Cardinality(DOMAIN f) > MaxFrames =>
                \E o : /\ P.frames = Delete(f, o)
                       /\ P.nextOut = IF o = b.nextOut THEN Inc(b.nextOut) ELSE b.nextOut
      BY <1>1, <1>2, <2>3, PushForms
    <2> HIDE DEF P, f, seq
    <2>5. CASE ~(Cardinality(DOMAIN f) > MaxFrames)
      <3>1. Placed(P, N, hi)
        BY <1>1, <2>2, <2>4, <2>5 DEF Placed
      <3> QED
        BY <1>4, <2>1, <2>4, <2>5, <3>1 DEF P, seq
    <2>6. CASE Cardinality(DOMAIN f) > MaxFrames
      <3>1. PICK o : /\ P.frames = Delete(f, o)
                     /\ P.nextOut = IF o = b.nextOut THEN Inc(b.nextOut) ELSE b.nextOut
        BY <2>4, <2>6
      <3>2. DOMAIN P.frames = DOMAIN f \ {o} /\ \A s \in DOMAIN f \ {o} : P.frames[s] = f[s]
        BY <3>1 DEF Delete
      <3>3. CASE o = b.nextOut
        <4>1. P.nextOut = SeqNumber(N + 1)
          BY <1>1, <3>1, <3>3, SeqNumberFacts
        <4>2. \A s \in DOMAIN P.frames : f[s] \in (N + 1) .. hi /\ P.frames[s] = f[s]
          BY <1>1, <2>2, <3>2, <3>3, PlacedAdvances
        <4>3. Placed(P, N + 1, hi)
          BY <2>2, <2>4, <3>1, <3>2, <4>1, <4>2 DEF Placed
        <4> QED
          BY <1>4, <2>1, <2>4, <2>6, <4>3 DEF P, seq
      <3>4. CASE o # b.nextOut
        <4>1. Placed(P, N, hi)
          BY <1>1, <2>2, <2>4, <3>1, <3>2, <3>4 DEF Placed
        <4> QED
          BY <1>4, <2>1, <2>4, <2>6, <4>1 DEF P, seq
      <3> QED
        BY <3>3, <3>4
    <2> QED
      BY <2>5, <2>6
  <1> QED
    BY <1>3, <1>4

(* The first Push of all. *)
LEMMA FirstPush ==
    ASSUME NEW b, GoodBuffer(b), ~b.hasNext, NEW n \in Packets, n \in Nat, NEW hi \in Nat, n <= hi
    PROVE  /\ Placed(Push(b, SeqNumber(n), n), n, hi)
           /\ DOMAIN Push(b, SeqNumber(n), n).frames = {SeqNumber(n)}
           /\ Push(b, SeqNumber(n), n).frames[SeqNumber(n)] = n
           /\ Push(b, SeqNumber(n), n).primed = b.primed
  <1> DEFINE seq == SeqNumber(n)
             f == Store(b.frames, seq, n)
             c == [frames |-> f, nextOut |-> seq, hasNext |-> TRUE, primed |-> b.primed]
  <1>1. c = [b EXCEPT !.frames = f, !.nextOut = seq, !.hasNext = TRUE]
    <2> HIDE DEF f, seq
    <2> QED
      BY Updated
  <1>2. DOMAIN f = {seq} /\ f[seq] = n
    BY DEF Store, GoodBuffer
  <1>3. ~(Cardinality(DOMAIN c.frames) > MaxFrames)
    <2>1. DOMAIN c.frames = {seq} /\ Cardinality({seq}) = 1
      BY <1>2, FS_Singleton
    <2> QED
      BY <2>1, FramesAssumption
  <1>4. Push(b, seq, n) = c
    BY <1>1, <1>3 DEF Push, IsLate
  <1>5. /\ c.frames = f /\ c.nextOut = seq /\ c.hasNext /\ c.primed = b.primed
    OBVIOUS
  <1> HIDE DEF c, f
  <1> QED
    BY <1>2, <1>4, <1>5 DEF Placed

(* Pop gives nothing, or the packet at the position, and moves on by one. *)
LEMMA PopPlaced ==
    ASSUME NEW b, GoodBuffer(b), NEW N \in Nat, NEW hi \in Nat, hi - N < Half,
           Placed(b, N, hi)
    PROVE  IF Prerolling(b) THEN Pop(b) = b /\ Decoded(PopFrame(b)) = Concealed
           ELSE /\ Placed(Pop(b), N + 1, hi) /\ Pop(b).primed
                /\ Decoded(PopFrame(b)) \in {Concealed, N}
  <1>1. b.hasNext /\ b.nextOut = SeqNumber(N)
    BY DEF Placed
  <1>2. CASE Prerolling(b)
    BY <1>2 DEF Pop, PopFrame, Decoded
  <1>3. CASE ~Prerolling(b)
    <2> DEFINE f == Delete(b.frames, b.nextOut)
               P == Pop(b)
    <2>1. P = [frames |-> f, nextOut |-> Inc(b.nextOut), hasNext |-> b.hasNext, primed |-> TRUE]
      BY <1>1, <1>3 DEF Pop, GoodBuffer, IsBuffer
    <2>2. P.frames = f /\ P.nextOut = Inc(b.nextOut) /\ P.hasNext /\ P.primed
      BY <1>1, <2>1
    <2> HIDE DEF P
    <2>3. DOMAIN f = DOMAIN b.frames \ {b.nextOut} /\ \A s \in DOMAIN f : f[s] = b.frames[s]
      BY DEF Delete
    <2> HIDE DEF f
    <2>4. Placed(P, N + 1, hi)
      <3>1. P.nextOut = SeqNumber(N + 1)
        BY <1>1, <2>2, SeqNumberFacts
      <3>2. \A s \in DOMAIN b.frames : b.frames[s] \in N .. hi /\ s = SeqNumber(b.frames[s])
        BY DEF Placed
      <3>3. \A s \in DOMAIN f : b.frames[s] \in (N + 1) .. hi
        BY <1>1, <2>3, <3>2, PlacedAdvances
      <3> QED
        BY <2>2, <2>3, <3>1, <3>2, <3>3 DEF Placed
    <2>5. Decoded(PopFrame(b)) \in {Concealed, N}
      <3>1. CASE b.nextOut \notin DOMAIN b.frames
        BY <3>1 DEF PopFrame, Decoded
      <3>2. CASE b.nextOut \in DOMAIN b.frames
        <4> DEFINE p == b.frames[b.nextOut]
        <4>1. p \in N .. hi /\ SeqNumber(p) = SeqNumber(N)
          BY <1>1, <3>2 DEF Placed
        <4>2. seqDelta(SeqNumber(N), SeqNumber(p)) = p - N /\ seqDelta(SeqNumber(N), SeqNumber(N)) = 0
          BY <4>1, SeqNumberFacts, HalfAssumption
        <4>3. p = N
          BY <4>1, <4>2
        <4>4. PopFrame(b) = {p}
          BY <1>1, <1>3, <3>2 DEF PopFrame
        <4> QED
          BY <4>3, <4>4 DEF Decoded
      <3> QED
        BY <3>1, <3>2
    <2> QED
      BY <1>3, <2>2, <2>4, <2>5 DEF P
  <1> QED
    BY <1>2, <1>3
-----------------------------------------------------------------------------
(* The media path: types. *)

MediaTyped == MediaTypeOK /\ IInv

(* One turn of recvLoop on the buffer. *)
LEMMA TurnKeepsGood ==
    ASSUME MediaTyped, NEW n \in flight, recvLoop(n)
    PROVE  /\ n \in Packets /\ n \in Nat
           /\ GoodBuffer(jb) /\ Cardinality(DOMAIN jb.frames) <= MaxFrames
           /\ GoodBuffer(Push(jb, SeqNumber(n), n))
           /\ Cardinality(DOMAIN Push(jb, SeqNumber(n), n).frames) <= MaxFrames
           /\ GoodBuffer(jb') /\ Cardinality(DOMAIN jb'.frames) <= MaxFrames
  <1>1. n \in Packets /\ n \in Nat
    BY MediaAssumption DEF MediaTyped, MediaTypeOK
  <1>2. GoodBuffer(jb) /\ Cardinality(DOMAIN jb.frames) <= MaxFrames
    BY IInvIsGood DEF MediaTyped, Capacity
  <1>3. SeqNumber(n) \in SeqSpace
    BY <1>1, SeqNumberFacts
  <1> DEFINE b == Push(jb, SeqNumber(n), n)
  <1>4. GoodBuffer(b) /\ Cardinality(DOMAIN b.frames) <= MaxFrames
    BY <1>1, <1>2, <1>3, PushKeepsGood
  <1>5. jb' = Pop(b)
    BY DEF recvLoop
  <1> HIDE DEF b
  <1>6. GoodBuffer(jb') /\ Cardinality(DOMAIN jb'.frames) <= MaxFrames
    BY <1>4, <1>5, PopKeepsGood
  <1> QED
    BY <1>1, <1>2, <1>4, <1>6 DEF b

(* Decode gives the packet it is given, or conceals. *)
LEMMA DecodedType ==
    ASSUME NEW b, GoodBuffer(b)
    PROVE  Decoded(PopFrame(b)) \in Packets \cup {Concealed}
  <1>1. PopFrame(b) = {} \/ \E x \in Packets : PopFrame(b) = {x}
    BY DEF PopFrame, GoodBuffer
  <1> QED
    BY <1>1 DEF Decoded

(* Enqueue appends to the queue, or to its tail when it is full. *)
LEMMA Enqueued ==
    ASSUME NEW S, NEW q \in Seq(S), Len(q) <= PullCap, NEW f \in S
    PROVE  /\ Enqueue(q, f) \in Seq(S) /\ Len(Enqueue(q, f)) <= PullCap
           /\ \/ Enqueue(q, f) = Append(q, f)
              \/ q # << >> /\ Enqueue(q, f) = Append(Tail(q), f)
  <1>1. PullCap \in Nat \ {0} /\ Len(q) \in Nat
    BY MediaAssumption
  <1>2. CASE Len(q) >= PullCap
    <2> DEFINE r == Tail(q)
    <2>1. q # << >> /\ r \in Seq(S) /\ Len(r) = Len(q) - 1
      BY <1>1, <1>2
    <2>2. Enqueue(q, f) = Append(r, f)
      BY <1>2 DEF Enqueue
    <2> HIDE DEF r
    <2>3. Append(r, f) \in Seq(S) /\ Len(Append(r, f)) = Len(r) + 1
      BY <2>1
    <2>4. Enqueue(q, f) \in Seq(S) /\ Len(Enqueue(q, f)) <= PullCap
      BY <1>1, <2>1, <2>2, <2>3
    <2> QED
      BY <2>1, <2>2, <2>4 DEF r
  <1>3. CASE ~(Len(q) >= PullCap)
    <2>1. Enqueue(q, f) = Append(q, f)
      BY <1>3 DEF Enqueue
    <2>2. Append(q, f) \in Seq(S) /\ Len(Append(q, f)) = Len(q) + 1
      OBVIOUS
    <2>3. Enqueue(q, f) \in Seq(S) /\ Len(Enqueue(q, f)) <= PullCap
      BY <1>1, <1>3, <2>1, <2>2
    <2> QED
      BY <2>1, <2>3
  <1> QED
    BY <1>2, <1>3

(* One turn of recvLoop keeps the types and the buffer's guarantees. *)
LEMMA MediaTypeTurn ==
    ASSUME MediaTyped, NEW n \in flight, recvLoop(n)
    PROVE  MediaTyped'
  <1> USE MediaAssumption DEF senderVars
  <1>1. IInv' /\ TypeOK'
    BY TurnKeepsGood DEF GoodBuffer, IsBuffer, IInv, TypeOK, InWindow, Capacity
  <1> DEFINE f == Decoded(PopFrame(Push(jb, SeqNumber(n), n)))
             S == Packets \cup {Concealed}
  <1>2. f \in S
    BY TurnKeepsGood, DecodedType
  <1>3. pullQ \in Seq(S) /\ Len(pullQ) <= PullCap /\ pullQ' = Enqueue(pullQ, f)
    BY DEF MediaTyped, MediaTypeOK, recvLoop
  <1> HIDE DEF f, S
  <1>4. pullQ' \in Seq(S) /\ Len(pullQ') <= PullCap
    BY <1>2, <1>3, Enqueued
  <1>5. control' \in Seq(BOOLEAN) /\ peerMuted' \in BOOLEAN
    <2>1. control \in Seq(BOOLEAN) /\ peerMuted \in BOOLEAN
      BY DEF MediaTyped, MediaTypeOK
    <2>2. CASE control = << >>
      BY <2>1, <2>2 DEF recvLoop
    <2>3. CASE control # << >>
      <3>1. Tail(control) \in Seq(BOOLEAN) /\ Head(control) \in BOOLEAN
        BY <2>1, <2>3
      <3>2. control' = Tail(control) /\ peerMuted' = Head(control)
        BY <2>3 DEF recvLoop
      <3> QED
        BY <3>1, <3>2
    <2> QED
      BY <2>2, <2>3
  <1>6. dups' \in 0 .. MaxDups /\ flight' \subseteq Packets
    <2>1. dups \in 0 .. MaxDups /\ flight \subseteq Packets
      BY DEF MediaTyped, MediaTypeOK
    <2>2. CASE flight' = flight \ {n} /\ dups' = dups
      BY <2>1, <2>2
    <2>3. CASE dups < MaxDups /\ dups' = dups + 1 /\ flight' = flight
      <3>1. dups + 1 \in 0 .. MaxDups
        BY <2>1, <2>3
      <3> QED
        BY <2>1, <2>3, <3>1
    <2> QED
      BY <2>2, <2>3 DEF recvLoop
  <1> QED
    BY <1>1, <1>4, <1>5, <1>6 DEF MediaTyped, MediaTypeOK, recvLoop, S

(* So does every other step. *)
LEMMA MediaTypeStep == MediaTyped /\ [MediaNext]_mediaVars => MediaTyped'
  <1> SUFFICES ASSUME MediaTyped, [MediaNext]_mediaVars PROVE MediaTyped'
    OBVIOUS
  <1> USE MediaAssumption
      DEF senderVars, networkVars, receiverVars, playVars
  <1>1. CASE jb' = jb
    <2>1. IInv' /\ TypeOK'
      BY <1>1 DEF MediaTyped, IInv, TypeOK, InWindow, Capacity
    <2>2. CASE onCapture
      BY <2>1, <2>2 DEF MediaTyped, MediaTypeOK, onCapture
    <2>3. CASE onPull
      <3>1. Head(pullQ) \in Packets \cup {Concealed} /\ Tail(pullQ) \in Seq(Packets \cup {Concealed})
            /\ Len(Tail(pullQ)) = Len(pullQ) - 1 /\ Len(pullQ) \in Nat
        BY <2>3 DEF MediaTyped, MediaTypeOK, onPull
      <3>2. pulled' \in 0 .. MaxPackets
        BY <2>3, <3>1 DEF MediaTyped, MediaTypeOK, onPull, Concealed
      <3> QED
        BY <2>1, <2>3, <3>1, <3>2 DEF MediaTyped, MediaTypeOK, onPull
    <2>4. CASE readControl
      <3>1. Head(wire) \in BOOLEAN /\ Tail(wire) \in Seq(BOOLEAN)
        BY <2>4 DEF MediaTyped, MediaTypeOK, readControl
      <3>2. Append(control, Head(wire)) \in Seq(BOOLEAN)
        BY <3>1 DEF MediaTyped, MediaTypeOK
      <3> QED
        BY <2>1, <2>4, <3>1, <3>2 DEF MediaTyped, MediaTypeOK, readControl
    <2>5. ASSUME NEW b \in BOOLEAN, SetMuted(b) PROVE MediaTyped'
      <3>1. toggles' \in 1 .. MaxToggles
        BY <2>5 DEF MediaTyped, MediaTypeOK, SetMuted
      <3> QED
        BY <2>1, <2>5, <3>1 DEF MediaTyped, MediaTypeOK, SetMuted
    <2>6. ASSUME NEW m \in notices, SendControl(m) PROVE MediaTyped'
      <3>1. m.value \in BOOLEAN
        BY DEF MediaTyped, MediaTypeOK
      <3>2. Append(wire, m.value) \in Seq(BOOLEAN)
        BY <3>1 DEF MediaTyped, MediaTypeOK
      <3> QED
        BY <2>1, <2>6, <3>2 DEF MediaTyped, MediaTypeOK, SendControl
    <2>7. ASSUME NEW n \in flight, Lose(n) PROVE MediaTyped'
      BY <2>1, <2>7 DEF MediaTyped, MediaTypeOK, Lose
    <2>8. CASE UNCHANGED mediaVars
      BY <2>1, <2>8 DEF MediaTyped, MediaTypeOK, mediaVars
    <2> QED
      BY <2>2, <2>3, <2>4, <2>5, <2>6, <2>7, <2>8, MediaTypeTurn DEF MediaNext
  <1>2. jb' = jb \/ \E n \in flight : recvLoop(n)
    BY DEF MediaNext, onCapture, onPull, readControl, SetMuted, SendControl, Lose, mediaVars
  <1> QED
    BY <1>1, <1>2, MediaTypeTurn

(* The order of what is played.  q waits for the sink, p was played last,  *)
(* and the buffer plays from N: packets rise along q and lie between.      *)
Ordered(q, p, N) ==
    /\ p < N
    /\ \A i \in 1 .. Len(q) :
         /\ q[i] < N
         /\ q[i] # Concealed => p < q[i] /\ \A j \in 1 .. (i - 1) : q[j] < q[i]

(* The sink takes the first frame: the rest is still in order, and after   *)
(* it.                                                                     *)
LEMMA OrderedTail ==
    ASSUME NEW q \in Seq(Nat), q # << >>, NEW p \in Nat, NEW N \in Nat, Ordered(q, p, N)
    PROVE  /\ Ordered(Tail(q), p, N)
           /\ Head(q) # Concealed => p < Head(q) /\ Ordered(Tail(q), Head(q), N)
  <1> DEFINE r == Tail(q)
  <1>1. /\ r \in Seq(Nat) /\ Len(r) = Len(q) - 1 /\ Len(q) \in Nat /\ Len(q) >= 1
        /\ \A i \in 1 .. Len(r) : r[i] = q[i + 1]
        /\ Head(q) = q[1]
    OBVIOUS
  <1> HIDE DEF r
  <1>2. /\ \A i \in 1 .. Len(q) : q[i] \in Nat
        /\ \A i \in 1 .. Len(r) : r[i] \in Nat /\ i + 1 \in 1 .. Len(q) /\ r[i] = q[i + 1]
        /\ Len(r) \in Nat
    <2>1. \A i \in 1 .. Len(q) : q[i] \in Nat
      OBVIOUS
    <2>2. \A i \in 1 .. Len(r) : i + 1 \in 1 .. Len(q)
      BY <1>1
    <2>3. Len(r) \in Nat /\ \A i \in 1 .. Len(r) : r[i] = q[i + 1]
      BY <1>1
    <2>4. ASSUME NEW i \in 1 .. Len(r) PROVE r[i] \in Nat
      <3>1. i + 1 \in 1 .. Len(q)
        BY <2>2
      <3>2. q[i + 1] \in Nat
        BY <2>1, <3>1
      <3> QED
        BY <2>3, <3>2
    <2> QED
      BY <2>1, <2>2, <2>3, <2>4
  <1>3. ASSUME NEW i \in 1 .. Len(r), r[i] # Concealed, NEW j \in 1 .. (i - 1)
        PROVE  r[j] < r[i]
    <2>1. j \in 1 .. Len(r) /\ j + 1 \in 1 .. ((i + 1) - 1)
      BY <1>2
    <2>2. r[j] = q[j + 1] /\ r[i] = q[i + 1] /\ i + 1 \in 1 .. Len(q)
      BY <1>2, <2>1
    <2> QED
      BY <1>3, <2>1, <2>2 DEF Ordered
  <1>4. Ordered(r, p, N)
    BY <1>2, <1>3 DEF Ordered
  <1>5. ASSUME Head(q) # Concealed
        PROVE  p < Head(q) /\ Ordered(r, Head(q), N)
    <2>1. 1 \in 1 .. Len(q) /\ Head(q) = q[1]
      BY <1>1
    <2>2. p < q[1] /\ q[1] < N
      BY <1>5, <2>1 DEF Ordered
    <2>3. ASSUME NEW i \in 1 .. Len(r), r[i] # Concealed PROVE q[1] < r[i]
      <3>1. i + 1 \in 1 .. Len(q) /\ r[i] = q[i + 1] /\ 1 \in 1 .. ((i + 1) - 1)
        BY <1>2
      <3> QED
        BY <2>3, <3>1 DEF Ordered
    <2> QED
      BY <1>2, <1>3, <1>4, <2>1, <2>2, <2>3 DEF Ordered
  <1> QED
    BY <1>4, <1>5 DEF r

(* A frame of N .. M - 1 may follow when the buffer plays from M on. *)
LEMMA OrderedAppend ==
    ASSUME NEW q \in Seq(Nat), NEW p \in Nat, NEW N \in Nat, Ordered(q, p, N),
           NEW M \in Nat, N < M, NEW f \in {Concealed} \cup (N .. (M - 1))
    PROVE  Ordered(Append(q, f), p, M)
  <1> DEFINE r == Append(q, f)
  <1>1. f \in Nat /\ (f # Concealed => N <= f) /\ f < M
    BY DEF Concealed
  <1>2. /\ Len(r) = Len(q) + 1 /\ Len(q) \in Nat
        /\ \A i \in 1 .. Len(q) : r[i] = q[i] /\ q[i] \in Nat
        /\ r[Len(q) + 1] = f
    BY <1>1
  <1> HIDE DEF r
  <1>3. \A i \in 1 .. Len(r) : i \in 1 .. Len(q) \/ i = Len(q) + 1
    BY <1>2
  <1>4. ASSUME NEW i \in 1 .. Len(q), r[i] # Concealed
        PROVE  p < r[i] /\ \A j \in 1 .. (i - 1) : r[j] < r[i]
    <2>1. \A j \in 1 .. (i - 1) : j \in 1 .. Len(q)
      BY <1>2
    <2> QED
      BY <1>2, <1>4, <2>1 DEF Ordered
  <1>5. \A i \in 1 .. Len(q) : r[i] < M
    <2>1. \A i \in 1 .. Len(q) : q[i] < N
      BY DEF Ordered
    <2> QED
      BY <1>2, <2>1
  <1>6. ASSUME f # Concealed
        PROVE  p < f /\ \A j \in 1 .. Len(q) : r[j] < f
    BY <1>1, <1>2, <1>6 DEF Ordered
  <1>7. \A i \in 1 .. Len(r) : r[i] < M
    BY <1>1, <1>2, <1>3, <1>5
  <1>8. ASSUME NEW i \in 1 .. Len(r), r[i] # Concealed
        PROVE  p < r[i] /\ \A j \in 1 .. (i - 1) : r[j] < r[i]
    <2>1. CASE i \in 1 .. Len(q)
      BY <1>4, <1>8, <2>1
    <2>2. CASE i = Len(q) + 1
      <3>1. r[i] = f /\ i - 1 = Len(q)
        BY <1>2, <2>2
      <3> QED
        BY <1>6, <1>8, <3>1
    <2> QED
      BY <1>3, <2>1, <2>2
  <1> QED
    BY <1>7, <1>8 DEF Ordered, r

(* The order does not depend on how far the buffer has moved on. *)
LEMMA OrderedLater ==
    ASSUME NEW q \in Seq(Nat), NEW p \in Nat, NEW N \in Nat, Ordered(q, p, N),
           NEW M \in Nat, N <= M
    PROVE  Ordered(q, p, M)
  <1>1. \A i \in 1 .. Len(q) : q[i] \in Nat
    OBVIOUS
  <1> QED
    BY <1>1 DEF Ordered

(* What a turn of recvLoop adds lies in N .. M - 1, or is concealed. *)
LEMMA OrderedEnqueue ==
    ASSUME NEW q \in Seq(Nat), Len(q) <= PullCap, NEW p \in Nat, NEW N \in Nat,
           Ordered(q, p, N),
           NEW M \in Nat, N < M, NEW f \in {Concealed} \cup (N .. (M - 1))
    PROVE  Ordered(Enqueue(q, f), p, M)
  <1>1. f \in Nat
    BY DEF Concealed
  <1>2. CASE Enqueue(q, f) = Append(q, f)
    BY <1>2, OrderedAppend
  <1>3. CASE q # << >> /\ Enqueue(q, f) = Append(Tail(q), f)
    <2> DEFINE r == Tail(q)
    <2>1. r \in Seq(Nat) /\ Ordered(r, p, N) /\ Enqueue(q, f) = Append(r, f)
      BY <1>3, OrderedTail
    <2> HIDE DEF r
    <2> QED
      BY <2>1, OrderedAppend
  <1> QED
    BY <1>1, <1>2, <1>3, Enqueued

(* A concealed frame changes nothing in the order. *)
LEMMA OrderedConceal ==
    ASSUME NEW q \in Seq(Nat), Len(q) <= PullCap, NEW p \in Nat, NEW N \in Nat,
           Ordered(q, p, N)
    PROVE  Ordered(Enqueue(q, Concealed), p, N)
  <1>1. Concealed \in Nat
    BY DEF Concealed
  <1>2. ASSUME NEW r \in Seq(Nat), Ordered(r, p, N)
        PROVE  Ordered(Append(r, Concealed), p, N)
    <2> DEFINE a == Append(r, Concealed)
    <2>1. /\ Len(a) = Len(r) + 1 /\ Len(r) \in Nat
          /\ \A i \in 1 .. Len(r) : a[i] = r[i]
          /\ a[Len(r) + 1] = Concealed
      BY <1>1
    <2> HIDE DEF a
    <2>2. \A i \in 1 .. Len(a) : i \in 1 .. Len(r) \/ i = Len(r) + 1
      BY <2>1
    <2>3. \A i \in 1 .. Len(r) : \A j \in 1 .. (i - 1) : j \in 1 .. Len(r)
      BY <2>1
    <2>4. p < N /\ Concealed < N
      BY <1>2 DEF Ordered, Concealed
    <2>5. Ordered(a, p, N)
      BY <1>2, <2>1, <2>2, <2>3, <2>4 DEF Ordered
    <2> QED
      BY <2>5 DEF a
  <1>3. CASE Enqueue(q, Concealed) = Append(q, Concealed)
    BY <1>2, <1>3
  <1>4. CASE q # << >> /\ Enqueue(q, Concealed) = Append(Tail(q), Concealed)
    <2>1. Tail(q) \in Seq(Nat) /\ Ordered(Tail(q), p, N)
      BY <1>4, OrderedTail
    <2> QED
      BY <1>2, <1>4, <2>1
  <1> QED
    BY <1>1, <1>3, <1>4, Enqueued

(* Nothing but silence waits, and nothing was played. *)
Mute(q, p) == p = 0 /\ \A i \in 1 .. Len(q) : q[i] = Concealed

(* A queue of concealed frames is in any order. *)
LEMMA MuteIsOrdered ==
    ASSUME NEW q, NEW p, Mute(q, p), NEW N \in Nat \ {0}
    PROVE  Ordered(q, p, N)
  BY DEF Mute, Ordered, Concealed

(* Taking from such a queue leaves one, and plays nothing. *)
LEMMA MuteTail ==
    ASSUME NEW q \in Seq(Nat), q # << >>, NEW p, Mute(q, p)
    PROVE  Head(q) = Concealed /\ Mute(Tail(q), p)
  <1> DEFINE r == Tail(q)
  <1>1. /\ Len(r) = Len(q) - 1 /\ Len(q) \in Nat \ {0}
        /\ \A i \in 1 .. Len(r) : r[i] = q[i + 1]
        /\ Head(q) = q[1]
    OBVIOUS
  <1> HIDE DEF r
  <1>2. 1 \in 1 .. Len(q) /\ \A i \in 1 .. Len(r) : i + 1 \in 1 .. Len(q)
    BY <1>1
  <1>3. Head(q) = Concealed /\ Mute(r, p)
    BY <1>1, <1>2 DEF Mute
  <1> QED
    BY <1>3 DEF r

(* A concealed frame more keeps it mute. *)
LEMMA MuteEnqueue ==
    ASSUME NEW q \in Seq(Nat), Len(q) <= PullCap, NEW p, Mute(q, p)
    PROVE  Mute(Enqueue(q, Concealed), p)
  <1>1. Concealed \in Nat
    BY DEF Concealed
  <1>2. ASSUME NEW r \in Seq(Nat), Mute(r, p)
        PROVE  Mute(Append(r, Concealed), p)
    <2> DEFINE a == Append(r, Concealed)
    <2>1. /\ Len(a) = Len(r) + 1 /\ Len(r) \in Nat
          /\ \A i \in 1 .. Len(r) : a[i] = r[i]
          /\ a[Len(r) + 1] = Concealed
      BY <1>1
    <2> HIDE DEF a
    <2>2. \A i \in 1 .. Len(a) : i \in 1 .. Len(r) \/ i = Len(r) + 1
      BY <2>1
    <2>3. Mute(a, p)
      BY <1>2, <2>1, <2>2 DEF Mute
    <2> QED
      BY <2>3 DEF a
  <1>3. CASE Enqueue(q, Concealed) = Append(q, Concealed)
    BY <1>2, <1>3
  <1>4. CASE q # << >> /\ Enqueue(q, Concealed) = Append(Tail(q), Concealed)
    <2>1. Tail(q) \in Seq(Nat) /\ Mute(Tail(q), p)
      BY <1>4, MuteTail
    <2> QED
      BY <1>2, <1>4, <2>1
  <1> QED
    BY <1>1, <1>3, <1>4, Enqueued

(* The packets under way are recent ones. *)
InFlight == \A n \in flight : txSeq - MaxFlight < n /\ n <= txSeq

(* The packets of F that the buffer b, at number N, has still to get. *)
Coming(N, b, F) == {n \in F : n >= N /\ \A s \in DOMAIN b.frames : b.frames[s] # n}

(* Where the buffer stands.  It has not run further ahead of the sender    *)
(* than the packets under way and the duplicates allow, nor fallen further *)
(* behind than they, the losses and the pre-roll explain.  During pre-roll *)
(* every packet from N on is stored, still to come, or lost.               *)
Position(N) ==
    /\ Placed(jb, N, txSeq)
    /\ N + Cardinality(flight) <= txSeq + MaxFlight + 1 + dups
    /\ jb.primed => txSeq <= N + Cardinality(flight) + lost + TargetFrames
    /\ ~jb.primed =>
         /\ Cardinality(DOMAIN jb.frames) < TargetFrames
         /\ txSeq + 1 <= N + Cardinality(DOMAIN jb.frames)
                           + Cardinality(Coming(N, jb, flight)) + lost
    /\ Ordered(pullQ, pulled, N)

(* What makes the order of playout inductive when the pre-roll can end. *)
Playing ==
    /\ jb.hasNext => \E N \in Nat \ {0} : Position(N)
    /\ ~jb.hasNext => /\ ~jb.primed /\ Mute(pullQ, pulled)
                      /\ txSeq <= Cardinality(flight) + lost

(* A pre-roll longer than the cap never ends. *)
NeverPrimed == ~jb.primed /\ Mute(pullQ, pulled)

(* A set of recent packets is no larger than the window. *)
LEMMA FlightFacts ==
    ASSUME MediaTyped, InFlight, WindowFits
    PROVE  /\ IsFiniteSet(flight) /\ Cardinality(flight) \in 0 .. MaxFlight
           /\ \A N \in Nat : /\ IsFiniteSet(Coming(N, jb, flight))
                             /\ Cardinality(Coming(N, jb, flight)) \in 0 .. Cardinality(flight)
           /\ \A n \in flight : n \in Nat \ {0} /\ n \in Packets
           /\ lost \in 0 .. MaxLost /\ txSeq \in Nat /\ MaxLost \in Nat /\ MaxFlight \in Nat \ {0}
           /\ dups \in 0 .. MaxDups /\ MaxDups \in Nat
           /\ Half \in Nat /\ TargetFrames \in Nat
  <1>1. /\ txSeq \in Nat /\ MaxFlight \in Nat /\ lost \in 0 .. MaxLost /\ MaxLost \in Nat
        /\ \A n \in flight : n \in Nat \ {0} /\ n \in Packets
        /\ dups \in 0 .. MaxDups /\ MaxDups \in Nat
    BY MediaAssumption DEF MediaTyped, MediaTypeOK
  <1> DEFINE lo == txSeq - MaxFlight + 1
  <1>2. lo \in Int /\ txSeq \in Int /\ txSeq - lo + 1 = MaxFlight /\ ~(lo > txSeq)
    BY <1>1 DEF WindowFits
  <1>3. flight \in SUBSET (lo .. txSeq)
    BY <1>1 DEF InFlight
  <1> HIDE DEF lo
  <1>4. IsFiniteSet(lo .. txSeq) /\ Cardinality(lo .. txSeq) = MaxFlight
    BY <1>2, FS_Interval
  <1>5. IsFiniteSet(flight) /\ Cardinality(flight) <= MaxFlight
    BY <1>3, <1>4, FS_Subset
  <1>6. Cardinality(flight) \in Nat
    BY <1>5, FS_CardinalityType
  <1>7. ASSUME NEW N \in Nat
        PROVE  /\ IsFiniteSet(Coming(N, jb, flight))
               /\ Cardinality(Coming(N, jb, flight)) \in 0 .. Cardinality(flight)
    <2>1. Coming(N, jb, flight) \in SUBSET flight
      BY DEF Coming
    <2>2. /\ IsFiniteSet(Coming(N, jb, flight))
          /\ Cardinality(Coming(N, jb, flight)) <= Cardinality(flight)
      BY <1>5, <2>1, FS_Subset
    <2>3. Cardinality(Coming(N, jb, flight)) \in Nat
      BY <2>2, FS_CardinalityType
    <2> QED
      BY <1>6, <2>2, <2>3
  <1> QED
    BY <1>1, <1>5, <1>6, <1>7, HalfAssumption, FramesAssumption DEF WindowFits

(* Frames in the queue are numbers. *)
LEMMA QueueFacts ==
    ASSUME MediaTyped
    PROVE  /\ pullQ \in Seq(Nat) /\ Len(pullQ) <= PullCap /\ pulled \in Nat
           /\ GoodBuffer(jb) /\ jb.primed \in BOOLEAN /\ jb.hasNext \in BOOLEAN
           /\ Cardinality(DOMAIN jb.frames) \in 0 .. MaxFrames
           /\ MaxFrames \in Nat
  <1>1. pullQ \in Seq(Packets \cup {Concealed}) /\ Len(pullQ) <= PullCap /\ pulled \in Nat
    BY MediaAssumption DEF MediaTyped, MediaTypeOK
  <1>2. Packets \cup {Concealed} \subseteq Nat
    BY MediaAssumption DEF Concealed
  <1>3. pullQ \in Seq(Nat)
    <2> DEFINE T == Packets \cup {Concealed}
    <2>1. pullQ \in Seq(T) /\ T \subseteq Nat
      BY <1>1, <1>2
    <2> HIDE DEF T
    <2> QED
      BY <2>1, SeqMonotonic
  <1>4. GoodBuffer(jb) /\ Cardinality(DOMAIN jb.frames) <= MaxFrames
    BY IInvIsGood DEF MediaTyped, Capacity
  <1>5. Cardinality(DOMAIN jb.frames) \in Nat
    BY <1>4, FramesFinite DEF GoodBuffer
  <1> QED
    BY <1>1, <1>3, <1>4, <1>5, FramesAssumption DEF GoodBuffer

(* onCapture waits for no packet to fall behind the window; the others     *)
(* only take packets out.                                                  *)
LEMMA InFlightStep == MediaTyped /\ WindowFits /\ InFlight /\ [MediaNext]_mediaVars => InFlight'
  <1> SUFFICES ASSUME MediaTyped, WindowFits, InFlight, [MediaNext]_mediaVars
               PROVE  InFlight'
    OBVIOUS
  <1>1. /\ txSeq \in Nat /\ MaxFlight \in Nat /\ MaxFlight >= 1
        /\ \A n \in flight : n \in Nat
    BY MediaAssumption DEF MediaTyped, MediaTypeOK, WindowFits
  <1>2. CASE onCapture
    BY <1>1, <1>2 DEF onCapture, InFlight
  <1>3. CASE txSeq' = txSeq /\ flight' \subseteq flight
    BY <1>3 DEF InFlight
  <1>4. onCapture \/ (txSeq' = txSeq /\ flight' \subseteq flight)
    BY DEF MediaNext, onPull, readControl, SetMuted, SendControl, Lose, recvLoop,
           mediaVars, senderVars, networkVars, playVars, receiverVars
  <1> QED
    BY <1>2, <1>3, <1>4

(* A packet is sent. *)
LEMMA CapturePlays ==
    ASSUME MediaTyped, WindowFits, InFlight, Playing, onCapture
    PROVE  Playing'
  <1> DEFINE n == txSeq + 1
  <1>1. /\ jb' = jb /\ lost' = lost /\ dups' = dups /\ pullQ' = pullQ /\ pulled' = pulled
        /\ txSeq' = n /\ flight' = flight \cup {n}
    BY DEF onCapture, playVars, receiverVars
  <1>2. n \notin flight /\ n \in Nat /\ txSeq \in Nat
    BY FlightFacts DEF InFlight
  <1>3. Cardinality(flight') = Cardinality(flight) + 1
    BY <1>1, <1>2, FlightFacts, FS_AddElement
  <1>4. CASE ~jb.hasNext
    BY <1>1, <1>2, <1>3, <1>4, FlightFacts DEF Playing
  <1>5. CASE jb.hasNext
    <2>1. PICK N \in Nat \ {0} : Position(N)
      BY <1>5 DEF Playing
    <2>2. Placed(jb', N, txSeq')
      BY <1>1, <1>2, <2>1, PlacedGrows DEF Position
    <2> DEFINE A == Coming(N, jb, flight)
               B == Coming(N, jb', flight')
    <2>3. IsFiniteSet(A) /\ Cardinality(B) = Cardinality(A) + (IF n >= N THEN 1 ELSE 0)
      <3>0. IsFiniteSet(A) /\ Cardinality(A) \in Nat
        BY FlightFacts
      <3>1. CASE n >= N
        <4>1. \A s \in DOMAIN jb.frames : jb.frames[s] # n
          BY <1>2, <2>1 DEF Position, Placed
        <4>2. B = A \cup {n} /\ n \notin A
          BY <1>1, <1>2, <3>1, <4>1 DEF Coming
        <4> HIDE DEF A, B
        <4> QED
          BY <3>0, <4>2, <3>1, FS_AddElement
      <3>2. CASE ~(n >= N)
        <4>1. B = A
          BY <1>1, <1>2, <3>2 DEF Coming
        <4> HIDE DEF A, B
        <4> QED
          BY <3>0, <4>1, <3>2
      <3> QED
        BY <3>1, <3>2
    <2>5. /\ N + Cardinality(flight') <= txSeq' + MaxFlight + 1 + dups
          /\ jb.primed => txSeq' <= N + Cardinality(flight') + lost + TargetFrames
      BY <1>1, <1>2, <1>3, <2>1, FlightFacts DEF Position
    <2>6. ASSUME ~jb.primed
          PROVE  txSeq' + 1 <= N + Cardinality(DOMAIN jb.frames) + Cardinality(B) + lost
      <3> DEFINE d == Cardinality(DOMAIN jb.frames)
                 a == Cardinality(A)
                 e == Cardinality(B)
      <3>1. d \in Nat
        BY QueueFacts
      <3> HIDE DEF d
      <3>2. a \in Nat /\ lost \in Nat
        BY FlightFacts
      <3>3. txSeq + 1 <= N + d + a + lost /\ txSeq' = txSeq + 1
        BY <1>1, <2>1, <2>6 DEF Position, d
      <3>4. e = a + (IF n >= N THEN 1 ELSE 0)
        BY <2>3
      <3> HIDE DEF a, e
      <3>5. txSeq' + 1 <= N + d + e + lost
        BY <1>2, <3>1, <3>2, <3>3, <3>4
      <3> QED
        BY <3>5 DEF d, e
    <2>7. Position(N)'
      BY <1>1, <2>1, <2>2, <2>5, <2>6 DEF Position
    <2> QED
      BY <1>1, <1>5, <2>7 DEF Playing
  <1> QED
    BY <1>4, <1>5, QueueFacts

(* A packet leaves the network and the buffer does not see it. *)
LEMMA LosePlays ==
    ASSUME MediaTyped, WindowFits, InFlight, Playing, NEW n \in flight, Lose(n)
    PROVE  Playing'
  <1>1. /\ jb' = jb /\ lost' = lost + 1 /\ dups' = dups /\ pullQ' = pullQ /\ pulled' = pulled
        /\ txSeq' = txSeq /\ flight' = flight \ {n}
    BY DEF Lose, playVars, receiverVars, senderVars
  <1>2. Cardinality(flight') = Cardinality(flight) - 1
    BY <1>1, FlightFacts, FS_RemoveElement
  <1>3. CASE ~jb.hasNext
    BY <1>1, <1>2, <1>3, FlightFacts DEF Playing
  <1>4. CASE jb.hasNext
    <2>1. PICK N \in Nat \ {0} : Position(N)
      BY <1>4 DEF Playing
    <2> DEFINE A == Coming(N, jb, flight)
               B == Coming(N, jb', flight')
    <2>2. B = A \ {n}
      BY <1>1 DEF Coming
    <2>3. Cardinality(B) >= Cardinality(A) - 1 /\ Cardinality(B) \in Int
      <3>1. IsFiniteSet(A) /\ Cardinality(A) \in Nat
        BY FlightFacts
      <3> HIDE DEF A, B
      <3>2. Cardinality(A \ {n}) = IF n \in A THEN Cardinality(A) - 1 ELSE Cardinality(A)
        BY <3>1, FS_RemoveElement
      <3> QED
        BY <2>2, <3>1, <3>2
    <2>4. /\ N + Cardinality(flight') <= txSeq + MaxFlight + 1 + dups
          /\ jb.primed => txSeq <= N + Cardinality(flight') + lost' + TargetFrames
      BY <1>1, <1>2, <2>1, FlightFacts DEF Position
    <2>5. ASSUME ~jb.primed
          PROVE  txSeq + 1 <= N + Cardinality(DOMAIN jb.frames) + Cardinality(B) + lost'
      <3> DEFINE d == Cardinality(DOMAIN jb.frames)
                 a == Cardinality(A)
                 e == Cardinality(B)
      <3>1. d \in Nat /\ a \in Nat /\ lost \in Nat /\ e \in Int /\ e >= a - 1 /\ txSeq \in Nat
        BY <2>3, FlightFacts, QueueFacts
      <3>2. txSeq + 1 <= N + d + a + lost /\ lost' = lost + 1
        BY <1>1, <2>1, <2>5 DEF Position
      <3> HIDE DEF d, a, e
      <3>3. txSeq + 1 <= N + d + e + lost'
        BY <3>1, <3>2
      <3> QED
        BY <3>3 DEF d, e
    <2>6. Position(N)'
      BY <1>1, <2>1, <2>4, <2>5 DEF Position
    <2> QED
      BY <1>1, <1>4, <2>6 DEF Playing
  <1> QED
    BY <1>3, <1>4, QueueFacts

(* The sink takes a frame. *)
LEMMA PullPlays ==
    ASSUME MediaTyped, WindowFits, InFlight, Playing, onPull
    PROVE  Playing' /\ (Head(pullQ) # Concealed => Head(pullQ) > pulled)
  <1>1. /\ jb' = jb /\ lost' = lost /\ dups' = dups /\ txSeq' = txSeq /\ flight' = flight
        /\ pullQ # << >> /\ pullQ' = Tail(pullQ)
        /\ pulled' = IF Head(pullQ) = Concealed THEN pulled ELSE Head(pullQ)
    BY DEF onPull, senderVars, networkVars, receiverVars
  <1>2. CASE ~jb.hasNext
    <2>1. Mute(pullQ', pulled') /\ Head(pullQ) = Concealed
      BY <1>1, <1>2, QueueFacts, MuteTail DEF Playing
    <2> QED
      BY <1>1, <1>2, <2>1, QueueFacts DEF Playing
  <1>3. CASE jb.hasNext
    <2>1. PICK N \in Nat \ {0} : Position(N)
      BY <1>3 DEF Playing
    <2>2. Ordered(pullQ', pulled', N) /\ (Head(pullQ) # Concealed => pulled < Head(pullQ))
      BY <1>1, <2>1, QueueFacts, OrderedTail DEF Position
    <2>4. Head(pullQ) \in Nat /\ pulled \in Nat
      BY <1>1, QueueFacts
    <2>3. Position(N)'
      BY <1>1, <2>1, <2>2 DEF Position
    <2> QED
      BY <1>1, <1>3, <2>2, <2>3, <2>4 DEF Playing
  <1> QED
    BY <1>2, <1>3, QueueFacts

(* One turn of recvLoop when the buffer has a position: the packet is late, *)
(* or stored; then the position moves, or the pre-roll goes on.            *)

(* Where the position is, the numbers stay within half a circle. *)
LEMMA Reach ==
    ASSUME MediaTyped, WindowFits, InFlight, NEW N \in Nat, Position(N), NEW n \in flight
    PROVE  txSeq - N < Half /\ N - n <= Half /\ n <= txSeq /\ Cardinality(flight) >= 1
  <1>1. Cardinality(flight) >= 1
    BY FlightFacts, FS_EmptySet
  <1>2. txSeq - N < Half
    <2>1. CASE jb.primed
      BY <2>1, FlightFacts DEF Position, WindowFits
    <2>2. CASE ~jb.primed
      <3> DEFINE d == Cardinality(DOMAIN jb.frames)
                 a == Cardinality(Coming(N, jb, flight))
      <3>1. /\ d \in Nat /\ a \in 0 .. MaxFlight /\ lost \in 0 .. MaxLost /\ txSeq \in Nat
            /\ Half \in Nat /\ TargetFrames \in Nat /\ MaxFlight \in Nat /\ MaxLost \in Nat
        BY FlightFacts, QueueFacts
      <3>2. txSeq + 1 <= N + d + a + lost /\ d < TargetFrames
        BY <2>2 DEF Position
      <3> HIDE DEF d, a
      <3> QED
        BY <3>1, <3>2 DEF WindowFits
    <2> QED
      BY <2>1, <2>2
  <1>3. N - n <= Half
    BY <1>1, FlightFacts DEF Position, WindowFits, InFlight
  <1> QED
    BY <1>1, <1>2, <1>3 DEF InFlight

(* What the turn leaves in the buffer, in terms of what Push left there. *)
LEMMA Turn ==
    ASSUME MediaTyped, WindowFits, InFlight, NEW n \in flight, recvLoop(n),
           NEW b, b = Push(jb, SeqNumber(n), n)
    PROVE  /\ jb' = Pop(b) /\ lost' = lost /\ txSeq' = txSeq
           /\ pullQ' = Enqueue(pullQ, Decoded(PopFrame(b))) /\ pulled' = pulled
           /\ flight' \in {flight, flight \ {n}} /\ dups' \in Nat /\ dups' >= dups
           /\ Cardinality(flight') - dups' = Cardinality(flight) - dups - 1
           /\ IsFiniteSet(flight') /\ Cardinality(flight') \in 0 .. Cardinality(flight)
           /\ GoodBuffer(b) /\ Cardinality(DOMAIN b.frames) \in 0 .. MaxFrames
           /\ n \in Packets /\ n \in Nat \ {0} /\ n <= txSeq
  <1>1. GoodBuffer(b) /\ Cardinality(DOMAIN b.frames) <= MaxFrames
    BY TurnKeepsGood
  <1>2. Cardinality(DOMAIN b.frames) \in Nat
    BY <1>1, FramesFinite DEF GoodBuffer
  <1>3. /\ flight' \in {flight, flight \ {n}} /\ dups' \in Nat /\ dups' >= dups
        /\ Cardinality(flight') - dups' = Cardinality(flight) - dups - 1
        /\ IsFiniteSet(flight') /\ Cardinality(flight') \in 0 .. Cardinality(flight)
    <2>1. IsFiniteSet(flight) /\ Cardinality(flight) \in Nat /\ dups \in Nat
      BY FlightFacts
    <2>2. CASE flight' = flight \ {n} /\ UNCHANGED dups
      <3>1. IsFiniteSet(flight') /\ Cardinality(flight') = Cardinality(flight) - 1
        BY <2>1, <2>2, FS_RemoveElement
      <3>2. Cardinality(flight') \in Nat
        BY <3>1, FS_CardinalityType
      <3> QED
        BY <2>1, <2>2, <3>1, <3>2
    <2>3. CASE dups' = dups + 1 /\ UNCHANGED flight
      BY <2>1, <2>3
    <2> QED
      BY <2>2, <2>3 DEF recvLoop
  <1>4. n \in Packets /\ n \in Nat \ {0} /\ n <= txSeq
    BY FlightFacts DEF InFlight
  <1> QED
    BY <1>1, <1>2, <1>3, <1>4, FramesAssumption DEF recvLoop, senderVars

(* The buffer plays: the position moves by one, or by two when the cap     *)
(* dropped the frame at it.                                                *)
LEMMA PlayingTurn ==
    ASSUME MediaTyped, WindowFits, InFlight, NEW N \in Nat \ {0}, Position(N), jb.primed,
           NEW n \in flight, recvLoop(n)
    PROVE  jb'.hasNext /\ \E M \in Nat \ {0} : Position(M)'
  <1> DEFINE b == Push(jb, SeqNumber(n), n)
             f == Decoded(PopFrame(b))
  <1>1. /\ jb' = Pop(b) /\ lost' = lost /\ txSeq' = txSeq
        /\ pullQ' = Enqueue(pullQ, f) /\ pulled' = pulled
        /\ Cardinality(flight') - dups' = Cardinality(flight) - dups - 1
        /\ Cardinality(flight') \in 0 .. Cardinality(flight) /\ dups' \in Nat /\ dups' >= dups
        /\ GoodBuffer(b) /\ n \in Packets /\ n \in Nat
    BY Turn
  <1>2. PICK k \in {N, N + 1} : Placed(b, k, txSeq) /\ (k # N => N <= txSeq)
    BY <1>1, Reach, FlightFacts, QueueFacts, PushPlaced DEF Position
  <1>3. b.primed
    BY <1>1, Reach, FlightFacts, QueueFacts, PushPlaced DEF Position
  <1> HIDE DEF b
  <1>4. txSeq - k < Half /\ k \in Nat /\ k + 1 \in Nat \ {0} /\ N <= k
    BY <1>2, Reach, FlightFacts
  <1>5. Placed(Pop(b), k + 1, txSeq) /\ Pop(b).primed /\ f \in {Concealed, k}
    BY <1>1, <1>2, <1>3, <1>4, FlightFacts, PopPlaced DEF Prerolling
  <1> HIDE DEF f
  <1>6. Ordered(pullQ', pulled', k + 1)
    <2>1. f \in {Concealed} \cup (N .. ((k + 1) - 1)) /\ N < k + 1
      BY <1>4, <1>5
    <2> QED
      BY <1>1, <1>4, <2>1, QueueFacts, OrderedEnqueue DEF Position
  <1> DEFINE c == Cardinality(flight)
             d == Cardinality(flight')
  <1>11. PICK u \in Nat : u = dups'
    BY <1>1
  <1>10. /\ c \in 0 .. MaxFlight /\ d \in 0 .. c /\ dups \in Nat /\ u >= dups
         /\ d - u = c - dups - 1 /\ N + c <= txSeq + MaxFlight + 1 + dups
         /\ txSeq <= N + c + lost + TargetFrames
         /\ txSeq \in Nat /\ MaxFlight \in Nat /\ lost \in Nat /\ TargetFrames \in Nat
    BY <1>1, <1>11, FlightFacts DEF Position
  <1> HIDE DEF c, d
  <1>7. (k + 1) + d <= txSeq + MaxFlight + 1 + u
    BY <1>2, <1>10
  <1>8. txSeq <= (k + 1) + d + lost + TargetFrames
    BY <1>4, <1>10
  <1>9. Position(k + 1)'
    BY <1>1, <1>5, <1>6, <1>7, <1>8, <1>11 DEF Position, d
  <1> QED
    BY <1>1, <1>4, <1>5, <1>9 DEF Placed

(* The end of a turn that found the buffer in pre-roll, and stored a       *)
(* packet without dropping any.                                            *)
LEMMA PrerollPop ==
    ASSUME MediaTyped, WindowFits, InFlight, NEW n \in flight, recvLoop(n),
           NEW b, b = Push(jb, SeqNumber(n), n), ~b.primed,
           NEW N \in Nat \ {0}, Placed(b, N, txSeq), txSeq - N < Half,
           N + Cardinality(flight') <= txSeq + MaxFlight + dups',
           Cardinality(DOMAIN b.frames) <= TargetFrames \/ Cardinality(DOMAIN b.frames) <= 1,
           txSeq + 1 <= N + Cardinality(DOMAIN b.frames) + Cardinality(Coming(N, b, flight')) + lost,
           Ordered(pullQ, pulled, N)
    PROVE  jb'.hasNext /\ \E M \in Nat \ {0} : Position(M)'
  <1> DEFINE f == Decoded(PopFrame(b))
  <1>1. /\ jb' = Pop(b) /\ lost' = lost /\ txSeq' = txSeq
        /\ pullQ' = Enqueue(pullQ, f) /\ pulled' = pulled
        /\ IsFiniteSet(flight') /\ Cardinality(flight') \in Nat /\ dups' \in Nat
        /\ GoodBuffer(b) /\ Cardinality(DOMAIN b.frames) \in 0 .. MaxFrames
    BY Turn, FlightFacts
  <1>2. b.hasNext
    BY DEF Placed
  <1>3. Cardinality(Coming(N, b, flight')) \in 0 .. Cardinality(flight')
    <2>1. Coming(N, b, flight') \in SUBSET flight'
      BY DEF Coming
    <2>2. /\ IsFiniteSet(Coming(N, b, flight'))
          /\ Cardinality(Coming(N, b, flight')) <= Cardinality(flight')
      BY <1>1, <2>1, FS_Subset
    <2> QED
      BY <1>1, <2>2, FS_CardinalityType
  <1>4. CASE Prerolling(b)
    <2>1. jb' = b /\ f = Concealed
      BY <1>1, <1>4, FlightFacts, PopPlaced
    <2> HIDE DEF f
    <2>2. Ordered(pullQ', pulled', N)
      BY <1>1, <2>1, QueueFacts, OrderedConceal
    <2>3. Cardinality(DOMAIN b.frames) < TargetFrames
      BY <1>4 DEF Prerolling
    <2>4. Position(N)'
      BY <1>1, <2>1, <2>2, <2>3, FlightFacts DEF Position
    <2> QED
      BY <1>2, <2>1, <2>4
  <1>5. CASE ~Prerolling(b)
    <2>1. Placed(Pop(b), N + 1, txSeq) /\ Pop(b).primed /\ f \in {Concealed, N}
      BY <1>1, <1>5, FlightFacts, PopPlaced
    <2> HIDE DEF f
    <2>2. Ordered(pullQ', pulled', N + 1)
      <3>1. f \in {Concealed} \cup (N .. ((N + 1) - 1)) /\ N < N + 1 /\ N + 1 \in Nat
        BY <2>1
      <3> QED
        BY <1>1, <3>1, QueueFacts, OrderedEnqueue
    <2>3. Cardinality(DOMAIN b.frames) <= TargetFrames + 1
      BY <1>1, FlightFacts
    <2>4. Position(N + 1)'
      BY <1>1, <1>3, <2>1, <2>2, <2>3, FlightFacts DEF Position
    <2> QED
      BY <1>1, <2>1, <2>4 DEF Placed
  <1> QED
    BY <1>4, <1>5

(* The turn of a buffer that has a position. *)
LEMMA PositionTurn ==
    ASSUME MediaTyped, WindowFits, TargetFrames <= MaxFrames, InFlight,
           NEW N \in Nat \ {0}, Position(N), NEW n \in flight, recvLoop(n)
    PROVE  jb'.hasNext /\ \E M \in Nat \ {0} : Position(M)'
  <1>1. CASE jb.primed
    BY <1>1, PlayingTurn
  <1>2. CASE ~jb.primed
    <2> DEFINE b == Push(jb, SeqNumber(n), n)
    <2>1. /\ flight' \in {flight, flight \ {n}} /\ n \in Packets /\ n \in Nat /\ n <= txSeq
      BY Turn
    <2>3. /\ Placed(jb, N, txSeq) /\ txSeq - N < Half /\ N - n <= Half
          /\ Ordered(pullQ, pulled, N)
      BY Reach DEF Position
    <2>30. N + Cardinality(flight') <= txSeq + MaxFlight + dups'
      <3> DEFINE c == Cardinality(flight)
                 d == Cardinality(flight')
      <3>0. PICK u \in Nat : u = dups'
        BY Turn
      <3>1. /\ c \in Nat /\ d \in Nat /\ dups \in Nat /\ txSeq \in Nat
            /\ MaxFlight \in Nat /\ d - u = c - dups - 1
            /\ N + c <= txSeq + MaxFlight + 1 + dups
        BY <3>0, Turn, FlightFacts DEF Position
      <3> HIDE DEF c, d
      <3>2. N + d <= txSeq + MaxFlight + u
        BY <3>1
      <3> QED
        BY <3>0, <3>2 DEF d
    <2>20. GoodBuffer(jb) /\ txSeq \in Nat /\ Half \in Nat
      BY FlightFacts, QueueFacts
    <2>4. CASE n < N
      <3>1. b = jb
        <4>1. jb.hasNext /\ jb.nextOut = SeqNumber(N)
          BY <2>3 DEF Placed
        <4>2. seqDelta(SeqNumber(N), SeqNumber(n)) = n - N
          BY <2>1, <2>3, <2>4, <2>20, SeqNumberFacts
        <4>3. IsLate(jb, SeqNumber(n))
          BY <2>1, <2>4, <4>1, <4>2 DEF IsLate
        <4> QED
          BY <4>3 DEF Push
      <3>2. Coming(N, jb, flight') = Coming(N, jb, flight)
        BY <2>1, <2>4, FlightFacts DEF Coming
      <3>3. /\ Cardinality(DOMAIN jb.frames) < TargetFrames
            /\ txSeq + 1 <= N + Cardinality(DOMAIN jb.frames)
                              + Cardinality(Coming(N, jb, flight')) + lost
        BY <1>2, <3>2 DEF Position
      <3>4. Cardinality(DOMAIN jb.frames) <= TargetFrames
        BY <3>3, QueueFacts, FlightFacts
      <3> HIDE DEF b
      <3>5. b = Push(jb, SeqNumber(n), n)
        BY DEF b
      <3> QED
        BY <1>2, <2>3, <2>30, <3>1, <3>3, <3>4, <3>5, PrerollPop
    <2>5. CASE n >= N
      <3> DEFINE D == DOMAIN jb.frames
                 E == D \cup {SeqNumber(n)}
                 A == Coming(N, jb, flight)
                 B == Coming(N, b, flight')
      (* What is stored in the place of n is n. *)
      <3>1. SeqNumber(n) \in D => jb.frames[SeqNumber(n)] = n
        <4>1. SUFFICES ASSUME SeqNumber(n) \in D PROVE jb.frames[SeqNumber(n)] = n
          OBVIOUS
        <4> DEFINE p == jb.frames[SeqNumber(n)]
        <4>2. p \in N .. txSeq /\ SeqNumber(n) = SeqNumber(p)
          BY <2>3, <4>1 DEF Placed
        <4> HIDE DEF p
        <4>3. seqDelta(SeqNumber(N), SeqNumber(p)) = p - N /\ seqDelta(SeqNumber(N), SeqNumber(n)) = n - N
          <5>1. p \in Nat /\ N - p <= Half /\ p - N < Half /\ N - n <= Half /\ n - N < Half
            BY <2>1, <2>3, <2>5, <2>20, <4>2
          <5> QED
            BY <2>1, <5>1, SeqNumberFacts
        <4>4. p = n
          BY <2>1, <2>20, <4>2, <4>3
        <4> QED
          BY <4>4 DEF p
      <3>2. /\ IsFiniteSet(D) /\ Cardinality(D) \in Nat /\ Cardinality(D) < TargetFrames
            /\ IsFiniteSet(A) /\ Cardinality(A) \in Nat
            /\ txSeq + 1 <= N + Cardinality(D) + Cardinality(A) + lost
        <4>1. IsFiniteSet(D)
          BY QueueFacts, FramesFinite DEF GoodBuffer
        <4> QED
          BY <1>2, <4>1, QueueFacts, FlightFacts DEF Position
      <3>3. Cardinality(E) = IF SeqNumber(n) \in D THEN Cardinality(D) ELSE Cardinality(D) + 1
        BY <3>2, FS_AddElement
      <3>4. ~(Cardinality(E) > MaxFrames) /\ Cardinality(E) \in Nat /\ Cardinality(E) <= TargetFrames
        <4>1. TargetFrames \in Nat /\ MaxFrames \in Nat
          BY FramesAssumption
        <4> HIDE DEF D, E
        <4> QED
          BY <3>2, <3>3, <4>1
      <3>5. /\ Placed(b, N, txSeq) /\ b.primed = jb.primed
            /\ DOMAIN b.frames = E
            /\ \A s \in D \ {SeqNumber(n)} : b.frames[s] = jb.frames[s]
            /\ b.frames[SeqNumber(n)] = n
        BY <2>1, <2>3, <2>5, <2>20, <3>4, PushPlaced
      <3>6. b = Push(jb, SeqNumber(n), n)
        OBVIOUS
      <3> HIDE DEF b
      (* Whether another copy of n is to come does not matter any more. *)
      <3>7. /\ SeqNumber(n) \in D => B = A
            /\ SeqNumber(n) \notin D => n \in A /\ B = A \ {n}
        <4>1. \A m : (\A s \in DOMAIN b.frames : b.frames[s] # m)
                       <=> (\A s \in D : jb.frames[s] # m) /\ m # n
          <5>1. CASE SeqNumber(n) \in D
            BY <3>1, <3>5, <5>1
          <5>2. CASE SeqNumber(n) \notin D
            BY <3>5, <5>2
          <5> QED
            BY <5>1, <5>2
        <4>2. B = A \ {n}
          BY <2>1, <4>1 DEF Coming
        <4>3. SeqNumber(n) \in D => n \notin A
          BY <3>1 DEF Coming
        <4>4. SeqNumber(n) \notin D => n \in A
          <5>1. ASSUME NEW s \in D, jb.frames[s] = n PROVE s = SeqNumber(n)
            BY <2>3, <5>1 DEF Placed
          <5> QED
            BY <2>5, <5>1 DEF Coming
        <4> QED
          BY <4>2, <4>3, <4>4
      <3> HIDE DEF D, E, A, B
      <3>8. Cardinality(A \ {n}) = IF n \in A THEN Cardinality(A) - 1 ELSE Cardinality(A)
        BY <3>2, FS_RemoveElement
      <3>9. txSeq + 1 <= N + Cardinality(E) + Cardinality(B) + lost
        <4>1. txSeq \in Nat /\ lost \in Nat
          BY FlightFacts
        <4>2. Cardinality(E) + Cardinality(B) = Cardinality(D) + Cardinality(A)
          <5>1. CASE SeqNumber(n) \in D
            BY <3>2, <3>3, <3>7, <5>1
          <5>2. CASE SeqNumber(n) \notin D
            <6>1. Cardinality(E) = Cardinality(D) + 1 /\ Cardinality(B) = Cardinality(A) - 1
              BY <3>3, <3>7, <3>8, <5>2
            <6> QED
              BY <3>2, <6>1
          <5> QED
            BY <5>1, <5>2
        <4>3. Cardinality(B) \in Int
          <5>1. Cardinality(B) = Cardinality(A) \/ Cardinality(B) = Cardinality(A) - 1
            BY <3>7, <3>8
          <5> QED
            BY <3>2, <5>1
        <4> QED
          BY <3>2, <3>4, <4>1, <4>2, <4>3
      <3>10. txSeq + 1 <= N + Cardinality(DOMAIN b.frames) + Cardinality(Coming(N, b, flight')) + lost
        BY <3>5, <3>9 DEF B
      <3>11. Cardinality(DOMAIN b.frames) <= TargetFrames
        BY <3>4, <3>5
      <3> QED
        BY <1>2, <2>3, <2>30, <3>5, <3>6, <3>10, <3>11, PrerollPop
    <2> QED
      BY <2>1, <2>4, <2>5
  <1> QED
    BY <1>1, <1>2, QueueFacts

(* The first packet of all sets the position. *)
LEMMA FirstTurn ==
    ASSUME MediaTyped, WindowFits, InFlight, Playing, ~jb.hasNext,
           NEW n \in flight, recvLoop(n)
    PROVE  jb'.hasNext /\ \E M \in Nat \ {0} : Position(M)'
  <1> DEFINE b == Push(jb, SeqNumber(n), n)
  <1>1. /\ flight' \in {flight, flight \ {n}}
        /\ Cardinality(flight') - dups' = Cardinality(flight) - dups - 1
        /\ Cardinality(flight') \in Nat /\ dups' \in Nat
        /\ n \in Packets /\ n \in Nat \ {0} /\ n <= txSeq
    BY Turn, FlightFacts
  <1>2. ~jb.primed /\ Mute(pullQ, pulled) /\ txSeq <= Cardinality(flight) + lost
    BY DEF Playing
  <1>3. /\ Placed(b, n, txSeq) /\ DOMAIN b.frames = {SeqNumber(n)}
        /\ b.frames[SeqNumber(n)] = n /\ b.primed = jb.primed
    BY <1>1, FlightFacts, QueueFacts, FirstPush
  <1>4. b = Push(jb, SeqNumber(n), n)
    OBVIOUS
  <1> HIDE DEF b
  <1>5. Cardinality(DOMAIN b.frames) = 1
    BY <1>3, FS_Singleton
  <1>6. Ordered(pullQ, pulled, n)
    BY <1>1, <1>2, MuteIsOrdered
  <1> DEFINE A == {m \in flight : m >= n}
             B == Coming(n, b, flight')
  <1>12. IsFiniteSet(A) /\ Cardinality(A) \in Nat /\ n \in A
    <2>1. IsFiniteSet(A) /\ n \in A
      BY <1>1, FlightFacts, FS_Subset
    <2> QED
      BY <2>1, FS_CardinalityType
  (* Of the packets under way, n - 1 at most are before n. *)
  <1>7. Cardinality(flight) <= Cardinality(A) + (n - 1)
    <2> DEFINE C == flight \ A
    <2>1. C \in SUBSET (1 .. (n - 1))
      <3>1. \A m \in flight : m \in Nat \ {0}
        BY FlightFacts
      <3> QED
        <4>1. SUFFICES ASSUME NEW m \in C PROVE m \in 1 .. (n - 1)
          OBVIOUS
        <4>2. m \in flight /\ ~(m >= n)
          OBVIOUS
        <4> QED
          BY <1>1, <3>1, <4>2
    <2>2. IsFiniteSet(1 .. (n - 1)) /\ Cardinality(1 .. (n - 1)) = n - 1
      <3>1. n \in Nat \ {0}
        BY <1>1
      <3> QED
        BY <3>1, FS_Interval
    <2>3. Cardinality(C) <= n - 1
      BY <2>1, <2>2, FS_Subset
    <2>5. flight \cap A = A
      OBVIOUS
    <2> HIDE DEF A
    <2>4. Cardinality(C) = Cardinality(flight) - Cardinality(flight \cap A)
      BY FlightFacts, FS_Difference
    <2>6. Cardinality(flight) \in Nat
      BY FlightFacts
    <2>7. n \in Nat /\ Cardinality(A) \in Nat
      BY <1>1, <1>12
    <2> HIDE DEF C
    <2> QED
      BY <2>3, <2>4, <2>5, <2>6, <2>7
  <1>8. Cardinality(B) = Cardinality(A) - 1
    <2>1. \A m : (\A s \in DOMAIN b.frames : b.frames[s] # m) <=> m # n
      BY <1>3
    <2>2. B = A \ {n}
      BY <1>1, <2>1 DEF Coming
    <2> HIDE DEF A, B
    <2> QED
      BY <1>12, <2>2, FS_RemoveElement
  <1> HIDE DEF A
  <1>9. /\ txSeq + 1 <= n + Cardinality(DOMAIN b.frames) + Cardinality(B) + lost
        /\ txSeq - n < Half
        /\ n + Cardinality(flight') <= txSeq + MaxFlight + dups'
    <2> DEFINE a == Cardinality(A)
               c == Cardinality(flight)
               e == Cardinality(flight')
    <2>0. PICK u \in Nat : u = dups'
      BY <1>1
    <2>1. /\ a \in Nat /\ c \in 0 .. MaxFlight /\ lost \in 0 .. MaxLost /\ txSeq \in Nat
          /\ MaxFlight \in Nat /\ MaxLost \in Nat /\ Half \in Nat /\ TargetFrames \in Nat
          /\ dups \in Nat /\ e \in Nat /\ n \in Nat /\ n <= txSeq
      BY <1>1, <1>12, FlightFacts
    <2>2. /\ txSeq <= c + lost /\ c <= a + (n - 1) /\ Cardinality(B) = a - 1
          /\ e - u = c - dups - 1
      BY <1>1, <1>2, <1>7, <1>8, <2>0
    <2> HIDE DEF a, c, e, B
    <2>3. n + e <= txSeq + MaxFlight + u
      BY <2>1, <2>2
    <2>4. /\ txSeq + 1 <= n + 1 + (a - 1) + lost
          /\ txSeq - n < Half
      BY <2>1, <2>2 DEF WindowFits
    <2> QED
      BY <1>5, <2>0, <2>2, <2>3, <2>4 DEF e
  <1>11. Cardinality(DOMAIN b.frames) <= 1 /\ ~b.primed
    BY <1>2, <1>3, <1>5
  <1> QED
    BY <1>1, <1>3, <1>4, <1>6, <1>9, <1>11, PrerollPop

(* The steps that touch neither the buffer nor what is played. *)
LEMMA OtherPlays ==
    ASSUME Playing, UNCHANGED <<jb, txSeq, flight, lost, dups, pullQ, pulled>>
    PROVE  Playing'
  <1>1. \A N \in Nat \ {0} : Position(N) => Position(N)'
    BY DEF Position
  <1> QED
    BY <1>1 DEF Playing

(* Every step, as one that the lemmas above are about. *)
LEMMA MediaSteps ==
    ASSUME [MediaNext]_mediaVars
    PROVE  \/ onCapture \/ onPull
           \/ \E n \in flight : Lose(n) \/ recvLoop(n)
           \/ UNCHANGED <<jb, txSeq, flight, lost, dups, pullQ, pulled>>
  BY DEF MediaNext, readControl, SetMuted, SendControl, mediaVars, senderVars,
         networkVars, playVars, receiverVars

(* Every step keeps the buffer's position and the order of playout, and    *)
(* plays nothing older.                                                    *)
LEMMA PlayingStep ==
    ASSUME MediaTyped, WindowFits, TargetFrames <= MaxFrames, InFlight, Playing,
           [MediaNext]_mediaVars
    PROVE  Playing' /\ (onPull /\ Head(pullQ) # Concealed => Head(pullQ) > pulled)
  <1>1. ASSUME NEW n \in flight, recvLoop(n) PROVE Playing'
    <2>1. jb'.hasNext /\ \E M \in Nat \ {0} : Position(M)'
      <3>1. CASE jb.hasNext
        BY <1>1, <3>1, PositionTurn DEF Playing
      <3>2. CASE ~jb.hasNext
        BY <1>1, <3>2, FirstTurn
      <3> QED
        BY <3>1, <3>2, QueueFacts
    <2> QED
      BY <2>1 DEF Playing
  <1>2. Playing'
    BY <1>1, MediaSteps, CapturePlays, LosePlays, PullPlays, OtherPlays
  <1> QED
    BY <1>2, PullPlays

(* Push leaves primed alone. *)
LEMMA PushPrimed ==
    ASSUME NEW b, GoodBuffer(b), NEW n \in Packets, n \in Nat
    PROVE  Push(b, SeqNumber(n), n).primed = b.primed
  <1>1. CASE IsLate(b, SeqNumber(n))
    BY <1>1 DEF Push
  <1>2. CASE ~IsLate(b, SeqNumber(n))
    <2>1. CASE b.hasNext
      BY <1>2, <2>1, SeqNumberFacts, PushForms
    <2>2. CASE ~b.hasNext
      BY <2>2, FirstPush
    <2> QED
      BY <2>1, <2>2 DEF GoodBuffer
  <1> QED
    BY <1>1, <1>2

(* Without an end of the pre-roll nothing is played. *)
LEMMA NeverPrimedStep ==
    ASSUME MediaTyped, ~(TargetFrames <= MaxFrames), NeverPrimed,
           [MediaNext]_mediaVars
    PROVE  NeverPrimed' /\ (onPull => Head(pullQ) = Concealed)
  <1>1. pullQ \in Seq(Nat) /\ Len(pullQ) <= PullCap /\ pulled \in Nat
    BY QueueFacts
  <1>2. ASSUME onPull PROVE NeverPrimed' /\ Head(pullQ) = Concealed
    <2>1. /\ jb' = jb /\ pullQ # << >> /\ pullQ' = Tail(pullQ)
          /\ pulled' = IF Head(pullQ) = Concealed THEN pulled ELSE Head(pullQ)
      BY <1>2 DEF onPull, receiverVars
    <2> QED
      BY <1>1, <2>1, MuteTail DEF NeverPrimed
  <1>3. ASSUME NEW n \in flight, recvLoop(n) PROVE NeverPrimed'
    <2> DEFINE b == Push(jb, SeqNumber(n), n)
    <2>1. /\ n \in Packets /\ n \in Nat /\ GoodBuffer(jb)
          /\ GoodBuffer(b) /\ Cardinality(DOMAIN b.frames) <= MaxFrames
      BY <1>3, TurnKeepsGood
    <2>2. ~b.primed
      BY <2>1, PushPrimed DEF NeverPrimed
    <2>3. /\ jb' = Pop(b) /\ pullQ' = Enqueue(pullQ, Decoded(PopFrame(b))) /\ pulled' = pulled
      BY <1>3 DEF recvLoop
    <2> HIDE DEF b
    <2>4. Cardinality(DOMAIN b.frames) \in Nat
      BY <2>1, FramesFinite DEF GoodBuffer
    <2>5. Prerolling(b)
      BY <2>1, <2>2, <2>4, FramesAssumption DEF Prerolling
    <2>6. Pop(b) = b /\ Decoded(PopFrame(b)) = Concealed
      BY <2>5 DEF Pop, PopFrame, Decoded
    <2> QED
      BY <1>1, <2>2, <2>3, <2>6, MuteEnqueue DEF NeverPrimed
  <1>4. ASSUME UNCHANGED <<jb, pullQ, pulled>> PROVE NeverPrimed'
    BY <1>4 DEF NeverPrimed
  <1>5. \/ onPull \/ \E n \in flight : recvLoop(n)
        \/ UNCHANGED <<jb, pullQ, pulled>>
    BY MediaSteps DEF onCapture, Lose, playVars, receiverVars
  <1> QED
    BY <1>2, <1>3, <1>4, <1>5

(* At the start nothing is under way. *)
LEMMA MediaStart ==
    ASSUME MediaInit
    PROVE  MediaTyped /\ InFlight /\ Playing /\ NeverPrimed
  <1>1. IInv
    BY InitGood DEF MediaInit
  <1>2. jb = NewJitterBuffer
    BY DEF MediaInit, Init
  <1>3. ~jb.hasNext /\ ~jb.primed
    BY <1>2 DEF NewJitterBuffer
  <1>4. Len(pullQ) = 0 /\ pulled = 0
    BY DEF MediaInit
  <1>5. Mute(pullQ, pulled)
    BY <1>4 DEF Mute
  <1>6. txSeq <= Cardinality(flight) + lost
    BY FS_EmptySet DEF MediaInit
  <1>7. MediaTypeOK
    <2>1. /\ pullQ \in Seq(Packets \cup {Concealed}) /\ wire \in Seq(BOOLEAN)
          /\ control \in Seq(BOOLEAN)
      BY DEF MediaInit
    <2>2. Len(pullQ) <= PullCap /\ pulled \in 0 .. MaxPackets /\ txSeq \in 0 .. MaxPackets
      BY <1>4, MediaAssumption DEF MediaInit
    <2>3. toggles \in 0 .. MaxToggles /\ lost \in 0 .. MaxLost /\ dups \in 0 .. MaxDups
      BY MediaAssumption DEF MediaInit
    <2>4. /\ muted \in BOOLEAN /\ peerMuted \in BOOLEAN /\ flight \subseteq Packets
          /\ notices \subseteq [request : 1 .. MaxToggles, value : BOOLEAN]
      BY DEF MediaInit
    <2> QED
      BY <1>1, <2>1, <2>2, <2>3, <2>4 DEF MediaTypeOK, IInv
  <1> QED
    BY <1>1, <1>3, <1>5, <1>6, <1>7 DEF MediaTyped, InFlight, Playing, NeverPrimed, MediaInit

(* The types of the whole path, and the buffer's guarantees inside it.     *)
THEOREM MediaTypes == MediaSpec => [](MediaTypeOK /\ InWindow /\ Capacity)
  <1>1. MediaInit => MediaTyped
    BY MediaStart
  <1>2. MediaTyped => MediaTypeOK /\ InWindow /\ Capacity
    BY DEF MediaTyped, IInv
  <1> QED
    BY <1>1, <1>2, MediaTypeStep, PTL DEF MediaSpec

(* One turn of recvLoop, Push and Pop together: a frame that leaves was    *)
(* the oldest, whether it was evicted or played, also when the eviction    *)
(* has moved the position before Pop.                                      *)
LEMMA TurnLeavesOldest ==
    ASSUME NEW b, GoodBuffer(b), Cardinality(DOMAIN b.frames) <= MaxFrames,
           NEW seq \in SeqSpace, NEW pkt \in Packets, NEW P, P = Push(b, seq, pkt),
           NEW s \in DOMAIN b.frames \ DOMAIN Pop(P).frames, NEW t \in DOMAIN Pop(P).frames
    PROVE  seqDelta(b.nextOut, s) <= seqDelta(b.nextOut, t)
  <1>1. /\ GoodBuffer(P) /\ Cardinality(DOMAIN P.frames) <= MaxFrames
        /\ s \notin DOMAIN P.frames => \A u \in DOMAIN P.frames :
              seqDelta(b.nextOut, s) <= seqDelta(b.nextOut, u)
    BY PushKeepsGood
  <1>2. (s \in DOMAIN P.frames => s = P.nextOut) /\ t \in DOMAIN P.frames
    BY <1>1, PopKeepsGood
  <1>3. CASE s \notin DOMAIN P.frames
    BY <1>1, <1>2, <1>3
  <1>4. CASE s \in DOMAIN P.frames
    <2>1. /\ b.hasNext /\ b.nextOut \in SeqSpace /\ s \in SeqSpace /\ t \in SeqSpace
          /\ \A u \in DOMAIN b.frames : seqDelta(b.nextOut, u) >= 0
      BY <1>1, <1>2 DEF GoodBuffer
    <2>2. seqDelta(b.nextOut, t) \in Int /\ seqDelta(b.nextOut, seq) \in Int
      <3>1. /\ seqDelta(b.nextOut, t) \in -Half .. (Half - 1)
            /\ seqDelta(b.nextOut, seq) \in -Half .. (Half - 1)
        BY <2>1, DeltaFacts
      <3> QED
        BY <3>1, HalfAssumption
    <2>3. CASE IsLate(b, seq)
      <3>1. P = b
        BY <2>3 DEF Push
      <3>2. seqDelta(b.nextOut, s) = 0
        <4>1. s = b.nextOut
          BY <1>2, <1>4, <3>1
        <4> QED
          BY <2>1, <4>1, DeltaFacts
      <3> QED
        BY <1>2, <2>1, <3>1, <3>2
    <2>4. CASE ~IsLate(b, seq)
      <3>1. PICK f : f = Store(b.frames, seq, pkt)
        OBVIOUS
      <3>2. /\ ~(Cardinality(DOMAIN f) > MaxFrames) => P.frames = f /\ P.nextOut = b.nextOut
            /\ Cardinality(DOMAIN f) > MaxFrames =>
                 \E o : /\ P.frames = Delete(f, o)
                        /\ P.nextOut = IF o = b.nextOut THEN Inc(b.nextOut) ELSE b.nextOut
        BY <2>1, <2>4, <3>1, PushForms
      <3>3. DOMAIN f = DOMAIN b.frames \cup {seq}
        BY <3>1 DEF Store
      <3>4. /\ DOMAIN P.frames \subseteq DOMAIN f
            /\ \/ P.nextOut = b.nextOut
               \/ P.nextOut = Inc(b.nextOut) /\ b.nextOut \notin DOMAIN P.frames
        BY <3>2 DEF Delete
      <3>5. seqDelta(b.nextOut, t) >= 0
        <4>1. seqDelta(b.nextOut, seq) >= 0
          <5>1. ~(seqDelta(b.nextOut, seq) < 0)
            BY <2>1, <2>4 DEF IsLate
          <5> QED
            BY <2>2, <5>1
        <4> QED
          BY <1>2, <2>1, <3>3, <3>4, <4>1
      <3>6. CASE P.nextOut = b.nextOut
        <4>1. seqDelta(b.nextOut, s) = 0
          <5>1. s = b.nextOut
            BY <1>2, <1>4, <3>6
          <5> QED
            BY <2>1, <5>1, DeltaFacts
        <4> QED
          BY <2>2, <3>5, <4>1
      <3>7. CASE P.nextOut = Inc(b.nextOut) /\ b.nextOut \notin DOMAIN P.frames
        <4>1. seqDelta(b.nextOut, Inc(b.nextOut)) = 1
          BY <2>1, HalfAssumption DEF seqDelta, Inc, SeqSpace
        <4>2. t # b.nextOut
          BY <1>2, <3>7
        <4>3. seqDelta(b.nextOut, t) # 0
          BY <2>1, <4>2, DeltaFacts
        <4> QED
          BY <1>2, <1>4, <2>2, <3>5, <3>7, <4>1, <4>3
      <3> QED
        BY <3>4, <3>6, <3>7
    <2> QED
      BY <2>3, <2>4
  <1> QED
    BY <1>3, <1>4

(* Inside the path as well a frame only leaves the buffer as the oldest    *)
(* one in it, for every circle, cap and target and whatever the path does. *)
THEOREM PathLeavesOldestFirst == MediaSpec => LeavesOldestFirst
  <1> DEFINE A == \A s \in DOMAIN jb.frames \ DOMAIN jb'.frames :
                    \A t \in DOMAIN jb'.frames :
                       seqDelta(jb.nextOut, s) <= seqDelta(jb.nextOut, t)
  <1>1. MediaTyped /\ [MediaNext]_mediaVars => [A]_jb
    <2> SUFFICES ASSUME MediaTyped, [MediaNext]_mediaVars, jb' # jb PROVE A
      OBVIOUS
    <2>1. PICK n \in flight : recvLoop(n)
      BY MediaSteps DEF onCapture, onPull, Lose, playVars, receiverVars
    <2>2. PICK P : P = Push(jb, SeqNumber(n), n)
      OBVIOUS
    <2>3. jb' = Pop(P)
      BY <2>1, <2>2 DEF recvLoop
    <2>4. /\ n \in Packets /\ SeqNumber(n) \in SeqSpace
          /\ GoodBuffer(jb) /\ Cardinality(DOMAIN jb.frames) <= MaxFrames
      BY <2>1, TurnKeepsGood, SeqNumberFacts
    <2> QED
      BY <2>2, <2>3, <2>4, TurnLeavesOldest
  <1>2. MediaInit => MediaTyped
    BY MediaStart
  <1>3. MediaSpec => [][A]_jb
    BY <1>1, <1>2, MediaTypeStep, PTL DEF MediaSpec
  <1> QED
    BY <1>3 DEF LeavesOldestFirst

(* Every packet that is played is later than all that were played before,  *)
(* whatever is reordered, duplicated, lost or evicted and wherever the     *)
(* sequence numbers wrap around, provided the packets under way, their     *)
(* copies, those lost and the pre-roll stay within half the sequence       *)
(* space: then the signed distance of seqDelta is the true one.            *)
THEOREM PlayedInOrder == ASSUME WindowFits PROVE MediaSpec => PlayoutInOrder
  <1> DEFINE I == /\ MediaTyped /\ InFlight
                  /\ TargetFrames <= MaxFrames => Playing
                  /\ ~(TargetFrames <= MaxFrames) => NeverPrimed
             A == onPull /\ Head(pullQ) # Concealed => Head(pullQ) > pulled
  <1>1. MediaInit => I
    BY MediaStart
  <1>2. I /\ [MediaNext]_mediaVars => I' /\ A
    <2> SUFFICES ASSUME I, [MediaNext]_mediaVars PROVE I' /\ A
      OBVIOUS
    <2>1. MediaTyped' /\ InFlight'
      BY MediaTypeStep, InFlightStep
    <2>2. CASE TargetFrames <= MaxFrames
      BY <2>1, <2>2, PlayingStep
    <2>3. CASE ~(TargetFrames <= MaxFrames)
      BY <2>1, <2>3, NeverPrimedStep
    <2> QED
      BY <2>2, <2>3
  <1>3. I /\ [MediaNext]_mediaVars => I' /\ [A]_mediaVars
    BY <1>2
  <1>4. MediaSpec => [][A]_mediaVars
    <2> HIDE DEF I, A
    <2> QED
      BY <1>1, <1>3, PTL DEF MediaSpec
  <1> QED
    BY <1>4 DEF PlayoutInOrder
-----------------------------------------------------------------------------
(* The sessions of the audio manager. *)

(* A call becomes connected once: its event is in the channel at most      *)
(* once, and not at all as soon as the loop has begun with it.             *)
Connects(c) == [call |-> c, state |-> "connected"]
Waiting(c) == \E i \in 1 .. Len(events) : events[i] = Connects(c)
Begun(c) ==
    \/ c \in open \cup sessions \cup closing
    \/ loop \in {"create", "insert", "close"} /\ current = c
ConnectedOnce ==
    \A c \in CallIDs :
        /\ Waiting(c) \/ Begun(c) => "connected" \in told[c]
        /\ Begun(c) => ~Waiting(c)
        /\ \A i, j \in 1 .. Len(events) :
              events[i] = Connects(c) /\ events[j] = Connects(c) => i = j

(* The session in the loop's hands is open and nowhere else. *)
Held ==
    /\ loop \in {"create", "insert", "close"} => current \in CallIDs \ (sessions \cup closing)
    /\ open = IF loop \in {"insert", "close"} THEN sessions \cup closing \cup {current}
              ELSE sessions \cup closing
    /\ sessions \cap closing = {}
    /\ stop # "closing" => closing = {}

Working == loop \in {"create", "insert", "close"} => current \in CallIDs
AudioTyped == ManagerTypeOK /\ Working

(* Every step keeps the types; a session being opened or closed is a       *)
(* call's.                                                                 *)
LEMMA AudioTypeStep ==
    ASSUME ChanCap \in Nat \ {0}
    PROVE  AudioTyped /\ [ManagerNext]_managerVars => AudioTyped'
  <1> SUFFICES ASSUME AudioTyped, [ManagerNext]_managerVars PROVE AudioTyped'
    OBVIOUS
  <1> USE DEF AudioTyped, Working, ManagerTypeOK, callVars, loopVars, stopVars
  <1>1. ASSUME NEW c \in CallIDs, NEW k \in Kinds, fanout(c, k) PROVE AudioTyped'
    <2>1. [call |-> c, state |-> k] \in Events
      BY DEF Events
    <2>2. events' \in Seq(Events) /\ Len(events') <= ChanCap
      BY <1>1, <2>1 DEF fanout
    <2> QED
      BY <1>1, <2>2 DEF fanout
  <1>2. CASE StartEvent
    <2>1. /\ Head(events) \in Events /\ Tail(events) \in Seq(Events)
          /\ Len(Tail(events)) = Len(events) - 1 /\ Len(events) \in Nat
      BY <1>2 DEF StartEvent
    <2>2. Head(events).call \in CallIDs
      BY <2>1 DEF Events
    <2> QED
      BY <1>2, <2>1, <2>2 DEF StartEvent
  <1>3. CASE Start \/ startSessionInsert \/ stopSessionClose
    BY <1>3 DEF Start, startSessionInsert, stopSessionClose
  <1>4. CASE startSessionCreate
    BY <1>4 DEF startSessionCreate
  <1>5. CASE StartExits
    BY <1>5 DEF StartExits
  <1>6. CASE Stop \/ StopClose
    BY <1>6 DEF Stop, StopClose
  <1>7. CASE UNCHANGED managerVars
    BY <1>7 DEF managerVars
  <1> QED
    BY <1>1, <1>2, <1>3, <1>4, <1>5, <1>6, <1>7 DEF ManagerNext, LoopStep

(* The head of the channel goes, the others move up. *)
LEMMA TakenEvent ==
    ASSUME AudioTyped, StartEvent
    PROVE  /\ Len(events) \in Nat \ {0} /\ Len(events') = Len(events) - 1
           /\ \A i \in 1 .. Len(events') : i + 1 \in 1 .. Len(events) /\ events'[i] = events[i + 1]
           /\ Head(events) = events[1] /\ events[1] \in Events
           /\ events[1] = [call |-> events[1].call, state |-> events[1].state]
  <1>1. events \in Seq(Events) /\ events # << >> /\ events' = Tail(events)
    BY DEF AudioTyped, ManagerTypeOK, StartEvent
  <1>2. Len(events) \in Nat \ {0} /\ events[1] \in Events /\ Head(events) = events[1]
    BY <1>1
  <1>3. events[1] = [call |-> events[1].call, state |-> events[1].state]
    BY <1>2 DEF Events
  <1>4. Len(events') = Len(events) - 1
    BY <1>1
  <1>5. \A i \in 1 .. Len(events') : i + 1 \in 1 .. Len(events) /\ events'[i] = events[i + 1]
    BY <1>1, <1>2, <1>4
  <1> QED
    BY <1>2, <1>3, <1>4, <1>5

(* A session changes hands between the loop, the map and Stop, and is      *)
(* closed by whoever has it.                                               *)
LEMMA HeldStep ==
    AudioTyped /\ ConnectedOnce /\ Held /\ [ManagerNext]_managerVars => Held'
  <1> SUFFICES ASSUME AudioTyped, ConnectedOnce, Held, [ManagerNext]_managerVars PROVE Held'
    OBVIOUS
  <1> USE DEF Held, AudioTyped, Working, ManagerTypeOK, callVars, loopVars, stopVars
  <1>1. ASSUME NEW c \in CallIDs, NEW k \in Kinds, fanout(c, k) PROVE Held'
    BY <1>1 DEF fanout
  <1>2. CASE StartEvent
    <2> DEFINE c == events[1].call
    <2>1. c \in CallIDs /\ (events[1].state = "connected" => Waiting(c))
      BY <1>2, TakenEvent DEF Events, Waiting, Connects
    <2>2. events[1].state = "connected" => c \notin open \cup sessions \cup closing
      BY <2>1 DEF ConnectedOnce, Begun
    <2> QED
      BY <1>2, <2>1, <2>2, TakenEvent DEF StartEvent
  <1>3. CASE Start \/ startSessionInsert \/ stopSessionClose
    BY <1>3 DEF Start, startSessionInsert, stopSessionClose
  <1>4. CASE startSessionCreate
    BY <1>4 DEF startSessionCreate
  <1>5. CASE StartExits
    BY <1>5 DEF StartExits
  <1>6. CASE Stop
    BY <1>6 DEF Stop
  <1>7. CASE StopClose
    BY <1>7 DEF StopClose
  <1>8. CASE UNCHANGED managerVars
    BY <1>8 DEF managerVars
  <1> QED
    BY <1>1, <1>2, <1>3, <1>4, <1>5, <1>6, <1>7, <1>8 DEF ManagerNext, LoopStep

(* Every step but fanout and StartEvent leaves the channel or empties it,  *)
(* and begins with no call.                                                *)
LEMMA QuietStep ==
    ASSUME AudioTyped, ConnectedOnce, Held, UNCHANGED told,
           UNCHANGED events \/ events' = << >>,
           \A c \in CallIDs : Begun(c)' => Begun(c)
    PROVE  ConnectedOnce'
  <1>1. CASE UNCHANGED events
    BY <1>1 DEF ConnectedOnce, Waiting, Connects
  <1>2. CASE events' = << >>
    <2>1. ~\E i \in 1 .. Len(events') : TRUE
      BY <1>2
    <2> QED
      BY <2>1 DEF ConnectedOnce, Waiting
  <1> QED
    BY <1>1, <1>2

(* The connected event of a call is put into the channel once and taken    *)
(* once.                                                                   *)
LEMMA ConnectedStep ==
    AudioTyped /\ ConnectedOnce /\ Held /\ [ManagerNext]_managerVars => ConnectedOnce'
  <1> SUFFICES ASSUME AudioTyped, ConnectedOnce, Held, [ManagerNext]_managerVars PROVE ConnectedOnce'
    OBVIOUS
  <1> USE DEF callVars, loopVars, stopVars
  <1>1. ASSUME NEW c \in CallIDs, NEW k \in Kinds, fanout(c, k) PROVE ConnectedOnce'
    <2> SUFFICES ASSUME NEW d \in CallIDs
                 PROVE  /\ Waiting(d)' \/ Begun(d)' => "connected" \in told'[d]
                        /\ Begun(d)' => ~Waiting(d)'
                        /\ \A i, j \in 1 .. Len(events') :
                             events'[i] = Connects(d) /\ events'[j] = Connects(d) => i = j
      BY DEF ConnectedOnce, Connects
    <2>1. Begun(d)' <=> Begun(d)
      BY <1>1 DEF fanout, Begun
    <2>2. told[d] \subseteq told'[d] /\ (k = "connected" => "connected" \notin told[c]
                                         /\ "connected" \in told'[c])
      BY <1>1 DEF fanout, AudioTyped, ManagerTypeOK
    <2>3. CASE UNCHANGED events
      BY <2>1, <2>2, <2>3 DEF ConnectedOnce, Waiting, Connects
    <2>4. CASE events' = Append(events, [call |-> c, state |-> k])
      <3> DEFINE n == Len(events)
      <3>1. /\ n \in Nat /\ Len(events') = n + 1
            /\ \A i \in 1 .. n : events'[i] = events[i]
            /\ events'[n + 1] = [call |-> c, state |-> k]
        BY <2>4 DEF AudioTyped, ManagerTypeOK, Events
      <3>2. events'[n + 1] = Connects(d) <=> c = d /\ k = "connected"
        BY <3>1 DEF Connects
      <3>3. Waiting(d)' <=> Waiting(d) \/ (c = d /\ k = "connected")
        BY <3>1, <3>2 DEF Waiting, Connects
      <3>4. c = d /\ k = "connected" => ~Waiting(d) /\ ~Begun(d)
        BY <2>2 DEF ConnectedOnce
      <3>5. \A i, j \in 1 .. Len(events') :
               events'[i] = Connects(d) /\ events'[j] = Connects(d) => i = j
        BY <3>1, <3>2, <3>4 DEF ConnectedOnce, Waiting
      <3> QED
        BY <2>1, <2>2, <3>3, <3>4, <3>5 DEF ConnectedOnce
    <2> QED
      BY <1>1, <2>3, <2>4 DEF fanout
  <1>2. CASE StartEvent
    <2> SUFFICES ASSUME NEW d \in CallIDs
                 PROVE  /\ Waiting(d)' \/ Begun(d)' => "connected" \in told'[d]
                        /\ Begun(d)' => ~Waiting(d)'
                        /\ \A i, j \in 1 .. Len(events') :
                             events'[i] = Connects(d) /\ events'[j] = Connects(d) => i = j
      BY DEF ConnectedOnce, Connects
    <2>1. Waiting(d)' => Waiting(d) /\ events[1] # Connects(d)
      BY TakenEvent, <1>2 DEF Waiting, Connects, ConnectedOnce
    <2>2. Begun(d)' => Begun(d) \/ events[1] = Connects(d)
      BY TakenEvent, <1>2 DEF StartEvent, Begun, Connects, Held
    <2>3. events[1] = Connects(d) => Waiting(d)
      BY TakenEvent, <1>2 DEF Waiting
    <2>4. told' = told
      BY <1>2 DEF StartEvent
    <2>5. \A i, j \in 1 .. Len(events') :
               events'[i] = Connects(d) /\ events'[j] = Connects(d) => i = j
      BY TakenEvent, <1>2 DEF ConnectedOnce
    <2> QED
      BY <2>1, <2>2, <2>3, <2>4, <2>5 DEF ConnectedOnce
  <1>3. CASE Start \/ startSessionInsert \/ stopSessionClose
    BY <1>3, QuietStep DEF Start, startSessionInsert, stopSessionClose, Begun
  <1>4. CASE startSessionCreate
    BY <1>4, QuietStep DEF startSessionCreate, Begun
  <1>5. CASE StartExits
    BY <1>5, QuietStep DEF StartExits, Begun
  <1>6. CASE Stop
    BY <1>6, QuietStep DEF Stop, Begun
  <1>7. CASE StopClose
    BY <1>7, QuietStep DEF StopClose, Begun
  <1>8. CASE UNCHANGED managerVars
    BY <1>8, QuietStep DEF managerVars, Begun
  <1> QED
    BY <1>1, <1>2, <1>3, <1>4, <1>5, <1>6, <1>7, <1>8 DEF ManagerNext, LoopStep

(* The daemon starts without sessions and with an empty channel. *)
LEMMA AudioInit ==
    ASSUME ChanCap \in Nat \ {0}
    PROVE  ManagerInit => AudioTyped /\ ConnectedOnce /\ Held
  <1> SUFFICES ASSUME ManagerInit PROVE AudioTyped /\ ConnectedOnce /\ Held
    OBVIOUS
  <1>1. AudioTyped
    <2>1. events \in Seq(Events) /\ Len(events) <= ChanCap
      BY DEF ManagerInit
    <2> QED
      BY <2>1 DEF ManagerInit, AudioTyped, Working, ManagerTypeOK
  <1>2. ~\E i \in 1 .. Len(events) : TRUE
    <2>1. events = << >>
      BY DEF ManagerInit
    <2> QED
      BY <2>1
  <1>3. \A c \in CallIDs : ~Begun(c)
    BY DEF ManagerInit, Begun
  <1>4. Held
    BY DEF ManagerInit, Held
  <1> QED
    BY <1>1, <1>2, <1>3, <1>4 DEF ConnectedOnce, Waiting

(* Every audio session that was opened is in the map, with Stop, or in the *)
(* hands of the loop, for any number of calls and any order of events.     *)
THEOREM OpenStaysReachable == ManagerSpec => [](ManagerTypeOK /\ OpenIsReachable)
  <1> ChanCap \in Nat \ {0}
    BY ChanAssumption
  <1>1. AudioTyped /\ Held => ManagerTypeOK /\ OpenIsReachable
    BY DEF AudioTyped, Held, OpenIsReachable
  <1> QED
    BY <1>1, AudioInit, AudioTypeStep, HeldStep, ConnectedStep, PTL DEF ManagerSpec
-----------------------------------------------------------------------------
(* The frames on the two paths of a transport. *)

(* Head and Tail of a queue. *)
LEMMA Taken ==
    ASSUME NEW S, NEW s \in Seq(S), s # << >>
    PROVE  /\ Len(s) \in Nat \ {0} /\ Head(s) = s[1] /\ Head(s) \in S
           /\ Tail(s) \in Seq(S) /\ Len(Tail(s)) = Len(s) - 1
           /\ \A i \in 1 .. Len(Tail(s)) : Tail(s)[i] = s[i + 1]
  BY HeadTailProperties, EmptySeq

(* Append to a queue. *)
LEMMA Put ==
    ASSUME NEW S, NEW s \in Seq(S), NEW e \in S
    PROVE  /\ Len(s) \in Nat /\ Append(s, e) \in Seq(S) /\ Len(Append(s, e)) = Len(s) + 1
           /\ Append(s, e)[Len(s) + 1] = e
           /\ \A i \in 1 .. Len(s) : Append(s, e)[i] = s[i]
  BY AppendProperties

(* Every step keeps the types. *)
LEMMA TransportTypeStep ==
    ASSUME TransportConstants
    PROVE  TransportTypeOK /\ [TransportNext]_transportVars => TransportTypeOK'
  <1> SUFFICES ASSUME TransportTypeOK, [TransportNext]_transportVars PROVE TransportTypeOK'
    OBVIOUS
  <1>0. /\ MaxMedia \in Nat /\ MaxConns \in Nat /\ SendCap \in Nat \ {0}
        /\ RecvCap \in Nat \ {0} /\ InboundCap \in Nat \ {0}
    BY DEF TransportConstants
  <1> USE DEF TransportTypeOK, sendVars, streamVars, directVars, attachVars, recvVars
  <1>1. ASSUME NEW c \in Calls, NewSender(c) PROVE TransportTypeOK'
    <2>1. /\ stream' \in [Calls -> [state : {"unopened", "open", "closed", "reset"},
                                    conn : 0 .. MaxConns]]
          /\ transport' \in [Ends -> [Calls -> {"none", "open", "closed"}]]
      BY <1>0, <1>1 DEF NewSender, NoConn, Ends
    <2>2. <<"sender", c>> \in Ends \X Calls
      BY DEF Ends
    <2>3. watching' \subseteq Ends \X Calls
      BY <1>1, <2>2, Zenon DEF NewSender
    <2> QED
      BY <1>1, <2>1, <2>3 DEF NewSender
  <1>2. ASSUME NEW c \in Calls, NewReceiver(c) PROVE TransportTypeOK'
    <2>1. reader' \in [Calls -> [state : {"none", "waiting", "exited"}]
                                        \cup [state : {"reading", "exited"}, of : Calls]]
      BY <1>2 DEF NewReceiver
    <2>2. transport' \in [Ends -> [Calls -> {"none", "open", "closed"}]]
      BY <1>2 DEF NewReceiver, Ends
    <2>3. <<"receiver", c>> \in Ends \X Calls
      BY DEF Ends
    <2>4. watching' \subseteq Ends \X Calls
      BY <1>2, <2>3, Zenon DEF NewReceiver
    <2> QED
      BY <1>2, <2>1, <2>2, <2>4 DEF NewReceiver
  <1>3. ASSUME NEW c \in Calls, registerProto(c) PROVE TransportTypeOK'
    <2>1. /\ Append(inbound, c) \in Seq(Calls)
          /\ Len(Append(inbound, c)) = Len(inbound) + 1 /\ Len(inbound) \in Nat
      OBVIOUS
    <2>2. inbound' \in Seq(Calls) /\ Len(inbound') <= InboundCap
      BY <1>0, <1>3, <2>1 DEF registerProto
    <2> QED
      BY <1>3, <2>2 DEF registerProto
  <1>4. ASSUME NEW c \in Calls, SendMedia(c) PROVE TransportTypeOK'
    <2>1. sent' \in 1 .. MaxMedia
      BY <1>0, <1>4 DEF SendMedia
    <2>2. /\ Append(sendCh[c], sent') \in Seq(1 .. MaxMedia)
          /\ Len(Append(sendCh[c], sent')) = Len(sendCh[c]) + 1
      BY <2>1
    <2>3. sendCh' \in [Calls -> Seq(1 .. MaxMedia)]
      BY <1>4, <2>2 DEF SendMedia
    <2>4. \A k \in Calls : Len(sendCh'[k]) <= SendCap
      <3> TAKE k \in Calls
      <3>1. sendCh'[k] = sendCh[k] \/ (k = c /\ Len(sendCh[c]) < SendCap /\ sendCh'[k] = Append(sendCh[c], sent'))
        BY <1>4 DEF SendMedia
      <3>2. Len(sendCh[c]) \in Nat /\ SendCap \in Nat /\ Len(sendCh[k]) <= SendCap
        BY <1>0
      <3>3. CASE sendCh'[k] = sendCh[k]
        BY <3>2, <3>3
      <3>4. CASE k = c /\ Len(sendCh[c]) < SendCap /\ sendCh'[k] = Append(sendCh[c], sent')
        BY <2>2, <3>2, <3>4
      <3> QED
        BY <3>1, <3>3, <3>4
    <2>5. sent' \in 0 .. MaxMedia
      BY <2>1
    <2> QED
      BY <1>4, <2>3, <2>4, <2>5 DEF SendMedia
  <1>5. ASSUME NEW c \in Calls, sendPump(c) PROVE TransportTypeOK'
    <2>1. /\ Head(sendCh[c]) \in 1 .. MaxMedia
          /\ Tail(sendCh[c]) \in Seq(1 .. MaxMedia) /\ Len(Tail(sendCh[c])) <= SendCap
      BY <1>0, <1>5 DEF sendPump
    <2>2. datagrams' \subseteq [conn : 1 .. MaxConns, frame : Frames]
      <3>1. CASE /\ dconn["sender"][c] # NoConn
                 /\ datagrams' = datagrams \cup {AsDatagram(c, Head(sendCh[c]))}
        <4>1. dconn["sender"][c] \in 1 .. MaxConns
          BY <3>1 DEF Ends, NoConn
        <4> QED
          BY <3>1, <4>1, <2>1 DEF AsDatagram, Frames, Paths
      <3>2. CASE datagrams' = datagrams
        BY <3>2
      <3> QED
        BY <1>5, <3>1, <3>2 DEF sendPump, Route, SendOnDatagram, SendOnStream
    <2>3. data' \in [Calls -> Seq(Frames)]
      <3> DEFINE f == [call |-> c, n |-> Head(sendCh[c]), via |-> "stream"]
      <3>1. f \in Frames
        BY <2>1 DEF Frames, Paths
      <3>2. Append(data[c], f) \in Seq(Frames)
        BY <3>1
      <3>3. data' = [data EXCEPT ![c] = Append(@, f)] \/ data' = data
        BY <1>5 DEF sendPump, Route, SendOnDatagram, SendOnStream
      <3> HIDE DEF f
      <3> QED
        BY <3>2, <3>3
    <2> QED
      BY <1>5, <2>1, <2>2, <2>3 DEF sendPump
  <1>6. ASSUME NEW c \in Calls, sendPumpExits(c) PROVE TransportTypeOK'
    BY <1>6 DEF sendPumpExits
  <1>7. ASSUME NEW c \in Calls, NEW e \in Ends, tryAttachDatagram(e, c) PROVE TransportTypeOK'
    BY <1>7 DEF tryAttachDatagram
  <1>8. ASSUME NEW c \in Calls, NEW e \in Ends, datagramWatcherExits(e, c) PROVE TransportTypeOK'
    BY <1>8 DEF datagramWatcherExits
  <1>9. CASE DirectUp
    <2>1. direct' \in [conn : 0 .. MaxConns, up : BOOLEAN]
      BY <1>0, <1>9 DEF DirectUp
    <2> QED
      BY <1>9, <2>1 DEF DirectUp
  <1>10. CASE DirectDown
    <2>1. stream' \in [Calls -> [state : {"unopened", "open", "closed", "reset"},
                                    conn : 0 .. MaxConns]]
      <3> SUFFICES ASSUME NEW s \in Calls
                   PROVE  stream'[s] \in [state : {"unopened", "open", "closed", "reset"},
                                           conn : 0 .. MaxConns]
        BY <1>10 DEF DirectDown
      <3>1. stream'[s] = stream[s] \/ stream'[s] = [stream[s] EXCEPT !.state = "reset"]
        BY <1>10 DEF DirectDown
      <3> QED
        BY <3>1
    <2>2. direct' \in [conn : 0 .. MaxConns, up : BOOLEAN]
      BY <1>10 DEF DirectDown
    <2> QED
      BY <1>10, <2>1, <2>2 DEF DirectDown
  <1>11. ASSUME NEW c \in Calls, TakeStream(c) PROVE TransportTypeOK'
    <2>1. Head(inbound) \in Calls /\ Tail(inbound) \in Seq(Calls) /\ Len(Tail(inbound)) <= InboundCap
      <3>1. inbound \in Seq(Calls) /\ inbound # << >> /\ Len(inbound) <= InboundCap
        BY <1>11 DEF TakeStream
      <3>2. /\ Head(inbound) \in Calls /\ Tail(inbound) \in Seq(Calls)
            /\ Len(Tail(inbound)) = Len(inbound) - 1 /\ Len(inbound) \in Nat
        BY <3>1, Taken, Zenon
      <3> QED
        BY <1>0, <3>1, <3>2
    <2>2. [state |-> "reading", of |-> Head(inbound)] \in
              [state : {"none", "waiting", "exited"}] \cup [state : {"reading", "exited"}, of : Calls]
      BY <2>1
    <2>3. reader' \in [Calls -> [state : {"none", "waiting", "exited"}]
                                        \cup [state : {"reading", "exited"}, of : Calls]]
      BY <1>11, <2>2 DEF TakeStream
    <2> QED
      BY <1>11, <2>1, <2>3 DEF TakeStream
  <1>12. ASSUME NEW c \in Calls, ReaderExits(c) PROVE TransportTypeOK'
    <2>1. [reader[c] EXCEPT !.state = "exited"] \in
              [state : {"none", "waiting", "exited"}] \cup [state : {"reading", "exited"}, of : Calls]
      <3>1. CASE reader[c] \in [state : {"none", "waiting", "exited"}]
        BY <3>1
      <3>2. CASE reader[c] \in [state : {"reading", "exited"}, of : Calls]
        BY <3>2
      <3> QED
        BY <3>1, <3>2
    <2> QED
      BY <1>12, <2>1 DEF ReaderExits
  <1>13. ASSUME NEW c \in Calls, recvPumpStream(c) PROVE TransportTypeOK'
    <2> DEFINE s == reader[c].of
    <2>1. s \in Calls
      BY <1>13 DEF recvPumpStream, Reading
    <2>2. data[s] # << >> /\ data[s] \in Seq(Frames)
      BY <1>13, <2>1 DEF recvPumpStream
    <2>3. Head(data[s]) \in Frames /\ Tail(data[s]) \in Seq(Frames)
      BY <2>2
    <2>4. [stage |-> "try", frame |-> Head(data[s])] \in Deliveries
      BY <2>3 DEF Deliveries
    <2> HIDE DEF s
    <2>5. deliver' \in [Calls -> [Paths -> Deliveries]] /\ data' \in [Calls -> Seq(Frames)]
      BY <1>13, <2>1, <2>3, <2>4 DEF recvPumpStream, Paths, s
    <2> QED
      BY <1>13, <2>5 DEF recvPumpStream
  <1>14. ASSUME NEW c \in Calls, NEW d \in datagrams, recvPumpDatagram(c, d) PROVE TransportTypeOK'
    <2>1. [stage |-> "try", frame |-> d.frame] \in Deliveries
      BY DEF Deliveries
    <2>2. deliver' \in [Calls -> [Paths -> Deliveries]]
      BY <1>14, <2>1 DEF recvPumpDatagram, Paths
    <2> QED
      BY <1>14, <2>2 DEF recvPumpDatagram
  <1>15. ASSUME NEW c \in Calls, recvPumpDatagramExits(c) PROVE TransportTypeOK'
    BY <1>15 DEF recvPumpDatagramExits
  <1>16. ASSUME NEW c \in Calls, NEW p \in Paths, deliverRecv(c, p) PROVE TransportTypeOK'
    <2>1. /\ deliver[c][p] \in Deliveries /\ recvCh[c] \in Seq(Frames)
          /\ Len(recvCh[c]) \in Nat
      OBVIOUS
    <2>2. /\ deliver[c][p].frame \in Frames
          /\ \A st \in {"try", "evict", "retry"} : [deliver[c][p] EXCEPT !.stage = st] \in Deliveries
          /\ Idle \in Deliveries
      <3>1. deliver[c][p] # Idle
        BY <1>16 DEF deliverRecv, Idle
      <3>2. deliver[c][p] \in [stage : {"try", "evict", "retry"}, frame : Frames]
        BY <2>1, <3>1 DEF Deliveries
      <3> QED
        BY <3>2 DEF Deliveries
    <2>3. deliver' \in [Calls -> [Paths -> Deliveries]]
      <3>1. \E v \in Deliveries : deliver' = [deliver EXCEPT ![c][p] = v]
        BY <1>16, <2>2 DEF deliverRecv, PushRecv, Evict
      <3> QED
        BY <3>1
    <2>4. /\ Append(recvCh[c], deliver[c][p].frame) \in Seq(Frames)
          /\ Len(Append(recvCh[c], deliver[c][p].frame)) = Len(recvCh[c]) + 1
      BY <2>1, <2>2
    <2>5. recvCh[c] # << >> => /\ Tail(recvCh[c]) \in Seq(Frames)
                               /\ Len(Tail(recvCh[c])) = Len(recvCh[c]) - 1
      BY <2>1
    <2>6. recvCh' \in [Calls -> Seq(Frames)] /\ \A k \in Calls : Len(recvCh'[k]) <= RecvCap
      <3>1. \/ recvCh' = recvCh
            \/ recvCh' = [recvCh EXCEPT ![c] = Append(@, deliver[c][p].frame)] /\ Len(recvCh[c]) < RecvCap
            \/ recvCh' = [recvCh EXCEPT ![c] = Tail(@)] /\ recvCh[c] # << >>
        BY <1>16 DEF deliverRecv, PushRecv, Evict, HasRoom
      <3>2. recvCh' \in [Calls -> Seq(Frames)]
        BY <3>1, <2>4, <2>5
      <3>3. \A k \in Calls : Len(recvCh'[k]) <= RecvCap
        <4> TAKE k \in Calls
        <4>1. CASE k # c
          BY <3>1, <4>1
        <4>2. CASE k = c
          BY <1>0, <2>1, <3>1, <2>4, <2>5, <4>2
        <4> QED
          BY <4>1, <4>2
      <3> QED
        BY <3>2, <3>3
    <2> QED
      BY <1>16, <2>3, <2>6 DEF deliverRecv
  <1>17. ASSUME NEW c \in Calls, RecvMedia(c) PROVE TransportTypeOK'
    <2>1. /\ Head(recvCh[c]) \in Frames /\ Tail(recvCh[c]) \in Seq(Frames)
          /\ Len(Tail(recvCh[c])) <= RecvCap
      BY <1>0, <1>17 DEF RecvMedia
    <2>2. Append(heard[c], Head(recvCh[c])) \in Seq(Frames)
      BY <2>1
    <2> QED
      BY <1>17, <2>1, <2>2 DEF RecvMedia
  <1>18. ASSUME NEW c \in Calls, NEW e \in Ends, Close(e, c) PROVE TransportTypeOK'
    <2>1. stream' \in [Calls -> [state : {"unopened", "open", "closed", "reset"},
                                    conn : 0 .. MaxConns]]
      <3>1. CASE stream' = [stream EXCEPT ![c].state = "closed"]
        <4>1. [stream[c] EXCEPT !.state = "closed"] \in
                  [state : {"unopened", "open", "closed", "reset"}, conn : 0 .. MaxConns]
          <5>1. stream[c] \in [state : {"unopened", "open", "closed", "reset"}, conn : 0 .. MaxConns]
            OBVIOUS
          <5> HIDE DEF TransportTypeOK
          <5> QED
            BY <5>1
        <4>2. stream' = [stream EXCEPT ![c] = [stream[c] EXCEPT !.state = "closed"]]
          BY <3>1
        <4> QED
          BY <4>1, <4>2
      <3>2. CASE stream' = stream
        BY <3>2
      <3> QED
        BY <1>18, <3>1, <3>2 DEF Close
    <2>2. transport' \in [Ends -> [Calls -> {"none", "open", "closed"}]]
      BY <1>18 DEF Close
    <2> QED
      BY <1>18, <2>1, <2>2 DEF Close
  <1>19. CASE UNCHANGED transportVars
    BY <1>19 DEF transportVars
  <1> QED
    BY <1>1, <1>2, <1>3, <1>4, <1>5, <1>6, <1>7, <1>8, <1>9, <1>10, <1>11, <1>12, <1>13,
       <1>14, <1>15, <1>16, <1>17, <1>18, <1>19
    DEF TransportNext, Network, Goroutine, User

(* The frame an earlier call left behind. *)
LEMMA LeftBehind ==
    ASSUME TransportConstants, NEW c \in Range(Earlier)
    PROVE  /\ c \in Calls /\ Left(c).n \in 1 .. Len(Earlier)
           /\ Earlier[Left(c).n] = c
           /\ Left(c).via = "stream" /\ Left(c) \in Frames
           /\ Len(Earlier) \in Nat /\ Len(Earlier) <= MaxMedia /\ MaxMedia \in Nat
  <1>1. /\ Earlier \in Seq(Calls) /\ Len(Earlier) \in Nat /\ DOMAIN Earlier = 1 .. Len(Earlier)
        /\ Len(Earlier) <= MaxMedia /\ MaxMedia \in Nat
    BY DEF TransportConstants
  <1>2. \E i \in DOMAIN Earlier : Earlier[i] = c
    BY DEF Range
  <1> DEFINE i == CHOOSE i \in DOMAIN Earlier : Earlier[i] = c
  <1>3. i \in DOMAIN Earlier /\ Earlier[i] = c
    BY <1>2, Zenon
  <1>4. Left(c) = [call |-> c, n |-> i, via |-> "stream"]
    BY DEF Left
  <1> HIDE DEF i
  <1>5. i \in 1 .. Len(Earlier) /\ c \in Calls /\ i \in 1 .. MaxMedia
    BY <1>1, <1>3
  <1> QED
    BY <1>1, <1>3, <1>4, <1>5 DEF Frames, Paths

(* The types hold at the start, also with streams left in the registry. *)
LEMMA TransportTypeInit == ASSUME TransportConstants PROVE TransportInit => TransportTypeOK
  <1> SUFFICES ASSUME TransportInit PROVE TransportTypeOK
    OBVIOUS
  <1>0. /\ MaxMedia \in Nat /\ MaxConns \in Nat /\ SendCap \in Nat \ {0}
        /\ RecvCap \in Nat \ {0} /\ InboundCap \in Nat \ {0}
        /\ Earlier \in Seq(Calls) /\ Len(Earlier) \in Nat
        /\ Len(Earlier) <= MaxMedia /\ Len(Earlier) <= InboundCap
    BY DEF TransportConstants
  <1>1. PICK queue \in {<< >>, Earlier} : InitWith(queue)
    BY DEF TransportInit
  <1>2. /\ queue \in Seq(Calls) /\ Len(queue) \in Nat
        /\ Len(queue) <= MaxMedia /\ Len(queue) <= InboundCap
    <2>1. CASE queue = << >>
      BY <1>0, <2>1, EmptySeq
    <2>2. CASE queue = Earlier
      BY <1>0, <2>2
    <2> QED
      BY <2>1, <2>2
  <1>3. Range(queue) \subseteq Range(Earlier)
    BY DEF Range
  <1>4. data \in [Calls -> Seq(Frames)]
    <2>1. \A c \in Calls : c \in Range(queue) => <<Left(c)>> \in Seq(Frames)
      BY <1>3, LeftBehind
    <2>2. << >> \in Seq(Frames)
      OBVIOUS
    <2>3. data = [c \in Calls |-> IF c \in Range(queue) THEN <<Left(c)>> ELSE << >>]
      BY <1>1 DEF InitWith
    <2> QED
      BY <2>1, <2>2, <2>3
  <1>5. inbound \in Seq(Calls) /\ Len(inbound) <= InboundCap /\ sent \in 0 .. MaxMedia
    BY <1>0, <1>1, <1>2 DEF InitWith
  <1>6. transport \in [Ends -> [Calls -> {"none", "open", "closed"}]]
    BY <1>1 DEF InitWith
  <1>7. stream \in [Calls -> [state : {"unopened", "open", "closed", "reset"}, conn : 0 .. MaxConns]]
    BY <1>0, <1>1 DEF InitWith, NoConn
  <1>8. reader \in [Calls -> [state : {"none", "waiting", "exited"}]
                                        \cup [state : {"reading", "exited"}, of : Calls]]
    BY <1>1 DEF InitWith
  <1>9. /\ sendCh \in [Calls -> Seq(1 .. MaxMedia)] /\ \A c \in Calls : Len(sendCh[c]) <= SendCap
        /\ recvCh \in [Calls -> Seq(Frames)] /\ \A c \in Calls : Len(recvCh[c]) <= RecvCap
        /\ heard \in [Calls -> Seq(Frames)]
    BY <1>0 DEF TransportInit
  <1>10. /\ direct \in [conn : 0 .. MaxConns, up : BOOLEAN]
         /\ dconn \in [Ends -> [Calls -> 0 .. MaxConns]]
         /\ deliver \in [Calls -> [Paths -> Deliveries]]
    BY <1>0 DEF TransportInit, NoConn, Deliveries, Idle
  <1> QED
    BY <1>4, <1>5, <1>6, <1>7, <1>8, <1>9, <1>10 DEF TransportInit, TransportTypeOK

(* Frames on a datagram and in a delivery carry the path they came by. *)
ByPath ==
    /\ \A c \in Calls : \A i \in 1 .. Len(data[c]) : data[c][i].via = "stream"
    /\ \A d \in datagrams : d.frame.via = "datagram"
    /\ \A c \in Calls, p \in Paths : deliver[c][p] # Idle => deliver[c][p].frame.via = p

(* After an eviction there is room, or the other path has used it. *)
Fresh ==
    \A c \in Calls, p \in Paths :
        deliver[c][p].stage = "retry" =>
            Len(recvCh[c]) < RecvCap \/ Last(recvCh[c]).via # p

(* A delivery that is under way holds a frame. *)
LEMMA Delivering ==
    ASSUME TransportTypeOK, NEW c \in Calls, NEW p \in Paths
    PROVE  /\ deliver[c][p].stage # "idle" <=> deliver[c][p] # Idle
           /\ deliver[c][p] # Idle =>
                deliver[c][p] \in [stage : {"try", "evict", "retry"}, frame : Frames]
  <1>1. deliver[c][p] \in Deliveries
    BY DEF TransportTypeOK
  <1> QED
    BY <1>1 DEF Deliveries, Idle

FrameVars == <<sent, sendCh, data, datagrams, deliver, recvCh, heard>>

(* The forms of a step, as far as the frames are concerned. *)
LEMMA TransportSteps ==
    ASSUME [TransportNext]_transportVars
    PROVE  \/ \E c \in Calls : SendMedia(c) \/ sendPump(c) \/ recvPumpStream(c) \/ RecvMedia(c)
           \/ \E c \in Calls, d \in datagrams : recvPumpDatagram(c, d)
           \/ \E c \in Calls, p \in Paths : deliverRecv(c, p)
           \/ UNCHANGED FrameVars
  <1>1. CASE Network
    BY <1>1 DEF Network, DirectUp, DirectDown, FrameVars, sendVars, recvVars, streamVars
  <1>2. CASE UNCHANGED transportVars
    BY <1>2 DEF transportVars, FrameVars, sendVars, recvVars, streamVars, directVars
  <1>3. ASSUME NEW c \in Calls, Goroutine(c)
        PROVE  \/ sendPump(c) \/ recvPumpStream(c)
               \/ \E d \in datagrams : recvPumpDatagram(c, d)
               \/ \E p \in Paths : deliverRecv(c, p)
               \/ UNCHANGED FrameVars
    BY <1>3 DEF Goroutine, FrameVars, sendVars, recvVars, streamVars, directVars,
       sendPumpExits, recvPumpDatagramExits, tryAttachDatagram, datagramWatcherExits,
       registerProto, TakeStream, ReaderExits
  <1>4. ASSUME NEW c \in Calls, User(c)
        PROVE  SendMedia(c) \/ RecvMedia(c) \/ UNCHANGED FrameVars
    BY <1>4 DEF User, FrameVars, sendVars, recvVars, streamVars, directVars,
       NewSender, NewReceiver, Close
  <1> QED
    BY <1>1, <1>2, <1>3, <1>4 DEF TransportNext

(* deliverRecv in its four forms: pushed, found full, evicted, given up. *)
Same(c, p, stage) ==
    /\ deliver' = [deliver EXCEPT ![c][p] = [deliver[c][p] EXCEPT !.stage = stage]]
    /\ UNCHANGED <<sent, sendCh, data, datagrams, heard, reader>>
Over(c, p) ==
    /\ deliver' = [deliver EXCEPT ![c][p] = Idle]
    /\ UNCHANGED <<sent, sendCh, data, datagrams, heard, reader>>
Pushed(c, p) ==
    /\ Len(recvCh[c]) < RecvCap
    /\ recvCh' = [recvCh EXCEPT ![c] = Append(@, deliver[c][p].frame)]
    /\ Over(c, p)
FoundFull(c, p) == Same(c, p, "evict") /\ UNCHANGED recvCh
Evicted(c, p) ==
    /\ recvCh' = [recvCh EXCEPT ![c] = IF @ = << >> THEN @ ELSE Tail(@)]
    /\ Same(c, p, "retry")
GivenUp(c, p) ==
    /\ deliver[c][p].stage = "retry" /\ ~(Len(recvCh[c]) < RecvCap)
    /\ Over(c, p) /\ UNCHANGED recvCh

(* deliverRecv takes one of these forms, with a frame in hand. *)
LEMMA DeliverForms ==
    ASSUME TransportTypeOK, NEW c \in Calls, NEW p \in Paths, deliverRecv(c, p)
    PROVE  /\ deliver[c][p] \in [stage : {"try", "evict", "retry"}, frame : Frames]
           /\ Pushed(c, p) \/ FoundFull(c, p) \/ Evicted(c, p) \/ GivenUp(c, p)
  <1>1. deliver[c][p].stage # "idle"
    BY DEF deliverRecv
  <1>2. UNCHANGED <<sent, sendCh, data, datagrams, heard, reader>>
    BY DEF deliverRecv, sendVars, streamVars, directVars
  <1> QED
    BY <1>1, <1>2, Delivering
    DEF deliverRecv, PushRecv, Evict, HasRoom, Same, Over, Pushed, FoundFull, Evicted, GivenUp

(* Every step keeps the path a frame came by. *)
LEMMA ByPathStep ==
    ASSUME TransportConstants, TransportTypeOK, ByPath, [TransportNext]_transportVars
    PROVE  ByPath'
  <1>1. ASSUME NEW c \in Calls, SendMedia(c) \/ RecvMedia(c) PROVE ByPath'
    BY <1>1 DEF ByPath, SendMedia, RecvMedia, streamVars, directVars, recvVars
  <1>2. ASSUME NEW c \in Calls, sendPump(c) PROVE ByPath'
    <2> DEFINE f == [call |-> c, n |-> Head(sendCh[c]), via |-> "stream"]
    <2>1. \A k \in Calls : \A i \in 1 .. Len(data'[k]) : data'[k][i].via = "stream"
      <3> TAKE k \in Calls
      <3>0. data[k] \in Seq(Frames) /\ data[c] \in Seq(Frames) /\ data \in [Calls -> Seq(Frames)]
        BY DEF TransportTypeOK
      <3>1. CASE data' = [data EXCEPT ![c] = Append(@, f)] /\ k = c
        <4>1. /\ data'[k] = Append(data[c], f) /\ f.via = "stream"
              /\ f \in Frames
          <5>1. Head(sendCh[c]) \in 1 .. MaxMedia
            <6>1. sendCh[c] \in Seq(1 .. MaxMedia) /\ sendCh[c] # << >>
              BY <1>2 DEF sendPump, TransportTypeOK
            <6> QED
              BY <6>1, Taken, Zenon
          <5> QED
            BY <3>1, <3>0, <5>1 DEF Frames, Paths
        <4> HIDE DEF f
        <4>2. /\ Len(data[c]) \in Nat /\ Len(Append(data[c], f)) = Len(data[c]) + 1
              /\ Append(data[c], f)[Len(data[c]) + 1] = f
              /\ \A i \in 1 .. Len(data[c]) : Append(data[c], f)[i] = data[c][i]
          <5>1. f \in Frames /\ data[c] \in Seq(Frames)
            BY <3>0, <4>1
          <5> QED
            BY <5>1, Put
        <4>3. \A i \in 1 .. Len(data[c]) : data[c][i].via = "stream"
          BY DEF ByPath
        <4> QED
          BY <3>1, <4>1, <4>2, <4>3
      <3>2. CASE data'[k] = data[k]
        BY <3>2 DEF ByPath
      <3>3. data' = [data EXCEPT ![c] = Append(@, f)] \/ data' = data
        BY <1>2 DEF sendPump, Route, SendOnDatagram, SendOnStream
      <3> QED
        BY <3>0, <3>1, <3>2, <3>3
    <2>2. datagrams' = datagrams \/ datagrams' = datagrams \cup {AsDatagram(c, Head(sendCh[c]))}
      BY <1>2 DEF sendPump, Route, SendOnDatagram, SendOnStream
    <2>3. AsDatagram(c, Head(sendCh[c])).frame.via = "datagram"
      BY DEF AsDatagram
    <2>4. deliver' = deliver
      BY <1>2 DEF sendPump, recvVars
    <2> HIDE DEF f
    <2> QED
      BY <2>1, <2>2, <2>3, <2>4 DEF ByPath
  <1>3. ASSUME NEW c \in Calls, recvPumpStream(c) PROVE ByPath'
    <2> DEFINE s == reader[c].of
    <2>1. s \in Calls
      BY <1>3 DEF recvPumpStream, Reading, TransportTypeOK
    <2>2. data[s] \in Seq(Frames) /\ data[s] # << >> /\ data' = [data EXCEPT ![s] = Tail(@)]
          /\ data \in [Calls -> Seq(Frames)] /\ datagrams' = datagrams
          /\ deliver' = [deliver EXCEPT ![c]["stream"] = [stage |-> "try", frame |-> Head(data[s])]]
      BY <1>3, <2>1 DEF recvPumpStream, TransportTypeOK, directVars
    <2> HIDE DEF s
    <2>3. /\ Len(data[s]) \in Nat \ {0} /\ Head(data[s]) = data[s][1] /\ Len(Tail(data[s])) = Len(data[s]) - 1
          /\ \A i \in 1 .. Len(Tail(data[s])) : Tail(data[s])[i] = data[s][i + 1]
      BY <2>2, Taken, Zenon
    <2>4. \A i \in 1 .. Len(data[s]) : data[s][i].via = "stream"
      BY <2>1 DEF ByPath
    <2>5. \A k \in Calls : \A i \in 1 .. Len(data'[k]) : data'[k][i].via = "stream"
      <3> TAKE k \in Calls
      <3>1. CASE k = s
        BY <2>1, <2>2, <2>3, <2>4, <3>1
      <3>2. CASE k # s
        BY <2>1, <2>2, <3>2 DEF ByPath
      <3> QED
        BY <3>1, <3>2
    <2>6. Head(data[s]).via = "stream"
      BY <2>3, <2>4
    <2>7. \A k \in Calls, p \in Paths : deliver'[k][p] # Idle => deliver'[k][p].frame.via = p
      BY <2>2, <2>6 DEF ByPath, TransportTypeOK, Paths
    <2> QED
      BY <2>2, <2>5, <2>7 DEF ByPath
  <1>4. ASSUME NEW c \in Calls, NEW d \in datagrams, recvPumpDatagram(c, d) PROVE ByPath'
    BY <1>4 DEF ByPath, recvPumpDatagram, streamVars, TransportTypeOK, Paths
  <1>5. ASSUME NEW c \in Calls, NEW p \in Paths, deliverRecv(c, p) PROVE ByPath'
    <2>1. /\ deliver[c][p] \in [stage : {"try", "evict", "retry"}, frame : Frames]
          /\ Pushed(c, p) \/ FoundFull(c, p) \/ Evicted(c, p) \/ GivenUp(c, p)
      BY <1>5, DeliverForms
    <2>2. data' = data /\ datagrams' = datagrams /\ deliver \in [Calls -> [Paths -> Deliveries]]
      BY <2>1 DEF Pushed, FoundFull, Evicted, GivenUp, Same, Over, TransportTypeOK
    <2>3. deliver[c][p] # Idle /\ \A st : [deliver[c][p] EXCEPT !.stage = st].frame = deliver[c][p].frame
      BY <2>1 DEF Idle
    <2>4. \/ deliver' = [deliver EXCEPT ![c][p] = Idle]
          \/ \E st \in {"evict", "retry"} : deliver' = [deliver EXCEPT ![c][p] = [deliver[c][p] EXCEPT !.stage = st]]
      BY <2>1 DEF Pushed, FoundFull, Evicted, GivenUp, Same, Over
    <2>5. \A k \in Calls, q \in Paths : deliver'[k][q] # Idle => deliver'[k][q].frame.via = q
      <3> TAKE k \in Calls, q \in Paths
      <3>1. CASE k = c /\ q = p
        <4>1. \/ deliver'[c][p] = Idle
              \/ \E st \in {"evict", "retry"} : deliver'[c][p] = [deliver[c][p] EXCEPT !.stage = st]
          BY <2>2, <2>4
        <4>2. deliver[c][p].frame.via = p
          BY <2>3 DEF ByPath
        <4>3. CASE deliver'[c][p] = Idle
          BY <3>1, <4>3
        <4>4. ASSUME NEW st \in {"evict", "retry"}, deliver'[c][p] = [deliver[c][p] EXCEPT !.stage = st]
              PROVE  deliver'[c][p].frame.via = p
          <5>1. [deliver[c][p] EXCEPT !.stage = st].frame = deliver[c][p].frame
            BY <2>3
          <5> QED
            BY <4>2, <4>4, <5>1
        <4> QED
          BY <3>1, <4>1, <4>3, <4>4
      <3>2. CASE ~(k = c /\ q = p)
        <4>1. deliver'[k][q] = deliver[k][q]
          BY <2>2, <2>4, <3>2
        <4> QED
          BY <4>1 DEF ByPath
      <3> QED
        BY <3>1, <3>2
    <2> QED
      BY <2>2, <2>5 DEF ByPath
  <1>6. CASE UNCHANGED FrameVars
    BY <1>6 DEF FrameVars, ByPath
  <1> QED
    BY <1>1, <1>2, <1>3, <1>4, <1>5, <1>6, TransportSteps

(* The room made by an eviction is only taken by the other path. *)
LEMMA FreshStep ==
    ASSUME TransportConstants, TransportTypeOK, ByPath, Fresh, [TransportNext]_transportVars
    PROVE  Fresh'
  <1> SUFFICES ASSUME NEW k \in Calls, NEW q \in Paths, deliver'[k][q].stage = "retry"
               PROVE  Len(recvCh'[k]) < RecvCap \/ Last(recvCh'[k]).via # q
    BY DEF Fresh
  <1>0. /\ deliver \in [Calls -> [Paths -> Deliveries]] /\ RecvCap \in Nat \ {0}
        /\ recvCh \in [Calls -> Seq(Frames)] /\ Len(recvCh[k]) <= RecvCap
    BY DEF TransportTypeOK, TransportConstants
  <1>1. ASSUME deliver'[k][q].stage = "retry" => deliver[k][q].stage = "retry", recvCh'[k] = recvCh[k]
        PROVE  Len(recvCh'[k]) < RecvCap \/ Last(recvCh'[k]).via # q
    BY <1>1 DEF Fresh
  <1>2. ASSUME recvCh[k] # << >>, recvCh'[k] = Tail(recvCh[k]) PROVE Len(recvCh'[k]) < RecvCap
    <2>1. recvCh[k] \in Seq(Frames)
      BY <1>0
    <2>2. Len(Tail(recvCh[k])) = Len(recvCh[k]) - 1 /\ Len(recvCh[k]) \in Nat
      BY <1>2, <2>1, Taken
    <2> QED
      BY <1>0, <1>2, <2>2
  <1>3. ASSUME NEW c \in Calls, SendMedia(c) \/ sendPump(c) PROVE UNCHANGED <<deliver, recvCh>>
    BY <1>3 DEF SendMedia, sendPump, recvVars
  <1>4. ASSUME NEW c \in Calls, recvPumpStream(c)
        PROVE  recvCh' = recvCh /\ (deliver'[k][q].stage = "retry" => deliver[k][q].stage = "retry")
    BY <1>0, <1>4 DEF recvPumpStream, Paths
  <1>5. ASSUME NEW c \in Calls, NEW d \in datagrams, recvPumpDatagram(c, d)
        PROVE  recvCh' = recvCh /\ (deliver'[k][q].stage = "retry" => deliver[k][q].stage = "retry")
    BY <1>0, <1>5 DEF recvPumpDatagram, Paths
  <1>6. ASSUME NEW c \in Calls, RecvMedia(c)
        PROVE  Len(recvCh'[k]) < RecvCap \/ Last(recvCh'[k]).via # q
    <2>1. deliver' = deliver /\ recvCh' = [recvCh EXCEPT ![c] = Tail(@)] /\ recvCh[c] # << >>
      BY <1>6 DEF RecvMedia
    <2> QED
      BY <1>0, <1>1, <1>2, <2>1
  <1>7. ASSUME NEW c \in Calls, NEW p \in Paths, deliverRecv(c, p)
        PROVE  Len(recvCh'[k]) < RecvCap \/ Last(recvCh'[k]).via # q
    <2>1. /\ deliver[c][p] \in [stage : {"try", "evict", "retry"}, frame : Frames]
          /\ Pushed(c, p) \/ FoundFull(c, p) \/ Evicted(c, p) \/ GivenUp(c, p)
      BY <1>7, DeliverForms
    <2>2. CASE FoundFull(c, p)
      <3>1. /\ recvCh' = recvCh /\ deliver' = [deliver EXCEPT ![c][p] = [deliver[c][p] EXCEPT !.stage = "evict"]]
        BY <2>2 DEF FoundFull, Same
      <3>2. [deliver[c][p] EXCEPT !.stage = "evict"].stage = "evict"
        BY <2>1
      <3> QED
        BY <1>0, <1>1, <3>1, <3>2
    <2>3. CASE GivenUp(c, p)
      BY <1>0, <1>1, <2>3 DEF GivenUp, Over, Idle
    <2>4. CASE k # c
      <3>1. deliver'[k][q] = deliver[k][q] /\ recvCh'[k] = recvCh[k]
        BY <1>0, <2>1, <2>4 DEF Pushed, FoundFull, Evicted, GivenUp, Same, Over
      <3> QED
        BY <1>1, <3>1
    <2>5. CASE Evicted(c, p) /\ k = c
      <3>1. recvCh'[k] = IF recvCh[k] = << >> THEN recvCh[k] ELSE Tail(recvCh[k])
        BY <1>0, <2>5 DEF Evicted
      <3>2. Len(<< >>) = 0
        OBVIOUS
      <3> QED
        BY <1>0, <1>2, <3>1, <3>2
    <2>6. CASE Pushed(c, p) /\ k = c
      <3>1. q # p /\ deliver[k][q] = deliver'[k][q]
        BY <1>0, <2>6 DEF Pushed, Over, Idle
      <3>2. deliver[c][p].frame.via = p /\ deliver[c][p].frame \in Frames
        <4>1. deliver[c][p] # Idle
          BY <2>1 DEF Idle
        <4> QED
          BY <2>1, <4>1 DEF ByPath
      <3> DEFINE f == deliver[c][p].frame
      <3>3. recvCh'[k] = Append(recvCh[k], f) /\ recvCh[k] \in Seq(Frames) /\ f \in Frames
        BY <1>0, <2>6, <3>2 DEF Pushed
      <3> HIDE DEF f
      <3>4. Len(recvCh'[k]) = Len(recvCh[k]) + 1 /\ recvCh'[k][Len(recvCh[k]) + 1] = f
        BY <3>3, Put
      <3>5. Last(recvCh'[k]) = f
        BY <3>4 DEF Last
      <3> QED
        BY <3>1, <3>2, <3>5 DEF f
    <2> QED
      BY <2>1, <2>2, <2>3, <2>4, <2>5, <2>6
  <1>8. CASE UNCHANGED FrameVars
    BY <1>1, <1>8 DEF FrameVars
  <1> QED
    BY <1>1, <1>3, <1>4, <1>5, <1>6, <1>7, <1>8, TransportSteps

(* A frame given up after an eviction: the queue is full again, with the   *)
(* other path's frame at its end.                                          *)
LEMMA GivingUp ==
    ASSUME TransportConstants, TransportTypeOK, ByPath, Fresh, [TransportNext]_transportVars,
           NEW k \in Calls, NEW q \in Paths, deliver[k][q].stage = "retry",
           deliver'[k][q] = Idle, recvCh'[k] = recvCh[k]
    PROVE  Last(recvCh[k]).via # q
  <1>0. /\ deliver \in [Calls -> [Paths -> Deliveries]] /\ RecvCap \in Nat \ {0}
        /\ recvCh \in [Calls -> Seq(Frames)] /\ Len(recvCh[k]) <= RecvCap
    BY DEF TransportTypeOK, TransportConstants
  <1>1. deliver'[k][q] # deliver[k][q]
    BY DEF Idle
  <1>2. \A c \in Calls : ~(SendMedia(c) \/ sendPump(c) \/ RecvMedia(c))
    BY <1>1 DEF SendMedia, sendPump, RecvMedia, recvVars
  <1>3. \A c \in Calls : ~recvPumpStream(c)
    <2> SUFFICES ASSUME NEW c \in Calls, recvPumpStream(c) PROVE FALSE
      OBVIOUS
    <2>1. deliver[c]["stream"] = Idle /\ \E v : deliver' = [deliver EXCEPT ![c]["stream"] = v]
      BY DEF recvPumpStream
    <2>2. deliver[k][q] = Idle
      BY <1>0, <1>1, <2>1
    <2> QED
      BY <2>2 DEF Idle
  <1>4. \A c \in Calls, d \in datagrams : ~recvPumpDatagram(c, d)
    <2> SUFFICES ASSUME NEW c \in Calls, NEW d \in datagrams, recvPumpDatagram(c, d) PROVE FALSE
      OBVIOUS
    <2>1. deliver[c]["datagram"] = Idle /\ \E v : deliver' = [deliver EXCEPT ![c]["datagram"] = v]
      BY DEF recvPumpDatagram
    <2>2. deliver[k][q] = Idle
      BY <1>0, <1>1, <2>1
    <2> QED
      BY <2>2 DEF Idle
  <1>5. ASSUME NEW c \in Calls, NEW p \in Paths, deliverRecv(c, p)
        PROVE  Last(recvCh[k]).via # q
    <2>1. /\ deliver[c][p] \in [stage : {"try", "evict", "retry"}, frame : Frames]
          /\ Pushed(c, p) \/ FoundFull(c, p) \/ Evicted(c, p) \/ GivenUp(c, p)
      BY <1>5, DeliverForms
    <2>2. k = c /\ q = p
      BY <1>0, <1>1, <2>1 DEF Pushed, FoundFull, Evicted, GivenUp, Same, Over
    <2>3. CASE Same(c, p, "evict") \/ Same(c, p, "retry")
      <3>1. \A st \in {"evict", "retry"} : [deliver[c][p] EXCEPT !.stage = st].stage = st
        BY <2>1
      <3> QED
        BY <1>0, <2>2, <2>3, <3>1 DEF Same, Idle
    <2>4. CASE Pushed(c, p)
      <3> DEFINE f == deliver[c][p].frame
      <3>1. recvCh'[k] = Append(recvCh[k], f) /\ recvCh[k] \in Seq(Frames) /\ f \in Frames
        BY <1>0, <2>1, <2>2, <2>4 DEF Pushed
      <3> HIDE DEF f
      <3>2. Len(recvCh'[k]) = Len(recvCh[k]) + 1 /\ Len(recvCh[k]) \in Nat
        BY <3>1, Put
      <3> QED
        BY <3>2
    <2>5. CASE GivenUp(c, p)
      BY <2>2, <2>5 DEF GivenUp, Fresh
    <2> QED
      BY <2>1, <2>3, <2>4, <2>5 DEF FoundFull, Evicted
  <1>6. ~UNCHANGED FrameVars
    BY <1>1 DEF FrameVars
  <1> QED
    BY <1>2, <1>3, <1>4, <1>5, <1>6, TransportSteps

(* For any number of calls and any capacities: deliverRecv gives a frame   *)
(* up only when the queue it has just made room in was filled by the other *)
(* path.                                                                   *)
THEOREM FreshKept == TransportSpec => FreshFrameKept
  <1> TransportConstants
    BY TransportAssumption
  <1> DEFINE Inv == TransportTypeOK /\ ByPath /\ Fresh
  <1>1. TransportInit => Inv
    <2> SUFFICES ASSUME TransportInit PROVE Inv
      OBVIOUS
    <2>1. TransportTypeOK
      BY TransportTypeInit
    <2>2. ByPath
      <3>1. PICK queue \in {<< >>, Earlier} : InitWith(queue)
        BY DEF TransportInit
      <3>2. Range(queue) \subseteq Range(Earlier)
        BY DEF Range
      <3>3. ASSUME NEW c \in Calls, NEW i \in 1 .. Len(data[c]) PROVE data[c][i].via = "stream"
        <4>1. data[c] = IF c \in Range(queue) THEN <<Left(c)>> ELSE << >>
          BY <3>1 DEF InitWith
        <4>2. Left(c).via = "stream"
          BY DEF Left
        <4> QED
          BY <4>1, <4>2
      <3> QED
        BY <3>3 DEF TransportInit, ByPath
    <2>3. Fresh
      BY DEF TransportInit, Fresh, Idle
    <2> QED
      BY <2>1, <2>2, <2>3
  <1>2. Inv /\ [TransportNext]_transportVars => Inv'
    BY TransportTypeStep, ByPathStep, FreshStep
  <1>3. Inv /\ [TransportNext]_transportVars =>
          [\A c \in Calls, path \in Paths :
             /\ deliver[c][path].stage = "retry" /\ deliver'[c][path] = Idle
             /\ recvCh'[c] = recvCh[c]
             => Last(recvCh[c]).via # path]_transportVars
    BY GivingUp
  <1> QED
    BY <1>1, <1>2, <1>3, PTL DEF TransportSpec, FreshFrameKept

(* The frames and numbers of a queue. *)
Has(s, n) == \E i \in 1 .. Len(s) : s[i].n = n
HasStream(s, n) == \E i \in 1 .. Len(s) : s[i].n = n /\ s[i].via = "stream"
HasNum(s, n) == \E i \in 1 .. Len(s) : s[i] = n
Single(s) == \A i, j \in 1 .. Len(s) : s[i].n = s[j].n => i = j
Rising(s) == \A i, j \in 1 .. Len(s) : i < j => s[i] < s[j]
Asc(s) == \A i, j \in 1 .. Len(s) :
            i < j /\ s[i].via = "stream" /\ s[j].via = "stream" => s[i].n < s[j].n

(* Appending a frame adds its number; the order is kept if the frame is    *)
(* later than the others of the stream.                                    *)
LEMMA PutFrame ==
    ASSUME NEW s \in Seq(Frames), NEW f \in Frames, NEW t, t = Append(s, f)
    PROVE  /\ \A n : Has(t, n) <=> Has(s, n) \/ n = f.n
           /\ \A n : HasStream(t, n) <=> HasStream(s, n) \/ (n = f.n /\ f.via = "stream")
           /\ Single(s) /\ ~Has(s, f.n) => Single(t)
           /\ Asc(s) /\ (f.via = "stream" => \A x \in 1 .. MaxMedia : HasStream(s, x) => x < f.n) => Asc(t)
  <1> DEFINE l == Len(s)
  <1>1. /\ l \in Nat /\ Len(t) = l + 1 /\ t[l + 1] = f
        /\ \A i \in 1 .. l : t[i] = s[i]
    BY Put
  <1>2. \A i \in 1 .. l : s[i] \in Frames /\ s[i].n \in 1 .. MaxMedia
    <2>1. \A i \in 1 .. l : s[i] \in Frames
      OBVIOUS
    <2> QED
      BY <2>1 DEF Frames
  <1>3. \A i : i \in 1 .. l + 1 <=> i \in 1 .. l \/ i = l + 1
    BY <1>1
  <1>4. \A n : Has(t, n) <=> (\E i \in 1 .. l : s[i].n = n) \/ n = f.n
    <2> SUFFICES ASSUME NEW n PROVE Has(t, n) <=> (\E i \in 1 .. l : s[i].n = n) \/ n = f.n
      OBVIOUS
    <2> HIDE DEF l
    <2> QED
      BY <1>1, <1>3 DEF Has
  <1>5. \A n : HasStream(t, n) <=> (\E i \in 1 .. l : s[i].n = n /\ s[i].via = "stream")
                                   \/ (n = f.n /\ f.via = "stream")
    <2> SUFFICES ASSUME NEW n PROVE HasStream(t, n) <=> (\E i \in 1 .. l : s[i].n = n /\ s[i].via = "stream")
                                   \/ (n = f.n /\ f.via = "stream")
      OBVIOUS
    <2> HIDE DEF l
    <2> QED
      BY <1>1, <1>3 DEF HasStream
  <1>6. ASSUME Single(s), ~Has(s, f.n) PROVE Single(t)
    <2>1. \A i \in 1 .. l : s[i].n # f.n
      BY <1>6 DEF Has
    <2>2. \A i, j \in 1 .. l : s[i].n = s[j].n => i = j
      BY <1>6 DEF Single
    <2> HIDE DEF l
    <2> QED
      BY <1>1, <1>3, <2>1, <2>2 DEF Single
  <1>7. ASSUME Asc(s), f.via = "stream" => \A x \in 1 .. MaxMedia : HasStream(s, x) => x < f.n PROVE Asc(t)
    <2>1. \A i \in 1 .. l : f.via = "stream" /\ s[i].via = "stream" => s[i].n < f.n
      BY <1>2, <1>7 DEF HasStream
    <2>2. \A i, j \in 1 .. l : i < j /\ s[i].via = "stream" /\ s[j].via = "stream" => s[i].n < s[j].n
      BY <1>7 DEF Asc
    <2> HIDE DEF l
    <2>3. SUFFICES ASSUME NEW i \in 1 .. Len(t), NEW j \in 1 .. Len(t), i < j,
                          t[i].via = "stream", t[j].via = "stream"
                   PROVE  t[i].n < t[j].n
      BY DEF Asc
    <2>4. i \in 1 .. l
      BY <1>1, <2>3
    <2>5. CASE j \in 1 .. l
      BY <1>1, <2>2, <2>3, <2>4, <2>5
    <2>6. CASE j = l + 1
      BY <1>1, <2>1, <2>3, <2>4, <2>6
    <2> QED
      BY <1>1, <1>3, <2>5, <2>6
  <1> QED
    BY <1>4, <1>5, <1>6, <1>7 DEF Has, HasStream

(* Taking the first frame removes its number; the rest is after it. *)
LEMMA TakenFrame ==
    ASSUME NEW s \in Seq(Frames), s # << >>, NEW t, t = Tail(s), NEW f, f = Head(s)
    PROVE  /\ f \in Frames
           /\ Has(s, f.n) /\ (f.via = "stream" => HasStream(s, f.n))
           /\ \A n : Has(t, n) => Has(s, n)
           /\ \A n : HasStream(t, n) => HasStream(s, n)
           /\ Single(s) => Single(t) /\ ~Has(t, f.n)
           /\ Asc(s) => Asc(t) /\ \A x : f.via = "stream" /\ HasStream(t, x) => f.n < x
  <1> DEFINE l == Len(s)
  <1>1. /\ l \in Nat \ {0} /\ f = s[1] /\ f \in Frames /\ Len(t) = l - 1
        /\ \A i \in 1 .. l - 1 : t[i] = s[i + 1]
    BY Taken
  <1>2. Has(s, f.n) /\ (f.via = "stream" => HasStream(s, f.n))
    BY <1>1 DEF Has, HasStream
  <1>3. \A i \in 1 .. l - 1 : i + 1 \in 1 .. l /\ i + 1 # 1 /\ 1 < i + 1 /\ 1 \in 1 .. l
    BY <1>1
  <1>4. (\A n : Has(t, n) => Has(s, n)) /\ (\A n : HasStream(t, n) => HasStream(s, n))
    <2> HIDE DEF l
    <2>1. \A i \in 1 .. Len(t) : t[i] = s[i + 1] /\ i + 1 \in 1 .. Len(s)
      BY <1>1, <1>3 DEF l
    <2> QED
      BY <2>1 DEF Has, HasStream
  <1>5. ASSUME Single(s) PROVE Single(t) /\ ~Has(t, f.n)
    <2>2. \A i, j \in 1 .. l : s[i].n = s[j].n => i = j
      BY <1>5 DEF Single
    <2> HIDE DEF l
    <2> QED
      BY <1>1, <1>3, <2>2 DEF Single, Has
  <1>6. ASSUME Asc(s) PROVE Asc(t) /\ \A x : f.via = "stream" /\ HasStream(t, x) => f.n < x
    <2>2. \A i, j \in 1 .. l : i < j /\ s[i].via = "stream" /\ s[j].via = "stream" => s[i].n < s[j].n
      BY <1>6 DEF Asc
    <2> HIDE DEF l
    <2>3. Asc(t)
      BY <1>1, <1>3, <2>2 DEF Asc
    <2>4. \A x : f.via = "stream" /\ HasStream(t, x) => f.n < x
      BY <1>1, <1>3, <2>2 DEF HasStream
    <2> QED
      BY <2>3, <2>4
  <1> QED
    BY <1>1, <1>2, <1>4, <1>5, <1>6

(* The same for the numbers in sendCh ... *)
LEMMA PutNumber ==
    ASSUME NEW s \in Seq(1 .. MaxMedia), NEW m \in 1 .. MaxMedia, NEW t, t = Append(s, m), MaxMedia \in Nat
    PROVE  /\ \A n : HasNum(t, n) <=> HasNum(s, n) \/ n = m
           /\ Rising(s) /\ (\A x \in 1 .. MaxMedia : HasNum(s, x) => x < m) => Rising(t)
  <1> DEFINE l == Len(s)
  <1>1. /\ l \in Nat /\ Len(t) = l + 1 /\ t[l + 1] = m
        /\ \A i \in 1 .. l : t[i] = s[i]
    BY Put
  <1>2. \A i \in 1 .. l : s[i] \in 1 .. MaxMedia
    OBVIOUS
  <1>3. \A i : i \in 1 .. l + 1 <=> i \in 1 .. l \/ i = l + 1
    BY <1>1
  <1>4. ASSUME NEW n PROVE HasNum(t, n) <=> HasNum(s, n) \/ n = m
    <2>1. HasNum(s, n) <=> \E i \in 1 .. l : s[i] = n
      BY DEF HasNum
    <2> HIDE DEF l
    <2> QED
      BY <1>1, <1>3, <2>1 DEF HasNum
  <1>5. ASSUME Rising(s), \A x \in 1 .. MaxMedia : HasNum(s, x) => x < m PROVE Rising(t)
    <2>1. \A i \in 1 .. l : s[i] < m
      BY <1>2, <1>5 DEF HasNum
    <2>2. \A i, j \in 1 .. l : i < j => s[i] < s[j]
      BY <1>5 DEF Rising
    <2> HIDE DEF l
    <2>3. SUFFICES ASSUME NEW i \in 1 .. Len(t), NEW j \in 1 .. Len(t), i < j
                   PROVE  t[i] < t[j]
      BY DEF Rising
    <2>4. i \in 1 .. l
      BY <1>1, <2>3
    <2> QED
      BY <1>1, <1>3, <2>1, <2>2, <2>3, <2>4
  <1> QED
    BY <1>4, <1>5

(* ... and for taking one of them. *)
LEMMA TakenNumber ==
    ASSUME NEW s \in Seq(1 .. MaxMedia), s # << >>, NEW t, t = Tail(s), NEW m, m = Head(s), MaxMedia \in Nat
    PROVE  /\ m \in 1 .. MaxMedia /\ HasNum(s, m)
           /\ \A n : HasNum(t, n) => HasNum(s, n)
           /\ Rising(s) => Rising(t) /\ ~HasNum(t, m) /\ \A x : HasNum(t, x) => m < x
  <1> DEFINE l == Len(s)
  <1>1. /\ l \in Nat \ {0} /\ m = s[1] /\ m \in 1 .. MaxMedia /\ Len(t) = l - 1
        /\ \A i \in 1 .. l - 1 : t[i] = s[i + 1]
    BY Taken
  <1>2. HasNum(s, m)
    BY <1>1 DEF HasNum
  <1>3. \A i \in 1 .. l - 1 : i + 1 \in 1 .. l /\ i + 1 # 1 /\ 1 < i + 1 /\ 1 \in 1 .. l
    BY <1>1
  <1>4. \A n : HasNum(t, n) => HasNum(s, n)
    <2>1. \A i \in 1 .. Len(t) : t[i] = s[i + 1] /\ i + 1 \in 1 .. Len(s)
      BY <1>1, <1>3
    <2> QED
      BY <2>1 DEF HasNum
  <1>5. ASSUME Rising(s) PROVE Rising(t) /\ \A x : HasNum(t, x) => m < x
    <2>2. \A i, j \in 1 .. l : i < j => s[i] < s[j]
      BY <1>5 DEF Rising
    <2> HIDE DEF l
    <2>3. Rising(t)
      BY <1>1, <1>3, <2>2 DEF Rising
    <2>4. \A x : HasNum(t, x) => m < x
      BY <1>1, <1>3, <2>2 DEF HasNum
    <2> QED
      BY <2>3, <2>4
  <1> QED
    BY <1>1, <1>2, <1>4, <1>5

(* Where the frame with number n is: in the queue, the stream, a datagram, *)
(* the delivery or the receiver's queue of call c, or returned there.      *)
At(n, k, c) ==
    \/ k = "send" /\ HasNum(sendCh[c], n)
    \/ k = "data" /\ Has(data[c], n)
    \/ k = "sky" /\ \E d \in datagrams : d.frame.n = n /\ d.frame.call = c
    \/ k \in Paths /\ deliver[c][k] # Idle /\ deliver[c][k].frame.n = n
    \/ k = "recv" /\ Has(recvCh[c], n)
    \/ k = "heard" /\ Has(heard[c], n)
Places == Paths \cup {"send", "data", "sky", "recv", "heard"}
Num == 1 .. MaxMedia

(* A frame is in one place, and has been captured. *)
OnePlace ==
    \A n \in Num, k \in Places, c \in Calls : At(n, k, c) =>
       /\ n <= sent
       /\ \A j \in Places, d \in Calls : At(n, j, d) => j = k /\ d = c

(* ... and there once. *)
Once ==
    /\ \A c \in Calls : Single(recvCh[c]) /\ Single(heard[c])
    /\ \A d, e \in datagrams : d.frame.n = e.frame.n => d = e

HasOf(c) == "of" \in DOMAIN reader[c]
Done(n, c) == HasStream(heard[c], n) \/ HasStream(recvCh[c], n)
Sent(n, c) == At(n, "data", c) \/ At(n, "send", c)

(* The frames of a media stream are in order from the queue they leave to  *)
(* the call that hears them, whatever stream that call reads.              *)
ChainOf(c) ==
   /\ Rising(sendCh[c]) /\ Asc(data[c]) /\ Asc(recvCh[c]) /\ Asc(heard[c])
   /\ \A x, y \in Num :
       /\ At(x, "data", c) /\ At(y, "send", c) => x < y
       /\ HasStream(heard[c], x) /\ HasStream(recvCh[c], y) => x < y
       /\ Done(x, c) /\ At(y, "stream", c) => x < y
       /\ Done(x, c) \/ At(x, "stream", c) =>
             HasOf(c) /\ (Sent(y, reader[c].of) => x < y)
Chain == \A c \in Calls : ChainOf(c)

(* Before there is a transport nobody reads for it. *)
Readers ==
    \A c \in Calls :
        Receiver(c) = "none" /\ c \notin Range(Earlier) => reader[c].state = "none"

Carried == TransportTypeOK /\ ByPath /\ OnePlace /\ Once /\ Chain /\ Readers

(* A step that moves one frame to the place where it is now alone. *)
LEMMA Moved ==
    ASSUME OnePlace, TransportTypeOK, TransportTypeOK', MaxMedia \in Nat,
           NEW m \in Num, NEW b \in Places, NEW d \in Calls, m <= sent', sent' >= sent,
           \A n \in Num, k \in Places, c \in Calls :
               At(n, k, c)' => (n # m /\ At(n, k, c)) \/ (n = m /\ k = b /\ c = d)
    PROVE  OnePlace'
  <1> SUFFICES ASSUME NEW n \in Num, NEW k \in Places, NEW c \in Calls, At(n, k, c)'
               PROVE  /\ n <= sent'
                      /\ \A j \in Places, e \in Calls : At(n, j, e)' => j = k /\ e = c
    BY DEF OnePlace
  <1>1. n \in Nat /\ sent \in Nat /\ sent' \in Nat
    BY DEF Num, TransportTypeOK
  <1>2. CASE n = m
    BY <1>1, <1>2
  <1>3. CASE n # m
    <2>1. At(n, k, c)
      BY <1>3
    <2>2. n <= sent
      BY <2>1 DEF OnePlace
    <2>3. n <= sent'
      BY <1>1, <2>2
    <2> QED
      BY <1>3, <2>1, <2>3 DEF OnePlace
  <1> QED
    BY <1>2, <1>3

(* A step that moves nothing, or drops frames. *)
LEMMA NothingMoved ==
    ASSUME OnePlace, sent' = sent,
           \A n \in Num, k \in Places, c \in Calls : At(n, k, c)' => At(n, k, c)
    PROVE  OnePlace'
  BY DEF OnePlace

(* What the places of a frame are, one by one. *)
LEMMA PlaceIs ==
    ASSUME NEW n, NEW c
    PROVE  /\ At(n, "send", c) <=> HasNum(sendCh[c], n)
           /\ At(n, "data", c) <=> Has(data[c], n)
           /\ At(n, "sky", c) <=> \E d \in datagrams : d.frame.n = n /\ d.frame.call = c
           /\ At(n, "stream", c) <=> deliver[c]["stream"] # Idle /\ deliver[c]["stream"].frame.n = n
           /\ At(n, "datagram", c) <=> deliver[c]["datagram"] # Idle /\ deliver[c]["datagram"].frame.n = n
           /\ At(n, "recv", c) <=> Has(recvCh[c], n)
           /\ At(n, "heard", c) <=> Has(heard[c], n)
  BY DEF At, Paths

(* A frame of the stream is a frame. *)
LEMMA HasOne == ASSUME NEW s, NEW n, HasStream(s, n) PROVE Has(s, n)
  BY DEF Has, HasStream

(* A transport that reads has a stream; one that waits has none. *)
LEMMA ReadStream ==
    ASSUME TransportTypeOK, NEW c \in Calls
    PROVE  /\ HasOf(c) => reader[c].of \in Calls
           /\ Reading(c) => HasOf(c)
           /\ reader[c].state \in {"none", "waiting"} => ~HasOf(c)
  <1>1. CASE reader[c] \in [state : {"none", "waiting", "exited"}]
    <2>1. DOMAIN reader[c] = {"state"} /\ reader[c].state # "reading"
      BY <1>1
    <2> QED
      BY <2>1 DEF HasOf, Reading
  <1>2. CASE reader[c] \in [state : {"reading", "exited"}, of : Calls]
    <2>1. DOMAIN reader[c] = {"state", "of"} /\ reader[c].of \in Calls
      BY <1>2
    <2> QED
      BY <1>2, <2>1 DEF HasOf, Reading
  <1> QED
    BY <1>1, <1>2 DEF TransportTypeOK

(* The types, and the parts of Carried. *)
LEMMA CarriedFacts ==
    ASSUME TransportConstants, Carried
    PROVE  /\ TransportTypeOK /\ ByPath /\ OnePlace /\ Once /\ Chain /\ Readers
           /\ MaxMedia \in Nat /\ sent \in Nat
           /\ sendCh \in [Calls -> Seq(Num)]
           /\ data \in [Calls -> Seq(Frames)]
           /\ recvCh \in [Calls -> Seq(Frames)]
           /\ heard \in [Calls -> Seq(Frames)]
           /\ deliver \in [Calls -> [Paths -> Deliveries]]
           /\ datagrams \subseteq [conn : 1 .. MaxConns, frame : Frames]
  <1>1. TransportTypeOK /\ ByPath /\ OnePlace /\ Once /\ Chain /\ Readers
    BY DEF Carried
  <1>2. MaxMedia \in Nat /\ sent \in 0 .. MaxMedia
    BY <1>1 DEF TransportTypeOK, TransportConstants
  <1>3. sent \in Nat
    BY <1>2
  <1> QED
    BY <1>1, <1>2, <1>3 DEF TransportTypeOK, Num

(* A step that moves a frame from one place to another. *)
LEMMA MovedFrom ==
    ASSUME OnePlace, NEW m \in Num, NEW a \in Places, NEW h \in Calls, At(m, a, h),
           NEW b \in Places, NEW d \in Calls, sent' = sent,
           \A n \in Num, k \in Places, c \in Calls :
               At(n, k, c)' => \/ At(n, k, c) /\ ~(n = m /\ k = a /\ c = h)
                               \/ n = m /\ k = b /\ c = d
    PROVE  OnePlace'
  <1>1. \A n \in Num, k \in Places, c \in Calls :
           At(n, k, c)' => (n # m /\ At(n, k, c)) \/ (n = m /\ k = b /\ c = d)
    BY DEF OnePlace
  <1>2. m <= sent
    BY DEF OnePlace
  <1> SUFFICES ASSUME NEW n \in Num, NEW k \in Places, NEW c \in Calls, At(n, k, c)'
               PROVE  /\ n <= sent'
                      /\ \A j \in Places, e \in Calls : At(n, j, e)' => j = k /\ e = c
    BY DEF OnePlace
  <1>3. CASE n = m
    BY <1>1, <1>2, <1>3
  <1>4. CASE n # m
    BY <1>1, <1>4 DEF OnePlace
  <1> QED
    BY <1>3, <1>4

(* SendMedia: the new frame is later than all others. *)
LEMMA SendStep ==
    ASSUME TransportConstants, Carried, TransportTypeOK', NEW c \in Calls, SendMedia(c)
    PROVE  OnePlace' /\ Once' /\ Chain'
  <1>23. sent \in Nat /\ sent' = sent + 1 /\ sent' \in 0 .. MaxMedia /\ MaxMedia \in Nat
    BY DEF Carried, TransportTypeOK, TransportConstants, SendMedia
  <1>0. /\ MaxMedia \in Nat /\ sent \in Nat /\ sent' = sent + 1 /\ sent' \in Num
        /\ TransportTypeOK /\ OnePlace /\ Once /\ Chain
        /\ sendCh \in [Calls -> Seq(Num)]
        /\ UNCHANGED <<data, datagrams, deliver, recvCh, heard, reader>>
    <2>1. sent' \in Num
      BY <1>23 DEF Num
    <2>2. UNCHANGED <<data, datagrams, deliver, recvCh, heard, reader>>
      BY DEF SendMedia, streamVars, directVars, recvVars
    <2> QED
      BY <1>23, <2>1, <2>2, CarriedFacts
  <1>1. \/ sendCh' = sendCh
        \/ sendCh' = [sendCh EXCEPT ![c] = Append(@, sent')]
    BY DEF SendMedia
  <1>2. \A n \in Num, k \in Places, e \in Calls : At(n, k, e) => n # sent' /\ n < sent'
    BY <1>0 DEF OnePlace, Num
  <1>3. ASSUME NEW e \in Calls
        PROVE  /\ \A n : HasNum(sendCh[e], n)' => HasNum(sendCh[e], n) \/ (n = sent' /\ e = c)
               /\ Rising(sendCh[e])'
    <2>1. Rising(sendCh[e]) /\ \A x \in Num : HasNum(sendCh[e], x) => x < sent'
      BY <1>0, <1>2, PlaceIs DEF Chain, ChainOf, Places
    <2>2. CASE sendCh'[e] = sendCh[e]
      BY <2>1, <2>2
    <2>3. CASE sendCh'[e] = Append(sendCh[e], sent') /\ e = c
      BY <1>0, <2>1, <2>3, PutNumber DEF Num
    <2> QED
      BY <1>0, <1>1, <2>2, <2>3
  <1>4. \A n \in Num, k \in Places, e \in Calls :
           At(n, k, e)' => (n # sent' /\ At(n, k, e)) \/ (n = sent' /\ k = "send" /\ e = c)
    <2>1. SUFFICES ASSUME NEW n \in Num, NEW k \in Places, NEW e \in Calls, At(n, k, e)'
                   PROVE  At(n, k, e) \/ (n = sent' /\ k = "send" /\ e = c)
      BY <1>2
    <2>2. CASE k = "send"
      <3>1. HasNum(sendCh[e], n)'
        BY <2>1, <2>2 DEF At, Paths
      <3>2. HasNum(sendCh[e], n) \/ (n = sent' /\ e = c)
        BY <1>3, <3>1
      <3> QED
        BY <2>2, <3>2 DEF At
    <2>3. CASE k # "send"
      BY <1>0, <2>1, <2>3 DEF At
    <2> QED
      BY <2>2, <2>3
  <1>5. OnePlace'
    <2>1. PICK m \in Num : m = sent'
      BY <1>0
    <2>2. PICK b \in Places : b = "send"
      BY DEF Places
    <2>3. \A n \in Num, k \in Places, e \in Calls :
             At(n, k, e)' => (n # m /\ At(n, k, e)) \/ (n = m /\ k = b /\ e = c)
      BY <1>4, <2>1, <2>2
    <2>4. m <= sent' /\ sent' >= sent
      BY <1>0, <2>1
    <2> QED
      BY <1>0, <2>3, <2>4, Moved
  <1>6. Once'
    BY <1>0 DEF Once
  <1>7. ASSUME NEW e \in Calls PROVE ChainOf(e)'
    <2>1. /\ ChainOf(e) /\ Rising(sendCh[e])'
          /\ \A d \in Calls, y \in Num : At(y, "send", d)' => At(y, "send", d) \/ y = sent'
          /\ \A d \in Calls, y \in Num : At(y, "data", d)' <=> At(y, "data", d)
          /\ \A y \in Num : At(y, "stream", e)' <=> At(y, "stream", e)
          /\ \A y : Done(y, e)' <=> Done(y, e)
          /\ HasOf(e)' <=> HasOf(e)
      <3>1. \A d \in Calls, y \in Num : At(y, "send", d)' => At(y, "send", d) \/ y = sent'
        BY <1>3 DEF At, Paths
      <3>2. \A d \in Calls, y \in Num : At(y, "data", d)' <=> At(y, "data", d)
        BY <1>0 DEF At, Paths
      <3>3. \A y \in Num : At(y, "stream", e)' <=> At(y, "stream", e)
        BY <1>0 DEF At
      <3> QED
        BY <1>0, <1>3, <3>1, <3>2, <3>3 DEF Chain, Done, HasOf
    <2>2. \A x \in Num : Done(x, e) \/ At(x, "data", e) \/ At(x, "stream", e) => x < sent'
      <3> TAKE x \in Num
      <3>1. \A k \in Places : At(x, k, e) => x < sent'
        BY <1>2
      <3>2. {"recv", "heard", "data", "stream"} \subseteq Places
        BY DEF Places, Paths
      <3>3. Done(x, e) => At(x, "heard", e) \/ At(x, "recv", e)
        BY PlaceIs, HasOne DEF Done
      <3> QED
        BY <3>1, <3>2, <3>3
    <2>3. HasOf(e) => reader[e].of \in Calls
      BY <1>0, ReadStream
    <2>4. \A x, y \in Num : At(x, "data", e)' /\ At(y, "send", e)' => x < y
      BY <2>1, <2>2 DEF ChainOf
    <2>5. ASSUME NEW x \in Num, NEW y \in Num, Done(x, e)' \/ At(x, "stream", e)'
          PROVE  HasOf(e)' /\ (Sent(y, reader[e].of)' => x < y)
      BY <1>0, <2>1, <2>2, <2>3, <2>5 DEF ChainOf, Sent
    <2> QED
      BY <1>0, <2>1, <2>4, <2>5 DEF ChainOf
  <1> QED
    BY <1>5, <1>6, <1>7 DEF Chain

(* sendPump moves the oldest frame to the stream or to a datagram, or      *)
(* loses it.                                                               *)
LEMMA PumpStep ==
    ASSUME TransportConstants, Carried, NEW c \in Calls, sendPump(c)
    PROVE  OnePlace' /\ Once' /\ Chain'
  <1>0. /\ TransportTypeOK /\ OnePlace /\ Once /\ Chain /\ MaxMedia \in Nat
        /\ sendCh \in [Calls -> Seq(Num)] /\ data \in [Calls -> Seq(Frames)]
    BY CarriedFacts
  <1>1. /\ sendCh[c] # << >> /\ sendCh' = [sendCh EXCEPT ![c] = Tail(@)]
        /\ UNCHANGED <<sent, deliver, recvCh, heard, reader>>
    BY DEF sendPump, recvVars
  <1>22. PICK m \in Num : m = Head(sendCh[c])
    BY <1>0, <1>1, Taken
  <1> DEFINE f == [call |-> c, n |-> m, via |-> "stream"]
             g == AsDatagram(c, m)
  <1>2. \/ data' = data /\ datagrams' = datagrams
        \/ data' = data /\ datagrams' = datagrams \cup {g}
        \/ data' = [data EXCEPT ![c] = Append(@, f)] /\ datagrams' = datagrams
    BY <1>22 DEF sendPump, Route, SendOnDatagram, SendOnStream
  <1>3. Rising(sendCh[c])
    BY <1>0 DEF Chain, ChainOf
  <1>4. /\ m \in Num /\ HasNum(sendCh[c], m)
        /\ \A n : HasNum(Tail(sendCh[c]), n) => HasNum(sendCh[c], n)
        /\ Rising(Tail(sendCh[c])) /\ ~HasNum(Tail(sendCh[c]), m)
        /\ \A x : HasNum(Tail(sendCh[c]), x) => m < x
    BY <1>0, <1>1, <1>3, <1>22, TakenNumber DEF Num
  <1>5. /\ f \in Frames /\ f.n = m /\ f.via = "stream"
        /\ g.frame.n = m /\ g.frame.call = c /\ At(m, "send", c)
    BY <1>4 DEF Frames, Paths, Num, AsDatagram, At
  <1> HIDE DEF f, g
  <1>6. ASSUME NEW e \in Calls
        PROVE  /\ \A n : HasNum(sendCh[e], n)' => HasNum(sendCh[e], n) /\ ~(n = m /\ e = c)
               /\ Rising(sendCh[e])'
               /\ \A n : HasNum(sendCh[e], n)' /\ e = c => m < n
    <2>1. CASE e = c
      <3>1. sendCh'[e] = Tail(sendCh[c])
        BY <1>0, <1>1, <2>1
      <3> QED
        BY <1>4, <2>1, <3>1
    <2>2. CASE e # c
      BY <1>0, <1>1, <2>2 DEF Chain, ChainOf
    <2> QED
      BY <2>1, <2>2
  <1>7. \A x \in Num : HasStream(data[c], x) => x < m
    BY <1>0, <1>4, <1>5, HasOne, PlaceIs DEF Chain, ChainOf
  <1>8. ASSUME NEW e \in Calls
        PROVE  /\ \A n : Has(data[e], n)' => Has(data[e], n) \/ (n = m /\ e = c /\ data' # data)
               /\ Asc(data[e])'
    <2>1. CASE data'[e] = data[e]
      BY <1>0, <2>1 DEF Chain, ChainOf
    <2>2. CASE data'[e] = Append(data[e], f) /\ e = c /\ data' # data
      <3>1. Asc(data[e]) /\ data[e] \in Seq(Frames)
        BY <1>0 DEF Chain, ChainOf
      <3>2. \A x \in 1 .. MaxMedia : HasStream(data[e], x) => x < f.n
        BY <1>5, <1>7, <2>2 DEF Num
      <3> QED
        BY <1>5, <2>2, <3>1, <3>2, PutFrame
    <2> QED
      BY <1>0, <1>2, <2>1, <2>2
  <1>9. OnePlace'
    <2>1. \A n \in Num, k \in Places, e \in Calls :
             At(n, k, e)' => \/ At(n, k, e) /\ ~(n = m /\ k = "send" /\ e = c)
                             \/ n = m /\ k = "data" /\ e = c /\ data' # data
                             \/ n = m /\ k = "sky" /\ e = c /\ datagrams' # datagrams
      <3> SUFFICES ASSUME NEW n \in Num, NEW k \in Places, NEW e \in Calls, At(n, k, e)'
                   PROVE  \/ At(n, k, e) /\ ~(n = m /\ k = "send" /\ e = c)
                          \/ n = m /\ k = "data" /\ e = c /\ data' # data
                          \/ n = m /\ k = "sky" /\ e = c /\ datagrams' # datagrams
        OBVIOUS
      <3>1. CASE k = "send"
        BY <1>6, <3>1 DEF At, Paths
      <3>2. CASE k = "data"
        BY <1>8, <3>2 DEF At, Paths
      <3>3. CASE k = "sky"
        BY <1>2, <1>5, <3>3 DEF At, Paths
      <3>4. CASE k \in Paths \cup {"recv", "heard"}
        BY <1>1, <3>4 DEF At, Paths
      <3> QED
        BY <3>1, <3>2, <3>3, <3>4 DEF Places
    <2>2. data' = data \/ datagrams' = datagrams
      BY <1>2
    <2>3. /\ {"send", "sky", "data"} \subseteq Places /\ OnePlace /\ m \in Num /\ At(m, "send", c) /\ sent' = sent
      BY <1>0, <1>1, <1>4, <1>5 DEF Places
    <2>4. CASE data' = data
      <3>1. \A n \in Num, k \in Places, e \in Calls :
               At(n, k, e)' => \/ At(n, k, e) /\ ~(n = m /\ k = "send" /\ e = c)
                               \/ n = m /\ k = "sky" /\ e = c
        BY <2>1, <2>4
      <3> QED
        BY <2>3, <3>1, MovedFrom
    <2>5. CASE datagrams' = datagrams
      <3>1. \A n \in Num, k \in Places, e \in Calls :
               At(n, k, e)' => \/ At(n, k, e) /\ ~(n = m /\ k = "send" /\ e = c)
                               \/ n = m /\ k = "data" /\ e = c
        BY <2>1, <2>5
      <3> QED
        BY <2>3, <3>1, MovedFrom
    <2> QED
      BY <2>2, <2>4, <2>5
  <1>10. Once'
    <2>1. ASSUME NEW d \in datagrams PROVE d.frame.n # m
      <3>1. d.frame \in Frames
        BY CarriedFacts
      <3>2. d.frame.call \in Calls /\ d.frame.n \in Num
        BY <3>1 DEF Frames, Num
      <3>3. At(d.frame.n, "sky", d.frame.call)
        BY DEF At
      <3>4. "sky" \in Places /\ "send" \in Places /\ "sky" # "send"
        BY DEF Places
      <3> QED
        BY <1>0, <1>5, <3>2, <3>3, <3>4 DEF OnePlace
    <2> QED
      BY <1>0, <1>1, <1>2, <1>5, <2>1 DEF Once
  <1>11. ASSUME NEW e \in Calls PROVE ChainOf(e)'
    <2>1. /\ ChainOf(e) /\ Rising(sendCh[e])' /\ Asc(data[e])'
          /\ \A y \in Num : At(y, "stream", e)' <=> At(y, "stream", e)
          /\ \A y : Done(y, e)' <=> Done(y, e)
          /\ HasOf(e)' <=> HasOf(e)
      BY <1>0, <1>1, <1>6, <1>8 DEF Chain, Done, HasOf, At
    <2>2. \A x, y \in Num : At(x, "data", e)' /\ At(y, "send", e)' => x < y
      <3> SUFFICES ASSUME NEW x \in Num, NEW y \in Num, At(x, "data", e)', At(y, "send", e)'
                   PROVE  x < y
        OBVIOUS
      <3>1. (At(x, "data", e) \/ (x = m /\ e = c)) /\ At(y, "send", e) /\ (e = c => m < y)
        BY <1>6, <1>8 DEF At, Paths
      <3> QED
        BY <2>1, <3>1 DEF ChainOf
    <2>3. \A y \in Num, d \in Calls : Sent(y, d)' => Sent(y, d)
      <3> TAKE y \in Num, d \in Calls
      <3>1. At(y, "data", d)' => At(y, "data", d) \/ (y = m /\ d = c)
        BY <1>8 DEF At, Paths
      <3>2. At(y, "send", d)' => At(y, "send", d)
        BY <1>6 DEF At, Paths
      <3> QED
        BY <1>5, <3>1, <3>2 DEF Sent
    <2>4. HasOf(e) => reader[e].of \in Calls
      BY <1>0, ReadStream
    <2>5. ASSUME NEW x \in Num, NEW y \in Num, Done(x, e)' \/ At(x, "stream", e)'
          PROVE  HasOf(e)' /\ (Sent(y, reader[e].of)' => x < y)
      <3>1. HasOf(e) /\ (Sent(y, reader[e].of) => x < y) /\ reader'[e].of = reader[e].of
        BY <1>1, <2>1, <2>5 DEF ChainOf
      <3> QED
        BY <1>1, <2>1, <2>3, <2>4, <3>1
    <2> QED
      BY <1>1, <2>1, <2>2, <2>5 DEF ChainOf
  <1> QED
    BY <1>9, <1>10, <1>11 DEF Chain

(* On a media stream every frame is after the first. *)
LEMMA TakenOff ==
    ASSUME ByPath, NEW s \in Calls, data[s] \in Seq(Frames), data[s] # << >>, Asc(data[s]),
           NEW t, t = Tail(data[s]), NEW f, f = Head(data[s])
    PROVE  /\ f \in Frames /\ f.via = "stream" /\ Has(data[s], f.n) /\ Asc(t)
           /\ ~Has(t, f.n)
           /\ \A x : Has(t, x) => Has(data[s], x) /\ f.n < x
  <1>1. /\ Len(data[s]) \in Nat \ {0} /\ f = data[s][1] /\ f \in Frames
        /\ Len(t) = Len(data[s]) - 1
        /\ \A i \in 1 .. Len(t) : t[i] = data[s][i + 1]
    BY Taken
  <1>2. \A i \in 1 .. Len(data[s]) : data[s][i].via = "stream"
    BY DEF ByPath
  <1>3. \A i \in 1 .. Len(t) : t[i].via = "stream"
    BY <1>1, <1>2
  <1>4. f.via = "stream"
    BY <1>1, <1>2
  <1>5. \A x : Has(t, x) => HasStream(t, x)
    BY <1>3 DEF Has, HasStream
  <1>6. /\ Has(data[s], f.n) /\ Asc(t) /\ \A x : Has(t, x) => Has(data[s], x)
        /\ \A x : HasStream(t, x) => f.n < x
    BY <1>4, TakenFrame
  <1>7. f.n \in Nat
    BY <1>1 DEF Frames
  <1>8. ~(f.n < f.n)
    BY <1>7
  <1> QED
    BY <1>1, <1>4, <1>5, <1>6, <1>8

(* recvPumpStream takes the oldest frame of the stream the transport has   *)
(* taken, later than all it has delivered.                                 *)
LEMMA ReadStep ==
    ASSUME TransportConstants, Carried, NEW c \in Calls, recvPumpStream(c)
    PROVE  OnePlace' /\ Once' /\ Chain'
  <1>0. /\ TransportTypeOK /\ ByPath /\ OnePlace /\ Once /\ Chain /\ MaxMedia \in Nat
        /\ data \in [Calls -> Seq(Frames)]
        /\ deliver \in [Calls -> [Paths -> Deliveries]]
    BY CarriedFacts
  <1>1. HasOf(c) /\ reader[c].of \in Calls
    BY <1>0, ReadStream DEF recvPumpStream
  <1>20. PICK s \in Calls : s = reader[c].of
    BY <1>1
  <1>2. /\ data[s] # << >> /\ data' = [data EXCEPT ![s] = Tail(@)]
        /\ deliver[c]["stream"] = Idle
        /\ deliver' = [deliver EXCEPT ![c]["stream"] = [stage |-> "try", frame |-> Head(data[s])]]
        /\ UNCHANGED <<sent, sendCh, datagrams, recvCh, heard, reader>>
    BY <1>20 DEF recvPumpStream, sendVars, directVars
  <1>21. PICK f \in Frames : f = Head(data[s])
    BY <1>0, <1>2, Taken
  <1>3. Asc(data[s]) /\ data[s] \in Seq(Frames)
    BY <1>0 DEF Chain, ChainOf
  <1>4. /\ f.via = "stream" /\ Has(data[s], f.n) /\ Asc(Tail(data[s]))
        /\ ~Has(Tail(data[s]), f.n)
        /\ \A x : Has(Tail(data[s]), x) => Has(data[s], x) /\ f.n < x
    BY <1>0, <1>2, <1>3, <1>21, TakenOff
  <1>22. PICK m \in Num : m = f.n
    BY DEF Frames, Num
  <1>5. ASSUME NEW e \in Calls
        PROVE  /\ \A n : Has(data[e], n)' => Has(data[e], n) /\ ~(n = m /\ e = s) /\ (e = s => m < n)
               /\ Asc(data[e])'
    <2>1. CASE e = s
      <3>1. data'[e] = Tail(data[s])
        BY <1>0, <1>2, <2>1
      <3> QED
        BY <1>4, <1>22, <2>1, <3>1
    <2>2. CASE e # s
      BY <1>0, <1>2, <2>2 DEF Chain, ChainOf
    <2> QED
      BY <2>1, <2>2
  <1>6. At(m, "data", s) /\ ~At(m, "send", s)
    <2>1. At(m, "data", s)
      BY <1>4, <1>22 DEF At
    <2>2. {"data", "send"} \subseteq Places /\ "data" # "send"
      BY DEF Places
    <2> QED
      BY <1>0, <2>1, <2>2 DEF OnePlace
  <1>7. /\ deliver'[c]["stream"] # Idle /\ deliver'[c]["stream"].frame = f
        /\ \A e \in Calls, k \in Paths : ~(e = c /\ k = "stream") => deliver'[e][k] = deliver[e][k]
    <2>1. deliver'[c]["stream"] = [stage |-> "try", frame |-> f]
      BY <1>0, <1>2, <1>21 DEF Paths
    <2>2. [stage |-> "try", frame |-> f] # Idle /\ [stage |-> "try", frame |-> f].frame = f
      BY DEF Idle
    <2> QED
      BY <1>0, <1>2, <2>1, <2>2 DEF Paths
  <1>8. ASSUME NEW y \in Num, NEW e \in Calls
        PROVE  /\ At(y, "send", e)' <=> At(y, "send", e)
               /\ At(y, "data", e)' => At(y, "data", e) /\ ~(y = m /\ e = s) /\ (e = s => m < y)
               /\ At(y, "sky", e)' <=> At(y, "sky", e)
               /\ At(y, "stream", e)' => (e # c /\ At(y, "stream", e)) \/ (e = c /\ y = m)
               /\ At(y, "datagram", e)' <=> At(y, "datagram", e)
               /\ At(y, "recv", e)' <=> At(y, "recv", e)
               /\ At(y, "heard", e)' <=> At(y, "heard", e)
    BY <1>2, <1>5, <1>7, <1>22 DEF At, Paths
  <1>9. OnePlace'
    <2>1. \A n \in Num, k \in Places, e \in Calls :
             At(n, k, e)' => \/ At(n, k, e) /\ ~(n = m /\ k = "data" /\ e = s)
                             \/ n = m /\ k = "stream" /\ e = c
      BY <1>8 DEF Places, Paths
    <2>2. /\ {"data", "stream"} \subseteq Places /\ sent' = sent
      BY <1>2 DEF Places, Paths
    <2> QED
      BY <1>0, <1>6, <2>1, <2>2, MovedFrom
  <1>10. Once'
    BY <1>0, <1>2 DEF Once
  <1>11. ASSUME NEW e \in Calls PROVE ChainOf(e)'
    <2>1. /\ ChainOf(e) /\ ChainOf(c) /\ ChainOf(s) /\ Asc(data[e])'
          /\ \A y : Done(y, e)' <=> Done(y, e)
          /\ HasOf(e)' <=> HasOf(e)
          /\ \A y \in Num, d \in Calls : Sent(y, d)' => Sent(y, d)
      BY <1>0, <1>2, <1>5, <1>8 DEF Chain, Done, HasOf, Sent
    <2>2. \A x, y \in Num : At(x, "data", e)' /\ At(y, "send", e)' => x < y
      BY <1>8, <2>1 DEF ChainOf
    <2>3. ASSUME NEW x \in Num, NEW y \in Num, Done(x, e)', At(y, "stream", e)' PROVE x < y
      <3>1. CASE e # c
        BY <1>8, <2>1, <2>3, <3>1 DEF ChainOf
      <3>2. CASE e = c
        BY <1>6, <1>8, <1>20, <2>1, <2>3, <3>2 DEF ChainOf, Sent
      <3> QED
        BY <3>1, <3>2
    <2>4. HasOf(e) => reader[e].of \in Calls
      BY <1>0, ReadStream
    <2>5. ASSUME NEW x \in Num, NEW y \in Num, Done(x, e)' \/ At(x, "stream", e)'
          PROVE  HasOf(e)' /\ (Sent(y, reader[e].of)' => x < y)
      <3>1. CASE Done(x, e) \/ At(x, "stream", e)
        <4>1. HasOf(e) /\ (Sent(y, reader[e].of) => x < y) /\ reader'[e].of = reader[e].of
          BY <1>2, <2>1, <3>1 DEF ChainOf
        <4> QED
          BY <1>2, <2>1, <2>4, <4>1
      <3>2. CASE e = c /\ x = m
        <4>1. HasOf(e)' /\ reader'[e].of = s
          BY <1>1, <1>2, <1>20, <2>1, <3>2
        <4>2. Sent(y, s)' => m < y
          BY <1>6, <1>8, <2>1 DEF Sent, ChainOf
        <4> QED
          BY <3>2, <4>1, <4>2
      <3> QED
        BY <1>8, <2>1, <2>5, <3>1, <3>2
    <2> QED
      BY <1>2, <2>1, <2>2, <2>3, <2>5 DEF ChainOf
  <1> QED
    BY <1>9, <1>10, <1>11 DEF Chain

(* recvPumpDatagram takes a datagram. *)
LEMMA DatagramStep ==
    ASSUME TransportConstants, Carried, NEW c \in Calls, NEW d \in datagrams, recvPumpDatagram(c, d)
    PROVE  OnePlace' /\ Once' /\ Chain'
  <1>0. /\ TransportTypeOK /\ OnePlace /\ Once /\ Chain /\ d.frame \in Frames
        /\ deliver \in [Calls -> [Paths -> Deliveries]]
    BY CarriedFacts
  <1>1. /\ datagrams' = datagrams \ {d}
        /\ deliver' = [deliver EXCEPT ![c]["datagram"] = [stage |-> "try", frame |-> d.frame]]
        /\ UNCHANGED <<sent, sendCh, data, recvCh, heard, reader>>
    BY DEF recvPumpDatagram, sendVars, streamVars
  <1>22. PICK m \in Num, s \in Calls : m = d.frame.n /\ s = d.frame.call
    BY <1>0 DEF Frames, Num
  <1>2. At(m, "sky", s)
    BY <1>22 DEF At
  <1>3. ASSUME NEW e \in datagrams' PROVE e \in datagrams /\ e.frame.n # m
    BY <1>0, <1>1, <1>3, <1>22 DEF Once
  <1>4. /\ deliver'[c]["datagram"] # Idle /\ deliver'[c]["datagram"].frame.n = m
        /\ \A e \in Calls, k \in Paths : ~(e = c /\ k = "datagram") => deliver'[e][k] = deliver[e][k]
    <2>1. deliver'[c]["datagram"] = [stage |-> "try", frame |-> d.frame]
      BY <1>0, <1>1 DEF Paths
    <2>2. [stage |-> "try", frame |-> d.frame] # Idle /\ [stage |-> "try", frame |-> d.frame].frame = d.frame
      BY DEF Idle
    <2> QED
      BY <1>0, <1>1, <1>22, <2>1, <2>2 DEF Paths
  <1>5. ASSUME NEW y \in Num, NEW e \in Calls
        PROVE  /\ At(y, "send", e)' <=> At(y, "send", e)
               /\ At(y, "data", e)' <=> At(y, "data", e)
               /\ At(y, "sky", e)' => At(y, "sky", e) /\ y # m
               /\ At(y, "stream", e)' <=> At(y, "stream", e)
               /\ At(y, "datagram", e)' => At(y, "datagram", e) \/ (y = m /\ e = c)
               /\ At(y, "recv", e)' <=> At(y, "recv", e)
               /\ At(y, "heard", e)' <=> At(y, "heard", e)
    BY <1>1, <1>3, <1>4 DEF At, Paths
  <1>6. OnePlace'
    <2>1. \A n \in Num, k \in Places, e \in Calls :
             At(n, k, e)' => \/ At(n, k, e) /\ ~(n = m /\ k = "sky" /\ e = s)
                             \/ n = m /\ k = "datagram" /\ e = c
      BY <1>5 DEF Places, Paths
    <2>2. /\ {"sky", "datagram"} \subseteq Places /\ sent' = sent
      BY <1>1 DEF Places, Paths
    <2> QED
      BY <1>0, <1>2, <2>1, <2>2, MovedFrom
  <1>7. Once'
    BY <1>0, <1>1, <1>3 DEF Once
  <1>8. ASSUME NEW e \in Calls PROVE ChainOf(e)'
    <2>1. /\ ChainOf(e) /\ \A y : Done(y, e)' <=> Done(y, e)
          /\ HasOf(e)' <=> HasOf(e)
          /\ \A y \in Num, k \in Calls : Sent(y, k)' <=> Sent(y, k)
      BY <1>0, <1>1, <1>5 DEF Chain, Done, HasOf, Sent
    <2>2. HasOf(e) => reader[e].of \in Calls
      BY <1>0, ReadStream
    <2> QED
      BY <1>1, <1>5, <2>1, <2>2 DEF ChainOf
  <1> QED
    BY <1>6, <1>7, <1>8 DEF Chain

(* A step of the receiver that only drops frames. *)
LEMMA OnlyDropped ==
    ASSUME TransportConstants, Carried,
           UNCHANGED <<sent, sendCh, data, datagrams, heard, reader>>,
           \A c \in Calls, p \in Paths : deliver'[c][p] # Idle =>
               deliver[c][p] # Idle /\ deliver'[c][p].frame = deliver[c][p].frame,
           \A c \in Calls : \/ recvCh'[c] = recvCh[c]
                            \/ recvCh[c] # << >> /\ recvCh'[c] = Tail(recvCh[c])
    PROVE  OnePlace' /\ Once' /\ Chain'
  <1>0. /\ TransportTypeOK /\ OnePlace /\ Once /\ Chain /\ recvCh \in [Calls -> Seq(Frames)]
    BY CarriedFacts
  <1>1. ASSUME NEW e \in Calls
        PROVE  /\ \A n : Has(recvCh[e], n)' => Has(recvCh[e], n)
               /\ \A n : HasStream(recvCh[e], n)' => HasStream(recvCh[e], n)
               /\ Single(recvCh[e])' /\ Asc(recvCh[e])'
    <2>1. Single(recvCh[e]) /\ Asc(recvCh[e]) /\ recvCh[e] \in Seq(Frames)
      BY <1>0 DEF Once, Chain, ChainOf
    <2>2. CASE recvCh'[e] = recvCh[e]
      BY <2>1, <2>2
    <2>3. CASE recvCh[e] # << >> /\ recvCh'[e] = Tail(recvCh[e])
      BY <2>1, <2>3, TakenFrame
    <2> QED
      BY <2>2, <2>3
  <1>2. ASSUME NEW y \in Num, NEW e \in Calls
        PROVE  /\ At(y, "send", e)' <=> At(y, "send", e)
               /\ At(y, "data", e)' <=> At(y, "data", e)
               /\ At(y, "sky", e)' => At(y, "sky", e)
               /\ At(y, "stream", e)' => At(y, "stream", e)
               /\ At(y, "datagram", e)' => At(y, "datagram", e)
               /\ At(y, "recv", e)' => At(y, "recv", e)
               /\ At(y, "heard", e)' <=> At(y, "heard", e)
    BY <1>1 DEF At, Paths
  <1>3. OnePlace'
    <2>1. \A n \in Num, k \in Places, e \in Calls : At(n, k, e)' => At(n, k, e)
      BY <1>2 DEF Places, Paths
    <2> QED
      BY <1>0, <2>1, NothingMoved
  <1>4. Once'
    BY <1>0, <1>1 DEF Once
  <1>5. ASSUME NEW e \in Calls PROVE ChainOf(e)'
    <2>1. /\ ChainOf(e) /\ \A y : Done(y, e)' => Done(y, e)
          /\ HasOf(e)' <=> HasOf(e) /\ reader'[e].of = reader[e].of
          /\ \A y \in Num, k \in Calls : Sent(y, k)' <=> Sent(y, k)
      BY <1>0, <1>1, <1>2 DEF Chain, Done, HasOf, Sent
    <2>2. HasOf(e) => reader[e].of \in Calls
      BY <1>0, ReadStream
    <2> QED
      BY <1>1, <1>2, <2>1, <2>2 DEF ChainOf
  <1> QED
    BY <1>3, <1>4, <1>5 DEF Chain

(* deliverRecv puts the frame into the queue. *)
LEMMA PushedStep ==
    ASSUME TransportConstants, Carried, NEW c \in Calls, NEW p \in Paths, Pushed(c, p),
           deliver[c][p] # Idle, deliver[c][p].frame \in Frames
    PROVE  OnePlace' /\ Once' /\ Chain'
  <1>0. /\ TransportTypeOK /\ ByPath /\ OnePlace /\ Once /\ Chain /\ recvCh \in [Calls -> Seq(Frames)]
        /\ deliver \in [Calls -> [Paths -> Deliveries]]
    BY CarriedFacts
  <1>21. PICK f \in Frames : f = deliver[c][p].frame
    OBVIOUS
  <1>22. PICK m \in Num : m = f.n
    BY DEF Frames, Num
  <1>1. /\ recvCh' = [recvCh EXCEPT ![c] = Append(@, f)]
        /\ deliver' = [deliver EXCEPT ![c][p] = Idle]
        /\ UNCHANGED <<sent, sendCh, data, datagrams, heard, reader>>
    BY <1>21 DEF Pushed, Over
  <1>2. At(m, p, c) /\ f.via = p
    BY <1>0, <1>21, <1>22 DEF At, ByPath
  <1>3. ~At(m, "recv", c)
    <2>1. {p, "recv"} \subseteq Places /\ p # "recv"
      BY DEF Places, Paths
    <2> QED
      BY <1>0, <1>2, <2>1 DEF OnePlace
  <1>4. \A x \in Num : f.via = "stream" /\ Done(x, c) => x < m
    BY <1>0, <1>2 DEF Chain, ChainOf
  <1>5. ASSUME NEW e \in Calls
        PROVE  /\ \A n : Has(recvCh[e], n)' => Has(recvCh[e], n) \/ (e = c /\ n = m)
               /\ \A n : HasStream(recvCh[e], n)' =>
                           HasStream(recvCh[e], n) \/ (e = c /\ n = m /\ f.via = "stream")
               /\ Single(recvCh[e])' /\ Asc(recvCh[e])'
    <2>1. Single(recvCh[e]) /\ Asc(recvCh[e]) /\ recvCh[e] \in Seq(Frames)
      BY <1>0 DEF Once, Chain, ChainOf
    <2>2. CASE e # c
      BY <1>0, <1>1, <2>1, <2>2
    <2>3. CASE e = c
      <3>1. recvCh'[e] = Append(recvCh[e], f)
        BY <1>0, <1>1, <2>3
      <3>2. ~Has(recvCh[e], f.n)
        BY <1>3, <1>22, <2>3, PlaceIs
      <3>3. f.via = "stream" => \A x \in 1 .. MaxMedia : HasStream(recvCh[e], x) => x < f.n
        BY <1>4, <1>22, <2>3 DEF Done, Num
      <3> QED
        BY <1>22, <2>1, <2>3, <3>1, <3>2, <3>3, PutFrame
    <2> QED
      BY <2>2, <2>3
  <1>6. /\ deliver'[c][p] = Idle
        /\ \A e \in Calls, k \in Paths : ~(e = c /\ k = p) => deliver'[e][k] = deliver[e][k]
    BY <1>0, <1>1
  <1>7. ASSUME NEW y \in Num, NEW e \in Calls
        PROVE  /\ At(y, "send", e)' <=> At(y, "send", e)
               /\ At(y, "data", e)' <=> At(y, "data", e)
               /\ At(y, "sky", e)' => At(y, "sky", e)
               /\ At(y, "stream", e)' => At(y, "stream", e) /\ ~(e = c /\ p = "stream")
               /\ At(y, "datagram", e)' => At(y, "datagram", e) /\ ~(e = c /\ p = "datagram")
               /\ At(y, "recv", e)' => At(y, "recv", e) \/ (e = c /\ y = m)
               /\ At(y, "heard", e)' <=> At(y, "heard", e)
    BY <1>1, <1>5, <1>6 DEF At, Paths
  <1>8. OnePlace'
    <2>1. \A n \in Num, k \in Places, e \in Calls :
             At(n, k, e)' => \/ At(n, k, e) /\ ~(n = m /\ k = p /\ e = c)
                             \/ n = m /\ k = "recv" /\ e = c
      BY <1>7 DEF Places, Paths
    <2>2. /\ {p, "recv"} \subseteq Places /\ sent' = sent
      BY <1>1 DEF Places, Paths
    <2> QED
      BY <1>0, <1>2, <2>1, <2>2, MovedFrom
  <1>9. Once'
    BY <1>0, <1>1, <1>5 DEF Once
  <1>10. ASSUME NEW e \in Calls PROVE ChainOf(e)'
    <2>1. /\ ChainOf(e) /\ \A y : Done(y, e)' => Done(y, e) \/ (e = c /\ y = m /\ p = "stream")
          /\ HasOf(e)' <=> HasOf(e) /\ reader'[e].of = reader[e].of
          /\ \A y \in Num, k \in Calls : Sent(y, k)' <=> Sent(y, k)
      BY <1>0, <1>1, <1>2, <1>5, <1>7 DEF Chain, Done, HasOf, Sent
    <2>2. HasOf(e) => reader[e].of \in Calls
      BY <1>0, ReadStream
    <2>3. \A x, y \in Num : HasStream(heard[e], x)' /\ HasStream(recvCh[e], y)' => x < y
      BY <1>1, <1>4, <1>5, <2>1 DEF ChainOf, Done
    <2>4. \A x, y \in Num : Done(x, e)' /\ At(y, "stream", e)' => x < y
      BY <1>7, <2>1 DEF ChainOf
    <2>5. ASSUME NEW x \in Num, NEW y \in Num, Done(x, e)' \/ At(x, "stream", e)'
          PROVE  HasOf(e)' /\ (Sent(y, reader[e].of)' => x < y)
      <3>1. Done(x, e) \/ At(x, "stream", e)
        BY <1>2, <1>7, <2>1, <2>5
      <3>2. HasOf(e) /\ (Sent(y, reader[e].of) => x < y)
        BY <2>1, <3>1 DEF ChainOf
      <3> QED
        BY <1>1, <2>1, <2>2, <3>2
    <2> QED
      BY <1>1, <1>5, <1>7, <2>1, <2>3, <2>4, <2>5 DEF ChainOf
  <1> QED
    BY <1>8, <1>9, <1>10 DEF Chain

(* deliverRecv in all its forms. *)
LEMMA DeliverStep ==
    ASSUME TransportConstants, Carried, NEW c \in Calls, NEW p \in Paths, deliverRecv(c, p)
    PROVE  OnePlace' /\ Once' /\ Chain'
  <1>0. /\ TransportTypeOK /\ recvCh \in [Calls -> Seq(Frames)]
        /\ deliver \in [Calls -> [Paths -> Deliveries]]
    BY CarriedFacts
  <1>1. /\ deliver[c][p] \in [stage : {"try", "evict", "retry"}, frame : Frames]
        /\ Pushed(c, p) \/ FoundFull(c, p) \/ Evicted(c, p) \/ GivenUp(c, p)
    BY <1>0, DeliverForms
  <1>2. deliver[c][p] # Idle /\ deliver[c][p].frame \in Frames
    BY <1>1 DEF Idle
  <1>3. \A st \in {"evict", "retry"} : [deliver[c][p] EXCEPT !.stage = st].frame = deliver[c][p].frame
    BY <1>1
  <1>4. CASE Pushed(c, p)
    BY <1>2, <1>4, PushedStep
  <1>5. CASE FoundFull(c, p) \/ Evicted(c, p) \/ GivenUp(c, p)
    <2>1. UNCHANGED <<sent, sendCh, data, datagrams, heard, reader>>
      BY <1>5 DEF FoundFull, Evicted, GivenUp, Same, Over
    <2>2. \/ deliver' = [deliver EXCEPT ![c][p] = Idle]
          \/ \E st \in {"evict", "retry"} :
                deliver' = [deliver EXCEPT ![c][p] = [deliver[c][p] EXCEPT !.stage = st]]
      BY <1>5 DEF FoundFull, Evicted, GivenUp, Same, Over
    <2>3. ASSUME NEW e \in Calls, NEW k \in Paths, deliver'[e][k] # Idle
          PROVE  deliver[e][k] # Idle /\ deliver'[e][k].frame = deliver[e][k].frame
      <3>1. CASE ~(e = c /\ k = p)
        <4>1. deliver'[e][k] = deliver[e][k]
          BY <1>0, <2>2, <3>1
        <4> QED
          BY <2>3, <4>1
      <3>2. CASE e = c /\ k = p
        <4>1. \/ deliver'[c][p] = Idle
              \/ \E st \in {"evict", "retry"} : deliver'[c][p] = [deliver[c][p] EXCEPT !.stage = st]
          BY <1>0, <2>2
        <4> QED
          BY <1>2, <1>3, <2>3, <3>2, <4>1
      <3> QED
        BY <3>1, <3>2
    <2>4. \A e \in Calls : \/ recvCh'[e] = recvCh[e]
                           \/ recvCh[e] # << >> /\ recvCh'[e] = Tail(recvCh[e])
      BY <1>0, <1>5 DEF FoundFull, Evicted, GivenUp
    <2> QED
      BY <2>1, <2>3, <2>4, OnlyDropped
  <1> QED
    BY <1>1, <1>4, <1>5

(* RecvMedia returns the oldest frame of the queue. *)
LEMMA HeardStep ==
    ASSUME TransportConstants, Carried, NEW c \in Calls, RecvMedia(c)
    PROVE  OnePlace' /\ Once' /\ Chain'
  <1>0. /\ TransportTypeOK /\ OnePlace /\ Once /\ Chain /\ recvCh \in [Calls -> Seq(Frames)]
        /\ heard \in [Calls -> Seq(Frames)]
    BY CarriedFacts
  <1>1. /\ recvCh[c] # << >> /\ recvCh' = [recvCh EXCEPT ![c] = Tail(@)]
        /\ heard' = [heard EXCEPT ![c] = Append(@, Head(recvCh[c]))]
        /\ UNCHANGED <<sent, sendCh, data, datagrams, deliver, reader>>
    BY DEF RecvMedia, sendVars, streamVars, directVars
  <1>21. PICK f \in Frames : f = Head(recvCh[c])
    BY <1>0, <1>1, Taken
  <1>22. PICK m \in Num : m = f.n
    BY DEF Frames, Num
  <1>2. Single(recvCh[c]) /\ Asc(recvCh[c]) /\ recvCh[c] \in Seq(Frames)
    BY <1>0 DEF Once, Chain, ChainOf
  <1>3. /\ Has(recvCh[c], m) /\ (f.via = "stream" => HasStream(recvCh[c], m))
        /\ \A n : Has(Tail(recvCh[c]), n) => Has(recvCh[c], n)
        /\ \A n : HasStream(Tail(recvCh[c]), n) => HasStream(recvCh[c], n)
        /\ Single(Tail(recvCh[c])) /\ ~Has(Tail(recvCh[c]), m) /\ Asc(Tail(recvCh[c]))
        /\ \A x : f.via = "stream" /\ HasStream(Tail(recvCh[c]), x) => m < x
    BY <1>1, <1>2, <1>21, <1>22, TakenFrame
  <1>4. At(m, "recv", c)
    BY <1>3 DEF At
  <1>5. ~At(m, "heard", c)
    <2>1. {"recv", "heard"} \subseteq Places /\ "recv" # "heard"
      BY DEF Places
    <2> QED
      BY <1>0, <1>4, <2>1 DEF OnePlace
  <1>6. ASSUME NEW e \in Calls
        PROVE  /\ \A n : Has(recvCh[e], n)' => Has(recvCh[e], n) /\ ~(e = c /\ n = m)
               /\ \A n : HasStream(recvCh[e], n)' =>
                           HasStream(recvCh[e], n) /\ (e = c /\ f.via = "stream" => m < n)
               /\ Single(recvCh[e])' /\ Asc(recvCh[e])'
    <2>1. CASE e = c
      <3>1. recvCh'[e] = Tail(recvCh[c])
        BY <1>0, <1>1, <2>1
      <3> QED
        BY <1>3, <2>1, <3>1
    <2>2. CASE e # c
      BY <1>0, <1>1, <2>2 DEF Once, Chain, ChainOf
    <2> QED
      BY <2>1, <2>2
  <1>7. ASSUME NEW e \in Calls
        PROVE  /\ \A n : Has(heard[e], n)' => Has(heard[e], n) \/ (e = c /\ n = m)
               /\ \A n : HasStream(heard[e], n)' =>
                           HasStream(heard[e], n) \/ (e = c /\ n = m /\ f.via = "stream")
               /\ Single(heard[e])' /\ Asc(heard[e])'
    <2>1. Single(heard[e]) /\ Asc(heard[e]) /\ heard[e] \in Seq(Frames)
      BY <1>0 DEF Once, Chain, ChainOf
    <2>2. CASE e # c
      BY <1>0, <1>1, <2>1, <2>2
    <2>3. CASE e = c
      <3>1. heard'[e] = Append(heard[e], f)
        BY <1>0, <1>1, <1>21, <2>3
      <3>2. ~Has(heard[e], f.n)
        BY <1>5, <1>22, <2>3, PlaceIs
      <3>3. f.via = "stream" => \A x \in 1 .. MaxMedia : HasStream(heard[e], x) => x < f.n
        BY <1>0, <1>3, <1>22, <2>3 DEF Chain, ChainOf, Num
      <3> QED
        BY <1>22, <2>1, <2>3, <3>1, <3>2, <3>3, PutFrame
    <2> QED
      BY <2>2, <2>3
  <1>8. ASSUME NEW y \in Num, NEW e \in Calls
        PROVE  /\ At(y, "send", e)' <=> At(y, "send", e)
               /\ At(y, "data", e)' <=> At(y, "data", e)
               /\ At(y, "sky", e)' <=> At(y, "sky", e)
               /\ At(y, "stream", e)' <=> At(y, "stream", e)
               /\ At(y, "datagram", e)' <=> At(y, "datagram", e)
               /\ At(y, "recv", e)' => At(y, "recv", e) /\ ~(e = c /\ y = m)
               /\ At(y, "heard", e)' => At(y, "heard", e) \/ (e = c /\ y = m)
    BY <1>1, <1>6, <1>7 DEF At, Paths
  <1>9. OnePlace'
    <2>1. \A n \in Num, k \in Places, e \in Calls :
             At(n, k, e)' => \/ At(n, k, e) /\ ~(n = m /\ k = "recv" /\ e = c)
                             \/ n = m /\ k = "heard" /\ e = c
      BY <1>8 DEF Places, Paths
    <2>2. /\ {"recv", "heard"} \subseteq Places /\ sent' = sent
      BY <1>1 DEF Places, Paths
    <2> QED
      BY <1>0, <1>4, <2>1, <2>2, MovedFrom
  <1>10. Once'
    BY <1>0, <1>1, <1>6, <1>7 DEF Once
  <1>11. ASSUME NEW e \in Calls PROVE ChainOf(e)'
    <2>1. /\ ChainOf(e) /\ \A y : Done(y, e)' => Done(y, e)
          /\ HasOf(e)' <=> HasOf(e) /\ reader'[e].of = reader[e].of
          /\ \A y \in Num, k \in Calls : Sent(y, k)' <=> Sent(y, k)
      BY <1>0, <1>1, <1>3, <1>6, <1>7, <1>8 DEF Chain, Done, HasOf, Sent
    <2>2. HasOf(e) => reader[e].of \in Calls
      BY <1>0, ReadStream
    <2>3. \A x, y \in Num : HasStream(heard[e], x)' /\ HasStream(recvCh[e], y)' => x < y
      BY <1>6, <1>7, <2>1 DEF ChainOf
    <2> QED
      BY <1>1, <1>6, <1>7, <1>8, <2>1, <2>2, <2>3 DEF ChainOf
  <1> QED
    BY <1>9, <1>10, <1>11 DEF Chain

(* A transport keeps the stream it has taken. *)
LEMMA ReaderStep ==
    ASSUME TransportConstants, TransportTypeOK, Readers, [TransportNext]_transportVars
    PROVE  /\ Readers'
           /\ \A c \in Calls : HasOf(c) => HasOf(c)' /\ reader'[c].of = reader[c].of
  <1> DEFINE Kept == \A c \in Calls : HasOf(c) => HasOf(c)' /\ reader'[c].of = reader[c].of
  <1>0. /\ reader \in [Calls -> [state : {"none", "waiting", "exited"}]
                                        \cup [state : {"reading", "exited"}, of : Calls]]
        /\ transport \in [Ends -> [Calls -> {"none", "open", "closed"}]]
    BY DEF TransportTypeOK
  <1>1. ASSUME NEW k \in Calls, NewReceiver(k) PROVE Readers' /\ Kept
    <2>1. /\ transport' = [transport EXCEPT !["receiver"][k] = "open"]
          /\ reader' = [reader EXCEPT ![k] = [state |-> "waiting"]] /\ reader[k].state = "none"
      BY <1>1 DEF NewReceiver, Readers
    <2>2. ~HasOf(k)
      BY <2>1, ReadStream
    <2>3. transport'["receiver"][k] = "open"
      BY <1>0, <2>1 DEF Ends
    <2>4. \A c \in Calls : c # k => reader'[c] = reader[c] /\ transport'["receiver"][c] = transport["receiver"][c]
      BY <1>0, <2>1 DEF Ends
    <2> QED
      BY <2>2, <2>3, <2>4 DEF Readers, HasOf, Receiver
  <1>2. ASSUME NEW k \in Calls, TakeStream(k) PROVE Readers' /\ Kept
    <2>1. /\ transport' = transport /\ reader[k].state = "waiting"
          /\ reader' = [reader EXCEPT ![k] = [state |-> "reading", of |-> Head(inbound)]]
      BY <1>2 DEF TakeStream
    <2>2. ~HasOf(k)
      BY <2>1, ReadStream
    <2>3. \A c \in Calls : c # k => reader'[c] = reader[c]
      BY <1>0, <2>1
    <2> QED
      BY <2>1, <2>2, <2>3 DEF Readers, HasOf, Receiver
  <1>3. ASSUME NEW k \in Calls, ReaderExits(k) PROVE Readers' /\ Kept
    <2>1. /\ transport' = transport /\ reader[k].state # "none"
          /\ reader' = [reader EXCEPT ![k] = [reader[k] EXCEPT !.state = "exited"]]
      BY <1>3 DEF ReaderExits
    <2>2. /\ DOMAIN [reader[k] EXCEPT !.state = "exited"] = DOMAIN reader[k]
          /\ HasOf(k) => [reader[k] EXCEPT !.state = "exited"].of = reader[k].of
      BY DEF HasOf
    <2>3. /\ reader'[k] = [reader[k] EXCEPT !.state = "exited"]
          /\ \A c \in Calls : c # k => reader'[c] = reader[c]
      BY <1>0, <2>1
    <2> QED
      BY <2>1, <2>2, <2>3 DEF Readers, HasOf, Receiver
  <1>4. ASSUME reader' = reader,
               \A c \in Calls : transport'["receiver"][c] = "none" => transport["receiver"][c] = "none"
        PROVE  Readers' /\ Kept
    BY <1>4 DEF Readers, HasOf, Receiver
  <1>5. ASSUME NEW k \in Calls, NewSender(k) PROVE Readers' /\ Kept
    <2>1. reader' = reader /\ transport' = [transport EXCEPT !["sender"][k] = "open"]
      BY <1>5 DEF NewSender
    <2> QED
      BY <1>0, <1>4, <2>1 DEF Ends
  <1>6. ASSUME NEW k \in Calls, NEW e \in Ends, Close(e, k) PROVE Readers' /\ Kept
    <2>1. reader' = reader /\ transport' = [transport EXCEPT ![e][k] = "closed"]
      BY <1>6 DEF Close
    <2>2. ASSUME NEW c \in Calls, transport'["receiver"][c] = "none"
          PROVE  transport["receiver"][c] = "none"
      BY <1>0, <2>1, <2>2 DEF Ends
    <2> QED
      BY <1>4, <2>1, <2>2
  <1>7. ASSUME UNCHANGED <<reader, transport>> PROVE Readers' /\ Kept
    BY <1>4, <1>7
  <1>8. ASSUME NEW k \in Calls, Goroutine(k), ~TakeStream(k), ~ReaderExits(k)
        PROVE  UNCHANGED <<reader, transport>>
    BY <1>8 DEF Goroutine, sendPump, sendPumpExits, recvPumpStream, recvPumpDatagramExits,
       recvPumpDatagram, tryAttachDatagram, datagramWatcherExits, registerProto, deliverRecv
  <1>9. ASSUME NEW k \in Calls, User(k), ~NewSender(k), ~NewReceiver(k), ~\E e \in Ends : Close(e, k)
        PROVE  UNCHANGED <<reader, transport>>
    BY <1>9 DEF User, SendMedia, RecvMedia
  <1>10. ASSUME Network \/ UNCHANGED transportVars PROVE UNCHANGED <<reader, transport>>
    BY <1>10 DEF Network, DirectUp, DirectDown, transportVars
  <1> HIDE DEF Kept
  <1>11. Readers' /\ Kept
    <2>1. ASSUME NEW k \in Calls, Goroutine(k) PROVE Readers' /\ Kept
      BY <1>2, <1>3, <1>7, <1>8, <2>1
    <2>2. ASSUME NEW k \in Calls, User(k) PROVE Readers' /\ Kept
      BY <1>1, <1>5, <1>6, <1>7, <1>9, <2>2
    <2>3. CASE Network \/ UNCHANGED transportVars
      BY <1>7, <1>10, <2>3
    <2> QED
      BY <2>1, <2>2, <2>3 DEF TransportNext
  <1> QED
    BY <1>11 DEF Kept

(* The steps that move no frame; a transport may take a stream. *)
LEMMA RestStep ==
    ASSUME TransportConstants, Carried, [TransportNext]_transportVars, UNCHANGED FrameVars
    PROVE  OnePlace' /\ Once' /\ Chain'
  <1>0. TransportTypeOK /\ OnePlace /\ Once /\ Chain /\ Readers
    BY CarriedFacts
  <1>1. \A n, k, c : At(n, k, c)' <=> At(n, k, c)
    BY DEF At, FrameVars
  <1>2. OnePlace' /\ Once'
    BY <1>0, <1>1 DEF OnePlace, Once, FrameVars
  <1>3. \A c \in Calls : HasOf(c) => HasOf(c)' /\ reader'[c].of = reader[c].of
    BY <1>0, ReaderStep
  <1>4. ASSUME NEW e \in Calls PROVE ChainOf(e)'
    <2>1. /\ ChainOf(e) /\ \A y : Done(y, e)' <=> Done(y, e)
          /\ \A y, k : Sent(y, k)' <=> Sent(y, k)
          /\ UNCHANGED <<sendCh, data, recvCh, heard>>
      BY <1>0, <1>1 DEF Chain, Done, Sent, FrameVars
    <2>2. ASSUME NEW x \in Num, NEW y \in Num, Done(x, e)' \/ At(x, "stream", e)'
          PROVE  HasOf(e)' /\ (Sent(y, reader[e].of)' => x < y)
      <3>1. HasOf(e) /\ (Sent(y, reader[e].of) => x < y)
        BY <1>1, <2>1, <2>2 DEF ChainOf
      <3> QED
        BY <1>3, <2>1, <3>1
    <2> QED
      BY <1>1, <2>1, <2>2 DEF ChainOf
  <1> QED
    BY <1>2, <1>4 DEF Chain

(* Every step keeps each frame in one place and the stream in order. *)
LEMMA CarriedStep ==
    ASSUME TransportConstants
    PROVE  Carried /\ [TransportNext]_transportVars => Carried'
  <1> SUFFICES ASSUME Carried, [TransportNext]_transportVars PROVE Carried'
    OBVIOUS
  <1>0. TransportTypeOK /\ ByPath /\ Readers
    BY DEF Carried
  <1>1. TransportTypeOK' /\ ByPath' /\ Readers'
    BY <1>0, TransportTypeStep, ByPathStep, ReaderStep
  <1>2. OnePlace' /\ Once' /\ Chain'
    BY <1>1, TransportSteps, SendStep, PumpStep, ReadStep, DatagramStep, DeliverStep, HeardStep, RestStep
  <1> QED
    BY <1>1, <1>2 DEF Carried

(* An empty queue has no frames. *)
LEMMA EmptyQueue ==
    /\ \A n : ~Has(<< >>, n) /\ ~HasStream(<< >>, n) /\ ~HasNum(<< >>, n)
    /\ Single(<< >>) /\ Asc(<< >>) /\ Rising(<< >>)
  BY DEF Has, HasStream, HasNum, Single, Asc, Rising

(* At the start there are at most the frames of earlier calls, one on each *)
(* stream.                                                                 *)
LEMMA CarriedInit == ASSUME TransportConstants PROVE TransportInit => Carried
  <1> SUFFICES ASSUME TransportInit PROVE Carried
    OBVIOUS
  <1>1. TransportTypeOK
    BY TransportTypeInit
  <1>2. PICK queue \in {<< >>, Earlier} : InitWith(queue)
    BY DEF TransportInit
  <1>3. Range(queue) \subseteq Range(Earlier) /\ (Range(queue) # {} => queue = Earlier)
    <2>1. Range(<< >>) = {}
      BY DEF Range
    <2> QED
      BY <2>1
  <1>4. \A c \in Calls : /\ sendCh[c] = << >> /\ recvCh[c] = << >> /\ heard[c] = << >>
                          /\ \A p \in Paths : deliver[c][p] = Idle
    <2>1. /\ sendCh = [c \in Calls |-> << >>] /\ recvCh = [c \in Calls |-> << >>]
          /\ heard = [c \in Calls |-> << >>]
          /\ deliver = [c \in Calls |-> [p \in Paths |-> Idle]]
      BY DEF TransportInit
    <2> QED
      BY <2>1, Zenon
  <1>24. \A c \in Calls : data[c] = << >> \/ (c \in Range(queue) /\ data[c] = <<Left(c)>>)
    <2>1. data = [c \in Calls |-> IF c \in Range(queue) THEN <<Left(c)>> ELSE << >>]
      BY <1>2 DEF InitWith
    <2> QED
      BY <2>1, Zenon
  <1>5. datagrams = {} /\ sent = Len(queue)
    BY <1>2 DEF TransportInit, InitWith
  <1>6. ASSUME NEW c \in Calls, NEW n, Has(data[c], n)
        PROVE  c \in Range(queue) /\ n = Left(c).n
    <2>1. c \in Range(queue) /\ data[c] = <<Left(c)>>
      BY <1>24, <1>6, EmptyQueue
    <2>2. Len(<<Left(c)>>) = 1 /\ <<Left(c)>>[1] = Left(c)
      OBVIOUS
    <2> QED
      BY <1>6, <2>1, <2>2 DEF Has
  <1>7. \A n \in Num, k \in Places, c \in Calls : At(n, k, c) => k = "data" /\ Has(data[c], n)
    BY <1>4, <1>5, EmptyQueue DEF At
  <1>8. OnePlace
    <2> SUFFICES ASSUME NEW n \in Num, NEW k \in Places, NEW c \in Calls, At(n, k, c),
                        NEW j \in Places, NEW d \in Calls
                 PROVE  n <= sent /\ (At(n, j, d) => j = k /\ d = c)
      BY DEF OnePlace
    <2>1. /\ k = "data" /\ c \in Range(queue) /\ n = Left(c).n
          /\ At(n, j, d) => j = "data" /\ d \in Range(queue) /\ n = Left(d).n
      BY <1>6, <1>7
    <2>2. queue = Earlier /\ c \in Range(Earlier)
      BY <1>3, <2>1
    <2>3. /\ n \in 1 .. Len(Earlier) /\ Earlier[n] = c /\ Len(Earlier) \in Nat
          /\ At(n, j, d) => Earlier[n] = d
      BY <1>3, <2>1, <2>2, LeftBehind
    <2> QED
      BY <1>5, <2>1, <2>2, <2>3
  <1>9. Once
    BY <1>4, <1>5, EmptyQueue DEF Once
  <1>10. ASSUME NEW c \in Calls PROVE ChainOf(c)
    <2>1. Asc(data[c])
      <3>1. Len(<<Left(c)>>) = 1
        OBVIOUS
      <3>2. Asc(<<Left(c)>>)
        BY <3>1 DEF Asc
      <3> QED
        BY <1>24, <3>2, EmptyQueue
    <2>2. \A x : ~Done(x, c)
      BY <1>4, EmptyQueue DEF Done
    <2>3. \A x \in Num : ~At(x, "send", c) /\ ~At(x, "stream", c)
      BY <1>7 DEF Places, Paths
    <2> QED
      BY <1>4, <2>1, <2>2, <2>3, EmptyQueue DEF ChainOf
  <1>11. ByPath
    <2>1. ASSUME NEW c \in Calls, NEW i \in 1 .. Len(data[c]) PROVE data[c][i].via = "stream"
      <3>1. Left(c).via = "stream"
        BY DEF Left
      <3>2. Len(<< >>) = 0 /\ Len(<<Left(c)>>) = 1 /\ <<Left(c)>>[1] = Left(c)
        OBVIOUS
      <3>3. CASE data[c] = << >>
        BY <2>1, <3>2, <3>3
      <3>4. CASE data[c] = <<Left(c)>>
        BY <2>1, <3>1, <3>2, <3>4
      <3> QED
        BY <1>24, <3>3, <3>4
    <2> QED
      BY <1>4, <1>5, <2>1 DEF ByPath
  <1>12. Readers
    BY <1>2 DEF InitWith, Readers, Receiver, Ends
  <1> QED
    BY <1>1, <1>8, <1>9, <1>10, <1>11, <1>12 DEF Carried, Chain

(* For any number of calls, frames, connections and capacities: RecvMedia  *)
(* never returns a frame twice, over all calls, and returns the frames of  *)
(* a media stream in the order they were sent, also when the transport has *)
(* taken the stream of an earlier call.                                    *)
THEOREM HeardInOrder == TransportSpec => [](TransportTypeOK /\ HeardOnceInOrder)
  <1> TransportConstants
    BY TransportAssumption
  <1>1. TransportInit => Carried
    BY CarriedInit
  <1>2. Carried /\ [TransportNext]_transportVars => Carried'
    BY CarriedStep
  <1>3. Carried => TransportTypeOK /\ HeardOnceInOrder
    <2> SUFFICES ASSUME Carried PROVE HeardOnceInOrder
      BY DEF Carried
    <2>0. OnePlace /\ Once /\ Chain /\ heard \in [Calls -> Seq(Frames)]
      BY CarriedFacts
    <2> SUFFICES ASSUME NEW g \in Heard, NEW h \in Heard, g # h
                 PROVE  /\ FrameAt(g).n # FrameAt(h).n
                        /\ SameStream(g, h) /\ g[2] < h[2] => FrameAt(g).n < FrameAt(h).n
      BY DEF HeardOnceInOrder
    <2>1. \A x \in Heard : /\ x[1] \in Calls /\ x[2] \in Nat /\ x[2] \in 1 .. Len(heard[x[1]])
                             /\ x = <<x[1], x[2]>> /\ heard[x[1]][x[2]] \in Frames
      <3> SUFFICES ASSUME NEW x \in Heard
                   PROVE  /\ x[1] \in Calls /\ x[2] \in Nat /\ x[2] \in 1 .. Len(heard[x[1]])
                          /\ x = <<x[1], x[2]>> /\ heard[x[1]][x[2]] \in Frames
        OBVIOUS
      <3>1. /\ x \in Calls \X (1 .. MaxMedia) /\ x[2] <= Len(heard[x[1]])
        BY DEF Heard
      <3>2. x[1] \in Calls /\ x[2] \in 1 .. MaxMedia /\ x = <<x[1], x[2]>>
        BY <3>1
      <3>3. heard[x[1]] \in Seq(Frames) /\ Len(heard[x[1]]) \in Nat
        BY <2>0, <3>2
      <3>4. x[2] \in Nat /\ x[2] \in 1 .. Len(heard[x[1]])
        BY <3>1, <3>2, <3>3
      <3> QED
        BY <3>2, <3>3, <3>4
    <2>2. FrameAt(g).n # FrameAt(h).n
      <3>1. CASE g[1] = h[1]
        BY <2>0, <2>1, <3>1 DEF Once, Single, FrameAt
      <3>2. CASE g[1] # h[1]
        <4>1. At(FrameAt(g).n, "heard", g[1]) /\ At(FrameAt(h).n, "heard", h[1])
          BY <2>1 DEF At, Has, FrameAt
        <4>2. FrameAt(g).n \in Num /\ "heard" \in Places
          BY <2>1 DEF FrameAt, Frames, Num, Places
        <4> QED
          BY <2>0, <2>1, <3>2, <4>1, <4>2 DEF OnePlace
      <3> QED
        BY <3>1, <3>2
    <2>3. ASSUME SameStream(g, h), g[2] < h[2] PROVE FrameAt(g).n < FrameAt(h).n
      <3>1. g[1] = h[1] /\ FrameAt(g).via = "stream" /\ FrameAt(h).via = "stream"
        BY <2>3 DEF SameStream
      <3>2. Asc(heard[g[1]])
        BY <2>0, <2>1 DEF Chain, ChainOf
      <3> QED
        BY <2>1, <2>3, <3>1, <3>2 DEF Asc, FrameAt
    <2> QED
      BY <2>2, <2>3
  <1> QED
    BY <1>1, <1>2, <1>3, PTL DEF TransportSpec
=============================================================================
