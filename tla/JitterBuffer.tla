---------------------------- MODULE JitterBuffer ----------------------------
(***************************************************************************)
(* audio/jitter.go: the buffer that reorders received frames before        *)
(* playout.  Its methods run under one mutex, so each is a function from   *)
(* one buffer to the next; Push and Pop may come in any order, with any    *)
(* sequence number.                                                        *)
(*                                                                         *)
(* Sequence numbers live on a circle of 2*Half values (uint16: Half is     *)
(* 2^15).  The five counters of JitterStats only count the cases below and *)
(* are left out.                                                           *)
(***************************************************************************)
EXTENDS Integers, FiniteSets

CONSTANTS Half,          \* half the sequence space
          TargetFrames,  \* JitterBuffer.targetFrames
          MaxFrames,     \* JitterBuffer.maxFrames
          Packets        \* payloads

ASSUME HalfAssumption == Half \in Nat /\ Half > 1
ASSUME FramesAssumption == TargetFrames \in Nat /\ MaxFrames \in Nat \ {0}

VARIABLE jb   \* the fields frames, nextOut, hasNext and primed

SeqSpace == 0 .. (2 * Half - 1)

(* s + 1 in uint16 arithmetic. *)
Inc(s) == IF s = 2 * Half - 1 THEN 0 ELSE s + 1

(* int16(b - a): the signed distance from a to b, in -Half .. Half - 1. *)
seqDelta(a, b) ==
    IF b - a >= Half THEN b - a - 2 * Half
    ELSE IF b - a < -Half THEN b - a + 2 * Half
    ELSE b - a

(* frames with pkt stored under seq, and frames without seq. *)
Store(frames, seq, pkt) ==
    [s \in DOMAIN frames \cup {seq} |-> IF s = seq THEN pkt ELSE frames[s]]
Delete(frames, seq) == [s \in DOMAIN frames \ {seq} |-> frames[s]]

NewJitterBuffer ==
    [frames |-> [s \in {} |-> 0], nextOut |-> 0, hasNext |-> FALSE, primed |-> FALSE]

(* The scan of Push for the frame to drop: the least distance below 0x7fff, *)
(* nextOut itself when the scan finds none.                                *)
Candidates(b) ==
    {s \in DOMAIN b.frames : seqDelta(b.nextOut, s) \in 0 .. (Half - 2)}

(* Faulty: the comparison of the scan is turned around. *)
Newest(b) ==
    IF Candidates(b) = {} THEN b.nextOut
    ELSE CHOOSE s \in Candidates(b) :
            \A t \in Candidates(b) : seqDelta(b.nextOut, s) >= seqDelta(b.nextOut, t)

Oldest(b) ==
    IF Candidates(b) = {} THEN b.nextOut
    ELSE CHOOSE s \in Candidates(b) :
            \A t \in Candidates(b) : seqDelta(b.nextOut, s) <= seqDelta(b.nextOut, t)

(* One turn of the hard-cap loop. *)
DropOldest(b) ==
    [b EXCEPT !.frames  = Delete(b.frames, Oldest(b)),
              !.nextOut = IF Oldest(b) = b.nextOut THEN Inc(b.nextOut) ELSE b.nextOut]

IsLate(b, seq) == b.hasNext /\ seqDelta(b.nextOut, seq) < 0

(* Faulty: a late frame is stored although it is reported as dropped. *)
PushStoringLate(b, seq, pkt) ==
    LET c == [b EXCEPT !.frames = Store(b.frames, seq, pkt),
                       !.nextOut = IF b.hasNext THEN b.nextOut ELSE seq,
                       !.hasNext = TRUE]
    IN  IF Cardinality(DOMAIN c.frames) > MaxFrames THEN DropOldest(c) ELSE c

(* Push: a late frame is refused; otherwise it is stored, replacing a       *)
(* duplicate, and the cap is enforced.  At most one frame is ever over the *)
(* cap (Capacity below), so the loop turns at most once.                   *)
Push(b, seq, pkt) ==
    LET c == [b EXCEPT !.frames = Store(b.frames, seq, pkt),
                       !.nextOut = IF b.hasNext THEN b.nextOut ELSE seq,
                       !.hasNext = TRUE]
    IN  IF IsLate(b, seq) THEN b
        ELSE IF Cardinality(DOMAIN c.frames) > MaxFrames THEN DropOldest(c) ELSE c

(* Pop returns nil before the first Push and during pre-roll. *)
Prerolling(b) == ~b.primed /\ Cardinality(DOMAIN b.frames) < TargetFrames

(* Faulty: the position stays where a frame was delivered, so that another *)
(* copy of it is not late.                                                 *)
PopStaying(b) ==
    IF ~b.hasNext \/ Prerolling(b) THEN b
    ELSE [b EXCEPT !.primed = TRUE,
                   !.frames = Delete(b.frames, b.nextOut),
                   !.nextOut = IF b.nextOut \in DOMAIN b.frames THEN b.nextOut ELSE Inc(b.nextOut)]

(* Pop delivers the frame at nextOut, or reports a gap; it moves on in     *)
(* both cases.                                                             *)
Pop(b) ==
    IF ~b.hasNext \/ Prerolling(b) THEN b
    ELSE [b EXCEPT !.primed = TRUE,
                   !.frames = Delete(b.frames, b.nextOut),
                   !.nextOut = Inc(b.nextOut)]

(* The frame Pop(b) returns, as a set of at most one packet. *)
PopFrame(b) ==
    IF ~b.hasNext \/ Prerolling(b) \/ b.nextOut \notin DOMAIN b.frames THEN {}
    ELSE {b.frames[b.nextOut]}

Init == jb = NewJitterBuffer
PushAny == \E seq \in SeqSpace, pkt \in Packets : jb' = Push(jb, seq, pkt)
PopAny == jb' = Pop(jb)
Next == PushAny \/ PopAny
Spec == Init /\ [][Next]_jb
-----------------------------------------------------------------------------
(* Types of the fields. *)
TypeOK ==
    /\ jb = [frames |-> jb.frames, nextOut |-> jb.nextOut,
             hasNext |-> jb.hasNext, primed |-> jb.primed]
    /\ jb.frames \in [DOMAIN jb.frames -> Packets]
    /\ DOMAIN jb.frames \subseteq SeqSpace
    /\ jb.nextOut \in SeqSpace
    /\ jb.hasNext \in BOOLEAN
    /\ jb.primed \in BOOLEAN

(* No frame is ever left behind the playout position: whatever the order   *)
(* of pushes, duplicates, evictions and gaps, every buffered frame is      *)
(* still ahead on the circle.  A frame behind it would sit in the buffer   *)
(* for half the sequence space and then be played as if it were new.       *)
InWindow ==
    \A s \in DOMAIN jb.frames : seqDelta(jb.nextOut, s) >= 0

(* The hard cap of Push holds at every return. *)
Capacity == Cardinality(DOMAIN jb.frames) <= MaxFrames

(* What makes InWindow and Capacity inductive: before the first Push the   *)
(* buffer is empty, so the position that Push sets has nothing behind it.  *)
IInv ==
    /\ TypeOK
    /\ InWindow
    /\ Capacity
    /\ ~jb.hasNext => DOMAIN jb.frames = {}

(* A frame only leaves the buffer as the oldest one in it. *)
LeavesOldestFirst ==
    [][\A s \in DOMAIN jb.frames \ DOMAIN jb'.frames :
         \A t \in DOMAIN jb'.frames :
            seqDelta(jb.nextOut, s) <= seqDelta(jb.nextOut, t)]_jb
=============================================================================
