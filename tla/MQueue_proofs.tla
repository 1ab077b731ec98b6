---------------------------- MODULE MQueue_proofs ----------------------------
(***************************************************************************)
(* Proofs about module MQueue, for any threads, messages and capacity:     *)
(* tokens and messages agree up to the calls in progress, and the ring     *)
(* implements a bounded first-in first-out channel.                        *)
(*                                                                         *)
(* Neither follows from the ring alone: that a receiver finds a message    *)
(* rests on the semaphore, and that the slots in use are the ones between  *)
(* the two indices has to be kept by both sides.                           *)
(***************************************************************************)
EXTENDS MQueue, FiniteSetTheorems, SequenceTheorems, TLAPS

\* The slots in use are those between the indices, and only threads that are
\* inside a receive sleep on the semaphore.
RingPlaced ==
    /\ write = (read + used) % Capacity
    /\ \A t \in waiting[0] : pc[t] \in {"timed", "forever"}

QueueInv == TokensMatchMessages /\ RingPlaced

-------------------------------------------------------------------------------
\* An index that passed the end once is back at the start.
LEMMA Wrapped ==
    ASSUME NEW n \in 0 .. 2 * Capacity - 1
    PROVE  n % Capacity = IF n < Capacity THEN n ELSE n - Capacity
    BY MQueueAssumption

\* The next slot is a slot.
LEMMA Advanced ==
    ASSUME NEW i \in Slot
    PROVE  /\ Advance(i) \in Slot
           /\ Advance(i) = (i + 1) % Capacity
    BY MQueueAssumption, Wrapped DEF Advance, Slot

\* Advancing either index of the slots in use moves their end by one slot.
LEMMA OneFurther ==
    ASSUME NEW r \in Slot, NEW n \in 0 .. Capacity - 1
    PROVE  /\ Advance((r + n) % Capacity) = (r + n + 1) % Capacity
           /\ (Advance(r) + n) % Capacity = (r + n + 1) % Capacity
<1> DEFINE w == (r + n) % Capacity
<1> USE MQueueAssumption DEF Slot
<1>1. w = IF r + n < Capacity THEN r + n ELSE r + n - Capacity
    BY Wrapped
<1>2. (r + n + 1) % Capacity = IF r + n + 1 < Capacity THEN r + n + 1 ELSE r + n + 1 - Capacity
    BY Wrapped
<1>3. w \in Slot
    BY <1>1
<1>4. Advance(w) = (r + n + 1) % Capacity
  <2> HIDE DEF w
  <2> QED
      BY <1>1, <1>2, <1>3 DEF Advance
<1>5. CASE r + 1 < Capacity
    BY <1>5 DEF Advance
<1>6. CASE r + 1 = Capacity
  <2>1. Advance(r) = 0
      BY <1>6 DEF Advance
  <2>2. n % Capacity = n
      BY Wrapped
  <2>3. r + n + 1 = Capacity + n
      BY <1>6
  <2>4. (r + n + 1) % Capacity = n
      BY <1>2, <2>3
  <2>5. (0 + n) % Capacity = n
      BY <2>2
  <2> QED
      BY <1>4, <2>1, <2>4, <2>5
<1> QED
    BY <1>4, <1>5, <1>6

-------------------------------------------------------------------------------
\* The calls in progress are finitely many.
LEMMA CallsFinite == IsFiniteSet(Receiving) /\ IsFiniteSet(Posting)
    BY FS_Subset, MQueueAssumption DEF Receiving, Posting

\* One call more or one call less.
LEMMA OneMore ==
    ASSUME NEW A, IsFiniteSet(A), NEW t, t \notin A
    PROVE  Cardinality(A \cup {t}) = Cardinality(A) + 1 /\ Cardinality(A) \in Nat
    BY FS_AddElement, FS_CardinalityType

\* Taking an element out of a finite set makes it smaller by one.
LEMMA OneLess ==
    ASSUME NEW A, IsFiniteSet(A), NEW t \in A
    PROVE  /\ Cardinality(A \ {t}) = Cardinality(A) - 1
           /\ Cardinality(A) \in Nat
           /\ Cardinality(A) >= 1
<1>1. A # {} /\ Cardinality(A \ {t}) = Cardinality(A) - 1
    BY FS_RemoveElement
<1>2. Cardinality(A) \in Nat /\ Cardinality(A) # 0
    BY <1>1, FS_CardinalityType, FS_EmptySet
<1> QED
    BY <1>1, <1>2

\* At the start the ring is empty and nobody calls.
LEMMA InitQueueInv == Init => QueueInv
<1> SUFFICES ASSUME Init
             PROVE  QueueInv
    OBVIOUS
<1>1. TypeOK
    BY MQueueAssumption DEF Init, S!Init, TypeOK, Slot
<1>2. Receiving = {} /\ Posting = {}
    BY DEF Init, Receiving, Posting
<1>3. used = value[0] + Cardinality(Receiving) + Cardinality(Posting)
    BY <1>2, FS_EmptySet DEF Init, S!Init
<1>4. RingPlaced
    BY MQueueAssumption, Wrapped DEF Init, S!Init, RingPlaced
<1> QED
    BY <1>1, <1>3, <1>4 DEF QueueInv, TokensMatchMessages

-------------------------------------------------------------------------------
\* A sender fills its slot: one message more, and one post that is owed.
LEMMA SendCopyInv ==
    ASSUME QueueInv, NEW t \in Thread, NEW m \in Message, SendCopy(t, m)
    PROVE  QueueInv'
<1> USE DEF SendCopy, Step, semVars
<1>1. TypeOK'
  <2>1. used' \in 0 .. Capacity
      BY MQueueAssumption DEF QueueInv, TokensMatchMessages, TypeOK
  <2> QED
      BY <2>1, Advanced DEF QueueInv, TokensMatchMessages, TypeOK
<1>2. Posting' = Posting \cup {t} /\ t \notin Posting
    BY DEF QueueInv, TokensMatchMessages, TypeOK, Posting
<1>3. Receiving' = Receiving
    BY DEF QueueInv, TokensMatchMessages, TypeOK, Receiving, Awake
<1>4. used' = value'[0] + Cardinality(Receiving') + Cardinality(Posting')
    BY <1>2, <1>3, CallsFinite, OneMore, FS_CardinalityType
    DEF QueueInv, TokensMatchMessages, TypeOK
<1>5. write' = (read' + used') % Capacity
    BY OneFurther, MQueueAssumption DEF QueueInv, TokensMatchMessages, TypeOK, RingPlaced
<1>6. \A u \in waiting'[0] : pc'[u] \in {"timed", "forever"}
    BY DEF QueueInv, RingPlaced, TokensMatchMessages, TypeOK
<1> QED
    BY <1>1, <1>4, <1>5, <1>6 DEF QueueInv, TokensMatchMessages, RingPlaced

\* The post that was owed: a token for the next receiver, or the oldest duty of a
\* thread that wakes up.
LEMMA SendPostInv ==
    ASSUME QueueInv, NEW t \in Thread, SendPost(t)
    PROVE  QueueInv'
<1> USE DEF SendPost, Step, ringVars
<1>1. Posting' = Posting \ {t} /\ t \in Posting
    BY DEF QueueInv, TokensMatchMessages, TypeOK, Posting
<1>2. Cardinality(Posting') = Cardinality(Posting) - 1 /\ Cardinality(Posting) \in Nat
    BY <1>1, CallsFinite, OneLess
<1>3. Cardinality(Receiving) \in Nat
    BY CallsFinite, FS_CardinalityType
<1>4. CASE S!Put(0)
  <2>1. TypeOK'
      BY <1>4 DEF S!Put, QueueInv, TokensMatchMessages, TypeOK
  <2>2. Receiving' = Receiving
      BY <1>4 DEF S!Put, QueueInv, TokensMatchMessages, TypeOK, Receiving, Awake
  <2>3. used' = value'[0] + Cardinality(Receiving') + Cardinality(Posting')
      BY <1>2, <1>3, <1>4, <2>2 DEF S!Put, QueueInv, TokensMatchMessages, TypeOK
  <2>4. RingPlaced'
      BY <1>4 DEF S!Put, QueueInv, TokensMatchMessages, TypeOK, RingPlaced
  <2> QED
      BY <2>1, <2>3, <2>4 DEF QueueInv, TokensMatchMessages
<1>5. ASSUME NEW u \in Thread, S!Wake(u, 0, 0)
      PROVE  QueueInv'
  <2>1. TypeOK'
      BY <1>5 DEF S!Wake, QueueInv, TokensMatchMessages, TypeOK
  <2>2. u # t /\ pc[u] \in {"timed", "forever"} /\ u \in waiting[0]
      BY <1>5 DEF S!Wake, QueueInv, RingPlaced
  <2>3. Receiving' = Receiving \cup {u} /\ u \notin Receiving
      BY <1>5, <2>2 DEF S!Wake, QueueInv, TokensMatchMessages, TypeOK, Receiving, Awake
  <2>4. Cardinality(Receiving') = Cardinality(Receiving) + 1
      BY <2>3, CallsFinite, OneMore
  <2>5. used' = value'[0] + Cardinality(Receiving') + Cardinality(Posting')
      BY <1>2, <1>3, <1>5, <2>4 DEF S!Wake, QueueInv, TokensMatchMessages, TypeOK
  <2>6. RingPlaced'
      BY <1>5 DEF S!Wake, QueueInv, TokensMatchMessages, TypeOK, RingPlaced
  <2> QED
      BY <2>1, <2>5, <2>6 DEF QueueInv, TokensMatchMessages
<1> QED
    BY <1>4, <1>5

\* A receiver takes a token and with it the duty to empty a slot, or falls asleep.
LEMMA GetPendInv ==
    ASSUME QueueInv, NEW t \in Thread, GetPend(t)
    PROVE  QueueInv'
<1> USE DEF GetPend, Step, ringVars
<1>1. Posting' = Posting
    BY DEF QueueInv, TokensMatchMessages, TypeOK, Posting
<1>2. Cardinality(Receiving) \in Nat /\ Cardinality(Posting) \in Nat
    BY CallsFinite, FS_CardinalityType
<1>3. CASE Step(t, "run", "copy") /\ S!Take(0)
  <2>1. TypeOK'
      BY <1>3 DEF S!Take, QueueInv, TokensMatchMessages, TypeOK
  <2>2. Receiving' = Receiving \cup {t} /\ t \notin Receiving
      BY <1>3 DEF S!Take, QueueInv, TokensMatchMessages, TypeOK, Receiving, Awake
  <2>3. Cardinality(Receiving') = Cardinality(Receiving) + 1
      BY <2>2, CallsFinite, OneMore
  <2>4. used' = value'[0] + Cardinality(Receiving') + Cardinality(Posting')
      BY <1>1, <1>2, <1>3, <2>3 DEF S!Take, QueueInv, TokensMatchMessages, TypeOK
  <2>5. RingPlaced'
      BY <1>3 DEF S!Take, QueueInv, TokensMatchMessages, TypeOK, RingPlaced
  <2> QED
      BY <2>1, <2>4, <2>5 DEF QueueInv, TokensMatchMessages
<1>4. CASE pc[t] = "run" /\ S!Sleep(t, 0)
           /\ (pc' = [pc EXCEPT ![t] = "forever"] \/ pc' = [pc EXCEPT ![t] = "timed"])
  <2>1. TypeOK'
      BY <1>4 DEF S!Sleep, QueueInv, TokensMatchMessages, TypeOK
  <2>2. Receiving' = Receiving
      BY <1>4 DEF S!Sleep, QueueInv, TokensMatchMessages, TypeOK, Receiving, Awake
  <2>3. used' = value'[0] + Cardinality(Receiving') + Cardinality(Posting')
      BY <1>1, <1>4, <2>2 DEF S!Sleep, QueueInv, TokensMatchMessages, TypeOK
  <2>4. RingPlaced'
      BY <1>4 DEF S!Sleep, QueueInv, TokensMatchMessages, TypeOK, RingPlaced
  <2> QED
      BY <2>1, <2>3, <2>4 DEF QueueInv, TokensMatchMessages
<1> QED
    BY <1>3, <1>4

\* A sleep that ran out, before and after the thread has noticed.
LEMMA TimeOutInv ==
    ASSUME QueueInv, NEW t \in Thread, TimeOut(t) \/ GetFails(t)
    PROVE  QueueInv'
<1> USE DEF TimeOut, GetFails, Step, ringVars, semVars
<1>1. TypeOK'
    BY DEF S!Wake, QueueInv, TokensMatchMessages, TypeOK
<1>2. Posting' = Posting
    BY DEF S!Wake, QueueInv, TokensMatchMessages, TypeOK, Posting
<1>3. Receiving' = Receiving
    BY DEF S!Wake, QueueInv, TokensMatchMessages, TypeOK, Receiving, Awake
<1>4. used' = value'[0] + Cardinality(Receiving') + Cardinality(Posting')
    BY <1>2, <1>3 DEF S!Wake, QueueInv, TokensMatchMessages
<1>5. RingPlaced'
    BY DEF S!Wake, QueueInv, TokensMatchMessages, TypeOK, RingPlaced, Awake
<1> QED
    BY <1>1, <1>4, <1>5 DEF QueueInv, TokensMatchMessages

\* A thread that has a token is one of those that receive, so there is a message.
LEMMA TokenHasMessage ==
    ASSUME QueueInv, NEW t \in Thread, HasToken(t), UNCHANGED semVars
    PROVE  /\ Receiving' = Receiving \ {t}
           /\ Cardinality(Receiving \ {t}) = Cardinality(Receiving) - 1
           /\ Posting' = Posting
           /\ used >= 1
<1> USE DEF HasToken, Step, semVars
<1>1. t \in Receiving
    BY DEF Receiving
<1>2. Cardinality(Receiving) >= 1 /\ Cardinality(Posting) \in Nat
    BY <1>1, CallsFinite, OneLess, FS_CardinalityType
<1>3. Posting' = Posting
    BY DEF QueueInv, TokensMatchMessages, TypeOK, Posting
<1>4. Cardinality(Receiving \ {t}) = Cardinality(Receiving) - 1
    BY <1>1, CallsFinite, OneLess
<1>5. Cardinality(Receiving) \in Nat
    BY CallsFinite, FS_CardinalityType
<1>6. used >= 1
    BY <1>2, <1>5 DEF QueueInv, TokensMatchMessages, TypeOK
<1>7. Receiving' = Receiving \ {t}
    BY DEF QueueInv, TokensMatchMessages, TypeOK, Receiving, Awake
<1> QED
    BY <1>3, <1>4, <1>6, <1>7

\* A receiver empties its slot: one message and one duty less.
LEMMA GetCopyInv ==
    ASSUME QueueInv, NEW t \in Thread, GetCopy(t)
    PROVE  QueueInv'
<1> USE DEF GetCopy, semVars
<1>1. /\ Receiving' = Receiving \ {t}
      /\ Cardinality(Receiving \ {t}) = Cardinality(Receiving) - 1
      /\ Posting' = Posting
      /\ used >= 1
    BY TokenHasMessage
<1>2. pc' \in [Thread -> {"run", "post", "copy", "timed", "forever"}]
    BY DEF HasToken, Step, QueueInv, TokensMatchMessages, TypeOK
<1>3. message' \in [Thread -> Message \cup {Empty}] /\ used' \in 0 .. Capacity
    BY <1>1, MQueueAssumption DEF QueueInv, TokensMatchMessages, TypeOK
<1>4. TypeOK'
    BY <1>2, <1>3, Advanced DEF QueueInv, TokensMatchMessages, TypeOK
<1>5. used' = value'[0] + Cardinality(Receiving') + Cardinality(Posting')
    BY <1>1, CallsFinite, FS_CardinalityType DEF QueueInv, TokensMatchMessages, TypeOK
<1>6. write' = (read' + used') % Capacity
  <2>1. used - 1 \in 0 .. Capacity - 1 /\ read + (used - 1) + 1 = read + used
      BY <1>1, MQueueAssumption DEF QueueInv, TokensMatchMessages, TypeOK, Slot
  <2> QED
      BY <2>1, OneFurther DEF QueueInv, TokensMatchMessages, TypeOK, RingPlaced
<1>7. \A u \in waiting'[0] : pc'[u] \in {"timed", "forever"}
    BY DEF HasToken, Step, Awake, QueueInv, RingPlaced, TokensMatchMessages, TypeOK
<1> QED
    BY <1>4, <1>5, <1>6, <1>7 DEF QueueInv, TokensMatchMessages, RingPlaced

\* Every step keeps the invariant.
LEMMA NextQueueInv == QueueInv /\ [Next]_vars => QueueInv'
<1> SUFFICES ASSUME QueueInv, [Next]_vars
             PROVE  QueueInv'
    OBVIOUS
<1>1. CASE UNCHANGED vars
    BY <1>1 DEF vars, ringVars, semVars, QueueInv, TokensMatchMessages, TypeOK,
                RingPlaced, Receiving, Posting, Awake
<1>2. CASE Next
    BY <1>2, SendCopyInv, SendPostInv, GetPendInv, TimeOutInv, GetCopyInv
    DEF Next, OS_MQueueSend, OS_MQueueGet
<1> QED
    BY <1>1, <1>2

\* Messages in the ring are as many as tokens, receivers with a token and senders
\* that have yet to post: a receiver that got a token finds a message, whatever
\* timeouts, posts and receives overlap.
THEOREM TokensMatch == Spec => []TokensMatchMessages
<1>1. QueueInv => TokensMatchMessages
    BY DEF QueueInv
<1> QED
    BY <1>1, InitQueueInv, NextQueueInv, PTL DEF Spec

-------------------------------------------------------------------------------
\* The ring as a channel.  What is in the ring, message by message.
RingHolds ==
    /\ Queued \in Seq(Message \cup {Empty})
    /\ Len(Queued) = used
    /\ \A i \in 1 .. used : Queued[i] = buffer[(read + i - 1) % Capacity]

\* What the channel sees as queued is what lies in the slots in use, oldest first.
LEMMA QueuedIs == QueueInv => RingHolds
<1> SUFFICES ASSUME QueueInv
             PROVE  RingHolds
    OBVIOUS
<1>1. used \in 0 .. Capacity /\ read \in Slot
    BY DEF QueueInv, TokensMatchMessages, TypeOK
<1>2. ASSUME NEW i \in 1 .. used
      PROVE  (read + i - 1) % Capacity \in Slot
  <2>1. read + i - 1 \in 0 .. 2 * Capacity - 1
      BY <1>1, MQueueAssumption DEF Slot
  <2> QED
      BY <1>1, <2>1, Wrapped, MQueueAssumption DEF Slot
<1>3. Queued \in [1 .. used -> Message \cup {Empty}]
    BY <1>2 DEF Queued, QueueInv, TokensMatchMessages, TypeOK
<1> QED
    BY <1>1, <1>3, MQueueAssumption DEF Queued, RingHolds

\* While the ring is not full, no slot in use is the one that is written next.
LEMMA OtherSlot ==
    ASSUME NEW r \in Slot, NEW n \in 0 .. Capacity - 1, NEW i \in 1 .. n
    PROVE  (r + i - 1) % Capacity # (r + n) % Capacity
<1>1. r + i - 1 \in 0 .. 2 * Capacity - 1 /\ r + n \in 0 .. 2 * Capacity - 1
    BY MQueueAssumption DEF Slot
<1> QED
    BY <1>1, Wrapped, MQueueAssumption DEF Slot

\* An empty ring is an empty channel.
LEMMA InitChannel == Init => Ch!Init
<1> SUFFICES ASSUME Init
             PROVE  Ch!Init
    OBVIOUS
<1>1. Queued = <<>>
    BY DEF Init, Queued
<1> QED
    BY <1>1 DEF Init, Ch!Init

\* Filling a slot behind the last message sends it.
LEMMA SendCopySends ==
    ASSUME QueueInv, QueueInv', NEW t \in Thread, NEW m \in Message, SendCopy(t, m)
    PROVE  Ch!Send(m)
<1>1. /\ used \in 0 .. Capacity - 1
      /\ used' = used + 1
      /\ read' = read
      /\ read \in Slot
      /\ write = (read + used) % Capacity
      /\ buffer' = [buffer EXCEPT ![write] = m]
      /\ buffer \in [Slot -> Message \cup {Empty}]
      /\ write \in Slot
    BY MQueueAssumption
    DEF SendCopy, QueueInv, TokensMatchMessages, TypeOK, RingPlaced
<1>2. /\ Queued \in Seq(Message \cup {Empty})
      /\ Len(Queued) = used
      /\ \A i \in 1 .. used : Queued[i] = buffer[(read + i - 1) % Capacity]
    BY QueuedIs DEF RingHolds
<1>3. /\ Queued' \in Seq(Message \cup {Empty})
      /\ Len(Queued') = used + 1
      /\ \A i \in 1 .. used + 1 : Queued'[i] = buffer'[(read + i - 1) % Capacity]
  <2>1. RingHolds'
      BY QueuedIs, PTL
  <2> QED
      BY <1>1, <2>1 DEF RingHolds
<1>4. Queued'[used + 1] = m
  <2>1. read + (used + 1) - 1 = read + used
      BY <1>1 DEF Slot
  <2>2. Queued'[used + 1] = buffer'[(read + (used + 1) - 1) % Capacity]
      BY <1>1, <1>3
  <2> QED
      BY <1>1, <2>1, <2>2
<1>5. ASSUME NEW i \in 1 .. used
      PROVE  Queued'[i] = Queued[i]
  <2>1. (read + i - 1) % Capacity # write
      BY <1>1, OtherSlot
  <2>2. buffer'[(read + i - 1) % Capacity] = buffer[(read + i - 1) % Capacity]
      BY <1>1, <2>1
  <2> QED
      BY <1>1, <1>2, <1>3, <2>2
<1>6. Queued' = Append(Queued, m)
  <2> DEFINE q == Queued
             r == Queued'
             n == used
  <2>1. /\ q \in Seq(Message \cup {Empty})
        /\ r \in Seq(Message \cup {Empty})
        /\ n \in Nat
        /\ Len(q) = n
        /\ Len(r) = n + 1
        /\ r[n + 1] = m
        /\ \A i \in 1 .. n : r[i] = q[i]
      BY <1>1, <1>2, <1>3, <1>4, <1>5
  <2> HIDE DEF q, r, n
  <2>2. /\ Append(q, m) \in Seq(Message \cup {Empty})
        /\ Len(Append(q, m)) = n + 1
        /\ \A i \in 1 .. n + 1 : Append(q, m)[i] = IF i = n + 1 THEN m ELSE q[i]
      BY <2>1
  <2>3. \A i \in 1 .. Len(r) : r[i] = Append(q, m)[i]
      BY <2>1, <2>2
  <2>4. r = Append(q, m)
      BY <2>1, <2>2, <2>3, SeqEqual
  <2> QED
      BY <2>4 DEF q, r
<1>7. Len(Queued) < Capacity
    BY <1>1, <1>2, MQueueAssumption
<1> QED
    BY <1>6, <1>7 DEF Ch!Send, SendCopy

\* Emptying a slot hands the oldest message to the thread that empties it.
LEMMA GetCopyReceives ==
    ASSUME QueueInv, QueueInv', NEW t \in Thread, GetCopy(t)
    PROVE  Ch!Receive(t)
<1>1. /\ used \in 1 .. Capacity
      /\ used' = used - 1
      /\ read \in Slot
      /\ read' = Advance(read)
      /\ buffer' = buffer
    BY TokenHasMessage DEF GetCopy, QueueInv, TokensMatchMessages, TypeOK
<1>2. /\ Queued \in Seq(Message \cup {Empty})
      /\ Len(Queued) = used
      /\ \A i \in 1 .. used : Queued[i] = buffer[(read + i - 1) % Capacity]
    BY QueuedIs DEF RingHolds
<1>3. /\ Queued' \in Seq(Message \cup {Empty})
      /\ Len(Queued') = used - 1
      /\ \A i \in 1 .. used - 1 : Queued'[i] = buffer[(read' + i - 1) % Capacity]
  <2>1. RingHolds'
      BY QueuedIs, PTL
  <2> QED
      BY <1>1, <2>1 DEF RingHolds
<1>4. Queued # <<>> /\ Head(Queued) = buffer[read]
  <2>1. Queued[1] = buffer[(read + 1 - 1) % Capacity]
      BY <1>1, <1>2
  <2>2. read + 1 - 1 = read /\ read \in 0 .. 2 * Capacity - 1
      BY <1>1, MQueueAssumption DEF Slot
  <2>3. read % Capacity = read
      BY <1>1, <2>2, Wrapped, MQueueAssumption DEF Slot
  <2> DEFINE q == Queued
  <2>4. q \in Seq(Message \cup {Empty}) /\ Len(q) >= 1 /\ q[1] = buffer[read]
      BY <1>1, <1>2, <2>1, <2>2, <2>3
  <2> HIDE DEF q
  <2>5. q # <<>> /\ Head(q) = buffer[read]
      BY <2>4
  <2> QED
      BY <2>5 DEF q
<1>5. ASSUME NEW i \in 1 .. used - 1
      PROVE  Queued'[i] = Queued[i + 1]
  <2>1. i - 1 \in 0 .. Capacity - 1
      BY <1>1, MQueueAssumption
  <2>2. (Advance(read) + (i - 1)) % Capacity = (read + (i - 1) + 1) % Capacity
      BY <1>1, <2>1, OneFurther
  <2>3. /\ Advance(read) \in Int
        /\ read \in Int
      BY <1>1, Advanced DEF Slot
  <2>4. /\ Advance(read) + (i - 1) = Advance(read) + i - 1
        /\ read + (i - 1) + 1 = read + (i + 1) - 1
      BY <2>3
  <2>5. Queued[i + 1] = buffer[(read + (i + 1) - 1) % Capacity]
      BY <1>1, <1>2
  <2> QED
      BY <1>1, <1>3, <2>2, <2>4, <2>5
<1>6. Queued' = Tail(Queued)
  <2> DEFINE q == Queued
             r == Queued'
             n == used
  <2>1. /\ q \in Seq(Message \cup {Empty}) /\ q # <<>>
        /\ r \in Seq(Message \cup {Empty})
        /\ n \in Nat
        /\ Len(q) = n
        /\ Len(r) = n - 1
        /\ \A i \in 1 .. n - 1 : r[i] = q[i + 1]
      BY <1>1, <1>2, <1>3, <1>4, <1>5
  <2> HIDE DEF q, r, n
  <2>2. /\ Tail(q) \in Seq(Message \cup {Empty})
        /\ Len(Tail(q)) = n - 1
        /\ \A i \in 1 .. Len(Tail(q)) : Tail(q)[i] = q[i + 1]
      BY <2>1, HeadTailProperties
  <2>3. \A i \in 1 .. Len(r) : r[i] = Tail(q)[i]
      BY <2>1, <2>2
  <2>4. r = Tail(q)
      BY <2>1, <2>2, <2>3, SeqEqual
  <2> QED
      BY <2>4 DEF q, r
<1> QED
    BY <1>4, <1>6 DEF Ch!Receive, GetCopy

\* No other step touches the ring or hands a message to anybody.
LEMMA NextChannel ==
    ASSUME QueueInv, QueueInv', [Next]_vars
    PROVE  [Ch!Next]_(Ch!vars)
<1>1. ASSUME UNCHANGED ringVars, UNCHANGED message
      PROVE  UNCHANGED Ch!vars
    BY <1>1 DEF ringVars, Ch!vars, Queued
<1>2. CASE UNCHANGED vars
    BY <1>1, <1>2 DEF vars
<1>3. ASSUME NEW t \in Thread, OS_MQueueSend(t)
      PROVE  [Ch!Next]_(Ch!vars)
    BY <1>1, <1>3, SendCopySends DEF OS_MQueueSend, SendPost, Ch!Next
<1>4. ASSUME NEW t \in Thread, OS_MQueueGet(t)
      PROVE  [Ch!Next]_(Ch!vars)
    BY <1>1, <1>4, GetCopyReceives DEF OS_MQueueGet, GetPend, GetFails, ringVars, Ch!Next
<1>5. ASSUME NEW t \in Thread, TimeOut(t)
      PROVE  [Ch!Next]_(Ch!vars)
    BY <1>1, <1>5 DEF TimeOut
<1> QED
    BY <1>2, <1>3, <1>4, <1>5 DEF Next

\* The ring is a bounded first-in first-out channel, for any number of senders and
\* receivers: what was accepted is received once and in order, the oldest first.
THEOREM RingRefinesChannel == Spec => ImplementsChannel
<1>1. Spec => []QueueInv
    BY InitQueueInv, NextQueueInv, PTL DEF Spec
<1>2. QueueInv /\ QueueInv' /\ [Next]_vars => [Ch!Next]_(Ch!vars)
    BY NextChannel
<1> QED
    BY <1>1, <1>2, InitChannel, PTL DEF Spec, ImplementsChannel, Ch!Spec

=============================================================================
