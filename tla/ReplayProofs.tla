----------------------------- MODULE ReplayProofs -----------------------------
(***************************************************************************)
(* Proofs about Replay.tla, for every capacity, limit and sequence of       *)
(* reads: what the ring of replay.c keeps is the newest of the stream, in   *)
(* order, and a replay starts where a client can go on from.                *)
(***************************************************************************)
EXTENDS Replay, OffsetLemmas

\* The ring keeps each byte of the window in its slot.
RingOK ==
    capacity > 0 =>
        \A k \in Oldest(capacity, total) .. total - 1 : ring[k % capacity] = k

\* The inductive invariant.
ReplayInv ==
    /\ TypeOK
    /\ RingOK
    /\ WellFormed(continuation)
    /\ total <= MaxTotal

-----------------------------------------------------------------------------
\* Slots: the remainder of a division, for a divisor that is a variable.
LEMMA ModUnique ==
    ASSUME NEW cap \in Nat \ {0}, NEW q \in Int, NEW r \in 0 .. cap - 1
    PROVE  (cap * q + r) % cap = r
  OBVIOUS

\* ... and that it is a remainder.
LEMMA ModDiv ==
    ASSUME NEW cap \in Nat \ {0}, NEW n \in Nat
    PROVE  /\ n = (cap * (n \div cap)) + (n % cap)
           /\ (n \div cap) \in Int /\ (n % cap) \in 0 .. cap - 1
  OBVIOUS

\* The slot of a byte that comes j after another one in a ring.
LEMMA SlotAfter ==
    ASSUME NEW cap \in Nat \ {0}, NEW n \in Nat, NEW j \in 0 .. cap
    PROVE  (n + j) % cap = IF (n % cap) + j < cap THEN (n % cap) + j ELSE (n % cap) + j - cap
  <1>1. PICK q \in Int, r \in 0 .. cap - 1 : n = cap * q + r /\ n % cap = r
    BY ModDiv
  <1>2. CASE r + j < cap
    <2>1. n + j = cap * q + (r + j)
      BY <1>1
    <2> QED BY <1>1, <1>2, <2>1, ModUnique
  <1>3. CASE r + j >= cap
    <2>1. n + j = cap * (q + 1) + (r + j - cap)
      BY <1>1
    <2>2. q + 1 \in Int /\ r + j - cap \in 0 .. cap - 1
      BY <1>1, <1>3
    <2>3. (cap * (q + 1) + (r + j - cap)) % cap = r + j - cap
      BY <2>2, ModUnique
    <2> QED BY <1>1, <1>3, <2>1, <2>3
  <1> QED BY <1>2, <1>3

\* The two memcpys of replay_append: all of the input is written in order, and
\* of what was there no more is lost than there is input.
LEMMA WrittenSlots ==
    ASSUME TypeOK, capacity > 0, NEW base \in Nat, NEW length \in 0 .. capacity
    PROVE  /\ Written(base, length) \in [0 .. capacity - 1 -> Nat \cup {Garbage}]
           /\ \A j \in 0 .. length - 1 : Written(base, length)[(base + j) % capacity] = base + j
           /\ \A k \in Nat, d \in 1 .. capacity - length : k + d = base =>
                 Written(base, length)[k % capacity] = ring[k % capacity]
  <1>1. capacity \in Nat \ {0} /\ ring \in [0 .. capacity - 1 -> Nat \cup {Garbage}]
    BY CapacityAssumption DEF TypeOK
  <1>2. PICK pos \in 0 .. capacity - 1 : pos = base % capacity
    BY <1>1, ModDiv
  <1>3. PICK first : first = FirstPart(pos, length)
    OBVIOUS
  <1>4. /\ first \in 0 .. length
        /\ first = length \/ first = capacity - pos
        /\ first <= capacity - pos
    BY <1>1, <1>3 DEF FirstPart, Smaller
  <1>5. Written(base, length) =
          [p \in 0 .. capacity - 1 |->
              IF p < length - first THEN base + first + p
              ELSE IF pos <= p /\ p < pos + first THEN base + (p - pos)
              ELSE ring[p]]
    BY <1>1, <1>2, <1>3 DEF Written
  <1>6. Written(base, length) \in [0 .. capacity - 1 -> Nat \cup {Garbage}]
    BY <1>1, <1>4, <1>5
  <1>7. ASSUME NEW j \in 0 .. length - 1
        PROVE  Written(base, length)[(base + j) % capacity] = base + j
    <2>1. j \in 0 .. capacity /\ j < length /\ length \in Nat
      BY <1>1
    <2>2. (base + j) % capacity = IF pos + j < capacity THEN pos + j ELSE pos + j - capacity
      BY <1>1, <1>2, <2>1, SlotAfter
    <2>3. CASE pos + j < capacity
      <3>1. /\ pos + j \in 0 .. capacity - 1 /\ ~(pos + j < length - first)
            /\ pos + j < pos + first /\ base + (pos + j - pos) = base + j
        BY <1>1, <1>2, <1>4, <2>1, <2>3
      <3> QED BY <1>5, <2>1, <2>2, <2>3, <3>1
    <2>4. CASE pos + j >= capacity
      <3>1. /\ pos + j - capacity \in 0 .. capacity - 1 /\ pos + j - capacity < length - first
            /\ base + first + (pos + j - capacity) = base + j
        BY <1>1, <1>2, <1>4, <2>1, <2>4
      <3> QED BY <1>1, <1>5, <2>1, <2>2, <2>4, <3>1
    <2> QED BY <1>1, <2>1, <2>3, <2>4
  <1>8. ASSUME NEW k \in Nat, NEW d \in 1 .. capacity - length, k + d = base
        PROVE  Written(base, length)[k % capacity] = ring[k % capacity]
    <2>1. PICK p \in 0 .. capacity - 1 : p = k % capacity
      BY <1>1, ModDiv
    <2>2. pos = IF p + d < capacity THEN p + d ELSE p + d - capacity
      <3>1. d \in 0 .. capacity
        BY <1>1
      <3> QED BY <1>1, <1>2, <1>8, <2>1, <3>1, SlotAfter
    <2>3. ~(p < length - first) /\ ~(pos <= p /\ p < pos + first)
      BY <1>1, <1>4, <2>2
    <2> QED BY <1>5, <2>1, <2>3
  <1> QED BY <1>6, <1>7, <1>8

\* replay_append keeps the window.
LEMMA AppendKeeps ==
    ASSUME ReplayInv, NEW length \in Nat, NEW cont \in SUBSET (total .. total + length - 1),
           WellFormed(continuation \cup cont), AppendOutput(length, cont)
    PROVE  ReplayInv'
  <1>1. /\ total \in Nat /\ total' = total + length /\ total' <= MaxTotal
        /\ capacity' = capacity /\ capacity \in Nat
        /\ continuation' = continuation \cup cont
    BY CapacityAssumption DEF ReplayInv, TypeOK, AppendOutput
  <1>2. WellFormed(continuation)' /\ continuation' \subseteq Nat
    BY <1>1 DEF ReplayInv, TypeOK, WellFormed
  <1>3. CASE capacity = 0
    <2>1. ring' = ring
      BY <1>3 DEF AppendOutput
    <2> QED BY <1>1, <1>2, <1>3, <2>1 DEF ReplayInv, TypeOK, RingOK
  <1>4. CASE capacity > 0
    <2>1. PICK skipped, base, size : /\ skipped = Skipped(length)
                                     /\ base = total + skipped /\ size = length - skipped
      OBVIOUS
    <2>2. /\ skipped \in Nat /\ base \in Nat /\ size \in 0 .. capacity /\ base + size = total'
          /\ skipped > 0 => base = total' - capacity
      BY <1>1, <2>1 DEF Skipped, Larger
    <2>3. ring' = Written(base, size)
      BY <1>4, <1>1, <2>1 DEF AppendOutput
    <2>4. /\ ring' \in [0 .. capacity - 1 -> Nat \cup {Garbage}]
          /\ \A j \in 0 .. size - 1 : ring'[(base + j) % capacity] = base + j
          /\ \A k \in Nat, d \in 1 .. capacity - size : k + d = base =>
                ring'[k % capacity] = ring[k % capacity]
      BY <1>4, <2>2, <2>3, WrittenSlots DEF ReplayInv
    <2>5. ASSUME NEW k \in Oldest(capacity, total') .. total' - 1 PROVE ring'[k % capacity] = k
      <3>1. k \in Nat /\ k < total' /\ k >= total' - capacity
        BY <1>1 DEF Oldest, Larger
      <3>2. CASE k >= base
        <4>1. k - base \in 0 .. size - 1 /\ base + (k - base) = k
          BY <1>1, <2>2, <3>1, <3>2
        <4>2. ring'[(base + (k - base)) % capacity] = base + (k - base)
          BY <2>4, <4>1
        <4> QED BY <4>1, <4>2
      <3>3. CASE k < base
        <4>1. skipped = 0 /\ base = total /\ size = length
          BY <1>1, <2>1, <2>2, <3>1, <3>3
        <4>2. k \in Oldest(capacity, total) .. total - 1
          BY <1>1, <3>1, <3>3, <4>1 DEF Oldest, Larger
        <4>3. base - k \in 1 .. capacity - size /\ k + (base - k) = base
          BY <1>1, <2>2, <3>1, <3>3, <4>1
        <4> QED BY <1>4, <2>4, <3>1, <4>2, <4>3 DEF ReplayInv, RingOK
      <3> QED BY <2>2, <3>1, <3>2, <3>3
    <2>6. RingOK'
      BY <1>1, <2>5 DEF RingOK
    <2> QED BY <1>1, <1>2, <2>4, <2>6 DEF ReplayInv, TypeOK
  <1> QED BY <1>1, <1>3, <1>4

\* The inductive invariant holds of every stream.
THEOREM ReplayCorrect == Spec => []ReplayInv
  <1>1. Init => ReplayInv
    <2> SUFFICES ASSUME Init PROVE ReplayInv
      OBVIOUS
    <2>1. TypeOK
      BY DEF Init, TypeOK
    <2>2. RingOK
      BY CapacityAssumption DEF Init, RingOK, Oldest, Larger
    <2> QED BY <2>1, <2>2, BoundsAssumption DEF Init, ReplayInv, WellFormed
  <1>2. ReplayInv /\ [Next]_vars => ReplayInv'
    <2> SUFFICES ASSUME ReplayInv, [Next]_vars PROVE ReplayInv'
      OBVIOUS
    <2>1. CASE Next
      <3>1. PICK length \in 1 .. MaxAppend : \E cont \in SUBSET (total .. total + length - 1) :
               WellFormed(continuation \cup cont) /\ AppendOutput(length, cont)
        BY <2>1 DEF Next
      <3> QED BY <3>1, AppendKeeps, BoundsAssumption
    <2>2. CASE UNCHANGED vars
      BY <2>2 DEF vars, ReplayInv, TypeOK, RingOK, WellFormed
    <2> QED BY <2>1, <2>2
  <1> QED BY <1>1, <1>2, PTL DEF Spec

\* Every variable has its type.
THEOREM TypeCorrect == Spec => []TypeOK
  <1>1. ReplayInv => TypeOK
    BY DEF ReplayInv
  <1> QED BY <1>1, ReplayCorrect, PTL

-----------------------------------------------------------------------------
\* replay_read, in two copies or one: consecutive bytes of the stream.
LEMMA ReadIs ==
    ASSUME ReplayInv, NEW offset \in Nat, NEW max \in Nat
    PROVE  Read(offset, max) =
             [i \in 1 .. ReadLength(capacity, total, offset, max) |-> offset + i - 1]
  <1>1. capacity \in Nat /\ total \in Nat
    BY CapacityAssumption DEF ReplayInv, TypeOK
  <1>2. PICK length, pos, first : /\ length = ReadLength(capacity, total, offset, max)
                                  /\ pos = offset % capacity
                                  /\ first = FirstPart(pos, length)
    OBVIOUS
  <1>3. Read(offset, max) =
          [i \in 1 .. length |-> IF i <= first THEN ring[pos + i - 1] ELSE ring[i - first - 1]]
    BY <1>2 DEF Read
  <1>4. length \in Nat /\ (length > 0 => /\ capacity > 0 /\ offset >= Oldest(capacity, total)
                                         /\ length <= total - offset)
    <2>1. Oldest(capacity, total) \in Nat
      BY <1>1 DEF Oldest, Larger
    <2> QED BY <1>1, <1>2, <2>1 DEF ReadLength, Smaller
  <1>5. ASSUME NEW i \in 1 .. length
        PROVE  (IF i <= first THEN ring[pos + i - 1] ELSE ring[i - first - 1]) = offset + i - 1
    <2>1. capacity \in Nat \ {0} /\ length <= capacity /\ i - 1 \in 0 .. capacity
      BY <1>1, <1>4, <1>5 DEF Oldest, Larger
    <2>2. offset + (i - 1) \in Oldest(capacity, total) .. total - 1
      BY <1>1, <1>4, <1>5, <2>1 DEF Oldest, Larger
    <2>3. ring[(offset + (i - 1)) % capacity] = offset + (i - 1)
      BY <2>1, <2>2 DEF ReplayInv, RingOK
    <2>4. (offset + (i - 1)) % capacity
            = IF pos + (i - 1) < capacity THEN pos + (i - 1) ELSE pos + (i - 1) - capacity
      BY <1>2, <2>1, SlotAfter
    <2>5. pos \in 0 .. capacity - 1
      BY <1>2, <2>1, ModDiv
    <2>6. first = IF capacity - pos <= length THEN capacity - pos ELSE length
      BY <1>2 DEF FirstPart, Smaller
    <2>7. CASE i <= first
      <3>1. pos + (i - 1) < capacity /\ pos + i - 1 = pos + (i - 1)
        BY <1>4, <2>1, <2>5, <2>6, <2>7
      <3> QED BY <1>5, <2>3, <2>4, <2>7, <3>1
    <2>8. CASE i > first
      <3>1. ~(pos + (i - 1) < capacity) /\ i - first - 1 = pos + (i - 1) - capacity
        BY <1>4, <1>5, <2>1, <2>5, <2>6, <2>8
      <3>2. ~(i <= first)
        BY <1>4, <1>5, <2>1, <2>5, <2>6, <2>8
      <3> QED BY <1>5, <2>3, <2>4, <3>1, <3>2
    <2> QED BY <1>4, <1>5, <2>1, <2>5, <2>6, <2>7, <2>8
  <1>6. [i \in 1 .. length |-> IF i <= first THEN ring[pos + i - 1] ELSE ring[i - first - 1]]
          = [i \in 1 .. length |-> offset + i - 1]
    BY <1>5
  <1> QED BY <1>2, <1>3, <1>6

\* A read returns the bytes asked for that are kept, and nothing else
\* (replay_read).
THEOREM ReadsExactly == Spec => []ReadExact
  <1>1. ReplayInv => ReadExact
    <2> SUFFICES ASSUME ReplayInv, NEW offset \in 0 .. total + 1, NEW max \in 1 .. MaxTotal
                 PROVE  Read(offset, max) =
                          IF capacity > 0 /\ offset \in Oldest(capacity, total) .. total - 1
                          THEN [i \in 1 .. Smaller(total - offset, max) |-> offset + i - 1]
                          ELSE <<>>
      BY DEF ReadExact
    <2>1. capacity \in Nat /\ total \in Nat /\ offset \in Nat /\ max \in Nat
      BY CapacityAssumption, BoundsAssumption DEF ReplayInv, TypeOK
    <2>2. Oldest(capacity, total) \in Nat
      BY <2>1 DEF Oldest, Larger
    <2>3. ReadLength(capacity, total, offset, max) =
            IF capacity > 0 /\ offset \in Oldest(capacity, total) .. total - 1
            THEN Smaller(total - offset, max) ELSE 0
      BY <2>1, <2>2 DEF ReadLength
    <2>4. [i \in 1 .. 0 |-> offset + i - 1] = <<>>
      OBVIOUS
    <2>5. Read(offset, max) = [i \in 1 .. ReadLength(capacity, total, offset, max) |-> offset + i - 1]
      BY <2>1, ReadIs
    <2> QED BY <2>3, <2>4, <2>5
  <1> QED BY <1>1, ReplayCorrect, PTL

\* The search of replay_resume_offset ends somewhere.
LEMMA SearchEnds ==
    ASSUME NEW earliest \in Nat, earliest <= total, total \in Nat
    PROVE  LET Skippable(n) == /\ earliest + n <= total
                               /\ \A i \in 0 .. n - 1 : IsContinuation(earliest + i)
           IN  \E n \in 0 .. MaxContinuation : /\ Skippable(n)
                                               /\ n = MaxContinuation \/ ~Skippable(n + 1)
  <1> DEFINE Skippable(n) == /\ earliest + n <= total
                             /\ \A i \in 0 .. n - 1 : IsContinuation(earliest + i)
  <1> DEFINE Ends == \E n \in 0 .. MaxContinuation : /\ Skippable(n)
                                                     /\ n = MaxContinuation \/ ~Skippable(n + 1)
  <1>1. Skippable(0)
    OBVIOUS
  <1> HIDE DEF Skippable
  <1>2. ASSUME ~Skippable(1) PROVE Ends
    BY <1>1, <1>2 DEF MaxContinuation
  <1>3. ASSUME Skippable(1), ~Skippable(2) PROVE Ends
    <2>1. 1 \in 0 .. MaxContinuation /\ ~Skippable(1 + 1)
      BY <1>3 DEF MaxContinuation
    <2> QED BY <1>3, <2>1
  <1>4. ASSUME Skippable(2), ~Skippable(3) PROVE Ends
    <2>1. 2 \in 0 .. MaxContinuation /\ ~Skippable(2 + 1)
      BY <1>4 DEF MaxContinuation
    <2> QED BY <1>4, <2>1
  <1>5. ASSUME Skippable(3) PROVE Ends
    <2>1. 3 \in 0 .. MaxContinuation /\ 3 = MaxContinuation
      BY DEF MaxContinuation
    <2> QED BY <1>5, <2>1
  <1>6. Ends
    BY <1>2, <1>3, <1>4, <1>5
  <1> QED BY <1>6 DEF Skippable

\* Where replay_resume_offset starts: where asked, at the beginning, or after
\* the continuation bytes it passes.
LEMMA ResumeStart ==
    ASSUME ReplayInv, NEW requested \in Nat,
           ~Covered(capacity, Limit, total, requested),
           NEW earliest, earliest = Earliest(capacity, Limit, total), earliest # 0
    PROVE  \E n \in 0 .. MaxContinuation :
              /\ ResumeOffset(requested) = earliest + n
              /\ earliest + n <= total
              /\ \A i \in 0 .. n - 1 : IsContinuation(earliest + i)
              /\ \/ n = MaxContinuation
                 \/ earliest + (n + 1) > total
                 \/ ~IsContinuation(earliest + n)
  <1> DEFINE Skippable(n) == /\ earliest + n <= total
                             /\ \A i \in 0 .. n - 1 : IsContinuation(earliest + i)
             Stops(n) == Skippable(n) /\ (n = MaxContinuation \/ ~Skippable(n + 1))
  <1>1. capacity \in Nat /\ total \in Nat /\ Limit \in Nat
    BY CapacityAssumption, LimitAssumption DEF ReplayInv, TypeOK
  <1>2. earliest \in Nat /\ earliest <= total
    BY <1>1, EarliestRange
  <1>3. \E n \in 0 .. MaxContinuation : Stops(n)
    BY <1>1, <1>2, SearchEnds
  <1>4. ResumeOffset(requested) = earliest + (CHOOSE n \in 0 .. MaxContinuation : Stops(n))
    BY DEF ResumeOffset
  <1> HIDE DEF Stops
  <1>5. PICK n \in 0 .. MaxContinuation : ResumeOffset(requested) = earliest + n /\ Stops(n)
    BY <1>3, <1>4
  <1> USE DEF Stops
  <1>6. n \in Nat /\ earliest + n <= total /\ \A i \in 0 .. n - 1 : IsContinuation(earliest + i)
    BY <1>5
  <1>7. ASSUME earliest + (n + 1) <= total, IsContinuation(earliest + n) PROVE Skippable(n + 1)
    <2>1. \A i \in 0 .. (n + 1) - 1 : i \in 0 .. n - 1 \/ i = n
      BY <1>6
    <2> QED BY <1>6, <1>7, <2>1
  <1>8. earliest + (n + 1) <= total \/ earliest + (n + 1) > total
    BY <1>1, <1>2, <1>6
  <1> QED BY <1>5, <1>6, <1>7, <1>8

\* A replay starts in the window, where asked or on a character, and reaches the
\* newest byte (replay_resume_offset).
THEOREM ResumesCorrectly == Spec => []ResumesRight
  <1>1. ASSUME ReplayInv, NEW requested \in 0 .. total + 1, NEW start, start = ResumeOffset(requested)
        PROVE  /\ start \in ResumeOffsets(capacity, Limit, total, requested)
               /\ Oldest(capacity, total) <= start /\ start <= total
               /\ total - start <= Limit
               /\ capacity > 0 => Len(Read(start, MaxTotal)) = total - start
               /\ start # requested /\ start < total => start \notin continuation
    <2>1. /\ capacity \in Nat /\ total \in Nat /\ Limit \in Nat /\ requested \in Nat
          /\ MaxTotal \in Nat /\ total <= MaxTotal
      BY <1>1, CapacityAssumption, LimitAssumption, BoundsAssumption DEF ReplayInv, TypeOK
    <2>2. PICK earliest : earliest = Earliest(capacity, Limit, total)
      OBVIOUS
    <2>3. /\ Oldest(capacity, total) \in Nat /\ earliest \in Nat
          /\ Oldest(capacity, total) <= earliest /\ earliest <= total /\ total - earliest <= Limit
      BY <2>1, <2>2, EarliestRange
    <2>4. /\ start \in ResumeOffsets(capacity, Limit, total, requested)
          /\ start # requested /\ start < total => start \notin continuation
      <3>1. CASE Covered(capacity, Limit, total, requested)
        BY <1>1, <3>1 DEF ResumeOffset, ResumeOffsets
      <3>2. CASE ~Covered(capacity, Limit, total, requested) /\ earliest = 0
        <4>1. start = 0 /\ start \in ResumeOffsets(capacity, Limit, total, requested)
          BY <1>1, <2>2, <3>2 DEF ResumeOffset, ResumeOffsets
        <4>2. 0 \notin continuation
          BY <1>1 DEF ReplayInv, WellFormed, MaxContinuation
        <4> QED BY <4>1, <4>2
      <3>3. CASE ~Covered(capacity, Limit, total, requested) /\ earliest # 0
        <4>1. PICK n \in 0 .. MaxContinuation :
                 /\ start = earliest + n
                 /\ earliest + n <= total
                 /\ \A i \in 0 .. n - 1 : IsContinuation(earliest + i)
                 /\ \/ n = MaxContinuation
                    \/ earliest + (n + 1) > total
                    \/ ~IsContinuation(earliest + n)
          BY <1>1, <2>1, <2>2, <3>3, ResumeStart
        <4>2. start \in earliest .. Smaller(earliest + MaxContinuation, total)
          BY <2>1, <2>3, <4>1 DEF Smaller, MaxContinuation
        <4>3. start \in ResumeOffsets(capacity, Limit, total, requested)
          BY <2>2, <3>3, <4>2 DEF ResumeOffsets
        <4>4. ASSUME start < total, start \in continuation PROVE FALSE
          <5>1. ASSUME NEW k \in earliest .. total - 1 PROVE IsContinuation(k) <=> k \in continuation
            <6>1. capacity > 0
              BY <2>1, <2>3, <5>1 DEF Oldest, Larger
            <6>2. ring[k % capacity] = k
              BY <1>1, <2>1, <2>3, <5>1, <6>1 DEF ReplayInv, RingOK
            <6> QED BY <6>2 DEF IsContinuation
          <5>2. IsContinuation(start)
            BY <2>1, <2>3, <4>1, <4>4, <5>1
          <5>3. n = MaxContinuation
            BY <2>1, <2>3, <4>1, <4>4, <5>2
          <5>4. PICK lead \in (start - MaxContinuation) .. (start - 1) : lead >= 0 /\ lead \notin continuation
            BY <1>1, <4>4 DEF ReplayInv, WellFormed
          <5>5. lead - earliest \in 0 .. n - 1 /\ earliest + (lead - earliest) = lead
                /\ lead \in earliest .. total - 1
            BY <2>1, <2>3, <4>1, <4>4, <5>3, <5>4 DEF MaxContinuation
          <5>6. IsContinuation(lead)
            BY <4>1, <5>5
          <5> QED BY <5>1, <5>4, <5>5, <5>6
        <4> QED BY <4>3, <4>4
      <3> QED BY <3>1, <3>2, <3>3
    <2>5. start \in Nat /\ earliest <= start /\ start <= total
      <3>1. start \in Earliest(capacity, Limit, total) .. total /\ start \in Nat
        BY <2>1, <2>4, ResumeRange
      <3> QED BY <2>1, <2>2, <2>3, <3>1
    <2>6. capacity > 0 => Len(Read(start, MaxTotal)) = total - start
      <3>1. capacity > 0 => ReadLength(capacity, total, start, MaxTotal) = total - start
        BY <2>1, <2>3, <2>5 DEF ReadLength, Smaller
      <3>2. Read(start, MaxTotal) = [i \in 1 .. ReadLength(capacity, total, start, MaxTotal) |-> start + i - 1]
        BY <1>1, <2>1, <2>5, ReadIs
      <3>3. total - start \in Nat
        BY <2>1, <2>5
      <3> QED BY <3>1, <3>2, <3>3
    <2> QED BY <2>1, <2>3, <2>4, <2>5, <2>6
  <1>2. ReplayInv => ResumesRight
    BY <1>1 DEF ResumesRight, ResumeInWindow, StartsOnCharacter
  <1> QED BY <1>2, ReplayCorrect, PTL

-----------------------------------------------------------------------------
\* What the ring keeps is the newest of the stream (replay.h).
LEMMA Kept ==
    ASSUME ReplayInv
    PROVE  Read(Oldest(capacity, total), MaxTotal) =
             [i \in 1 .. total - Oldest(capacity, total) |-> Oldest(capacity, total) + i - 1]
  <1>1. /\ capacity \in Nat /\ total \in Nat
        /\ MaxTotal \in Nat /\ total <= MaxTotal
    BY CapacityAssumption, BoundsAssumption DEF ReplayInv, TypeOK
  <1>2. Oldest(capacity, total) \in Nat /\ Oldest(capacity, total) <= total
    BY <1>1 DEF Oldest, Larger
  <1>3. ReadLength(capacity, total, Oldest(capacity, total), MaxTotal) = total - Oldest(capacity, total)
    BY <1>1, <1>2 DEF ReadLength, Smaller, Oldest, Larger
  <1> QED BY <1>1, <1>2, <1>3, ReadIs

\* ... and after a step.
LEMMA KeptNext ==
    ReplayInv' => Read(Oldest(capacity, total), MaxTotal)'
                    = [i \in 1 .. (total - Oldest(capacity, total))' |-> Oldest(capacity, total)' + i - 1]
  <1> DEFINE KeptNow == Read(Oldest(capacity, total), MaxTotal) =
             [i \in 1 .. total - Oldest(capacity, total) |-> Oldest(capacity, total) + i - 1]
  <1>1. ReplayInv => KeptNow
    BY Kept
  <1> HIDE DEF KeptNow
  <1>2. ReplayInv' => KeptNow'
    BY <1>1, PTL
  <1> QED BY <1>2 DEF KeptNow

\* The end of a stretch of the stream.
LEMMA Suffix ==
    ASSUME NEW from \in Nat, NEW n \in Nat, NEW m \in 0 .. n
    PROVE  SubSeq([i \in 1 .. n |-> from + i - 1], m + 1, n)
             = [i \in 1 .. n - m |-> (from + m) + i - 1]
  OBVIOUS

\* An append is what the promise calls Grow.
LEMMA AppendGrows ==
    ASSUME ReplayInv, ReplayInv', NEW length \in 1 .. MaxAppend,
           NEW cont \in SUBSET (total .. total + length - 1), AppendOutput(length, cont)
    PROVE  Window!Grow(length)
  <1>1. /\ capacity \in Nat /\ total \in Nat /\ length \in Nat /\ length > 0
        /\ total' = total + length /\ capacity' = capacity
    BY CapacityAssumption, BoundsAssumption DEF ReplayInv, TypeOK, AppendOutput
  <1>2. PICK old, new : old = Oldest(capacity, total) /\ new = Oldest(capacity, total + length)
    OBVIOUS
  <1>3. /\ old \in Nat /\ new \in Nat /\ old <= total /\ new <= total + length /\ old <= new
        /\ total - old <= capacity
        /\ new # old => total + length - new = capacity
        /\ total + length - new <= capacity
    BY <1>1, <1>2 DEF Oldest, Larger
  <1>4. PICK s, t : /\ s = [i \in 1 .. total - old |-> old + i - 1]
                    /\ t = [i \in 1 .. length |-> total + i - 1]
    OBVIOUS
  <1>5. s \o t = [i \in 1 .. total + length - old |-> old + i - 1]
    BY <1>1, <1>3, <1>4
  <1>6. Window!Newest(s \o t) = [i \in 1 .. total + length - new |-> new + i - 1]
    <2>1. Len(s \o t) = total + length - old
      BY <1>1, <1>3, <1>5
    <2>2. CASE total + length - old <= capacity
      <3>1. new = old
        BY <1>1, <1>2, <1>3, <2>2 DEF Oldest, Larger
      <3> QED BY <1>5, <2>1, <2>2, <3>1 DEF Window!Newest
    <2>3. CASE total + length - old > capacity
      <3>1. new = total + length - capacity
        BY <1>1, <1>2, <1>3, <2>3 DEF Oldest, Larger
      <3>2. Window!Newest(s \o t) = SubSeq(s \o t, new - old + 1, total + length - old)
        BY <1>1, <1>3, <2>1, <2>3, <3>1 DEF Window!Newest
      <3>3. /\ total + length - old \in Nat /\ new - old \in 0 .. total + length - old
            /\ old + (new - old) = new /\ (total + length - old) - (new - old) = total + length - new
        BY <1>1, <1>3
      <3>4. SubSeq([i \in 1 .. total + length - old |-> old + i - 1], (new - old) + 1, total + length - old)
              = [i \in 1 .. (total + length - old) - (new - old) |-> (old + (new - old)) + i - 1]
        BY <1>3, <3>3, Suffix
      <3> QED BY <1>5, <3>2, <3>3, <3>4
    <2> QED BY <1>1, <1>3, <2>2, <2>3
  <1>7. Read(Oldest(capacity, total), MaxTotal) = s
    BY <1>2, <1>4, Kept
  <1>8. Read(Oldest(capacity, total), MaxTotal)' = [i \in 1 .. total + length - new |-> new + i - 1]
    <2>1. Oldest(capacity, total)' = new
      BY <1>1, <1>2
    <2>2. (total - Oldest(capacity, total))' = total + length - new
      BY <1>1, <1>2, <2>1 DEF Oldest, Larger
    <2>3. Read(Oldest(capacity, total), MaxTotal)'
            = [i \in 1 .. (total - Oldest(capacity, total))' |-> Oldest(capacity, total)' + i - 1]
      BY KeptNext
    <2> QED BY <2>1, <2>2, <2>3
  <1> QED BY <1>1, <1>4, <1>6, <1>7, <1>8 DEF Window!Grow

\* The ring implements the window that replay.h promises: an append is Grow.
THEOREM WindowImplemented == Spec => KeepsRecentOutput
  <1>1. Init => Window!Init
    <2> SUFFICES ASSUME Init PROVE Window!Init
      OBVIOUS
    <2>1. capacity \in Nat /\ total = 0
      BY CapacityAssumption DEF Init
    <2>2. ReadLength(capacity, total, Oldest(capacity, total), MaxTotal) = 0
      BY <2>1 DEF ReadLength, Oldest, Larger
    <2>3. Read(Oldest(capacity, total), MaxTotal) = <<>>
      BY <2>2 DEF Read
    <2> QED BY <2>1, <2>3 DEF Window!Init
  <1>2. ReplayInv /\ ReplayInv' /\ [Next]_vars =>
          [\E n \in 1 .. MaxAppend : Window!Grow(n)]_<<capacity, total, Read(Oldest(capacity, total), MaxTotal)>>
    <2> SUFFICES ASSUME ReplayInv, ReplayInv', [Next]_vars
                 PROVE  \/ \E n \in 1 .. MaxAppend : Window!Grow(n)
                        \/ UNCHANGED <<capacity, total, Read(Oldest(capacity, total), MaxTotal)>>
      OBVIOUS
    <2>1. CASE Next
      <3>1. PICK length \in 1 .. MaxAppend : \E cont \in SUBSET (total .. total + length - 1) :
               AppendOutput(length, cont)
        BY <2>1 DEF Next
      <3> QED BY <3>1, AppendGrows
    <2>2. CASE UNCHANGED vars
      BY <2>2, Kept, KeptNext DEF vars
    <2> QED BY <2>1, <2>2
  <1> QED BY <1>1, <1>2, ReplayCorrect, PTL DEF Spec, KeepsRecentOutput, Window!Spec
=============================================================================
