--------------------------- MODULE RingBufProofs ---------------------------
(***************************************************************************)
(* The ring buffer is a bounded FIFO queue without lost wakeups for every  *)
(* capacity, batch length and number of goroutines.                        *)
(*                                                                         *)
(* The invariant needs the relation between the two indices and the two    *)
(* counters (Balance): modulo Capacity the write index is the read index   *)
(* plus readable, and one subtraction of Capacity is enough although both  *)
(* indices may rest at Capacity.  Window says which slots are in use.      *)
(***************************************************************************)
EXTENDS RingBuf, SequenceTheorems, TLAPS

InWindow(i) ==
  \/ i >= readIndex /\ i < readIndex + readable
  \/ i + Capacity < readIndex + readable

Balance ==
  /\ writable = Capacity - readable
  /\ \/ writeIndex = readIndex + readable
     \/ writeIndex = readIndex + readable - Capacity

Window == \A i \in Slots : entries[i] # Nil <=> InWindow(i)

IInv == TypeOK /\ Balance /\ Window /\ NoLostWakeup

USE RingAssumption

-----------------------------------------------------------------------------
\* A prefix of a caller's slice.
LEMMA Prefix ==
  ASSUME NEW s \in Batches, NEW m \in Nat
  PROVE  /\ Len(s) \in Nat
         /\ min(m, Len(s)) \in Nat
         /\ min(m, Len(s)) <= m
         /\ min(m, Len(s)) <= Len(s)
         /\ Len(SubSeq(s, 1, min(m, Len(s)))) = min(m, Len(s))
         /\ SubSeq(s, 1, min(m, Len(s))) \in [1..min(m, Len(s)) -> Entry]
  <1>1. PICK k \in 0..MaxBatch : s \in [1..k -> Entry]
    BY DEF Batches
  <1>2. s \in Seq(Entry) /\ Len(s) = k
    BY <1>1
  <1>3. min(m, Len(s)) \in 0..k /\ min(m, Len(s)) <= m
    BY <1>2 DEF min
  <1> HIDE DEF min
  <1>4. ASSUME NEW j \in 0..k
        PROVE  Len(SubSeq(s, 1, j)) = j /\ SubSeq(s, 1, j) \in [1..j -> Entry]
    <2>1. SubSeq(s, 1, j) \in Seq(Entry) /\ Len(SubSeq(s, 1, j)) = j
      BY <1>2
    <2> QED BY <2>1, LenProperties
  <1> QED BY <1>2, <1>3, <1>4

\* The counters of the ring are numbers.
LEMMA Numbers ==
  ASSUME IInv
  PROVE  /\ Capacity \in Nat /\ Capacity > 0
         /\ readIndex \in Nat /\ readIndex <= Capacity
         /\ writeIndex \in Nat /\ writeIndex <= Capacity
         /\ readable \in Nat /\ readable <= Capacity
         /\ writable \in Nat /\ writable = Capacity - readable
         /\ writeIndex = readIndex + readable \/ writeIndex = readIndex + readable - Capacity
  BY DEF IInv, TypeOK, Balance

-----------------------------------------------------------------------------
\* Wrapping an index around.
LEMMA WrapCases ==
  ASSUME NEW x \in Int
  PROVE  (x < Capacity => Wrap(x) = x) /\ (x >= Capacity => Wrap(x) = x - Capacity)
  BY DEF Wrap

\* Where the entries of a write go.
LEMMA WriteSlots ==
  ASSUME IInv, NEW n \in Nat, n <= writable, NEW t \in [1..n -> Entry], Len(t) = n, write(t),
         readable' = readable + n, readIndex' = readIndex
  PROVE  /\ writeIndex' \in 0..Capacity
         /\ writeIndex' = readIndex + readable + n \/ writeIndex' = readIndex + readable + n - Capacity
         /\ entries' \in [Slots -> Entry \cup {Nil}]
         /\ \A i \in Slots : InWindow(i) => entries'[i] = entries[i]
         /\ \A j \in 1..n :
              /\ Wrap(readIndex + readable + j - 1) \in Slots
              /\ entries'[Wrap(readIndex + readable + j - 1)] = t[j]
         /\ \A i \in Slots : (entries'[i] # Nil) <=> InWindow(i)'
  <1>0. /\ Capacity \in Nat /\ Capacity > 0
        /\ readIndex \in Nat /\ readIndex <= Capacity
        /\ writeIndex \in Nat /\ writeIndex <= Capacity
        /\ readable \in Nat /\ readable <= Capacity
        /\ writable \in Nat /\ writable = Capacity - readable
        /\ writeIndex = readIndex + readable \/ writeIndex = readIndex + readable - Capacity
    BY Numbers
  <1> DEFINE first == min(n, Capacity - writeIndex)
  <1>1. /\ first \in Nat /\ first <= n /\ writeIndex + first <= Capacity
        /\ first < n => writeIndex + first = Capacity
    BY <1>0 DEF min
  <1>2. /\ entries' = [i \in Slots |->
              IF i >= writeIndex /\ i < writeIndex + first THEN t[i - writeIndex + 1]
              ELSE IF i < n - first THEN t[first + i + 1]
              ELSE entries[i]]
        /\ writeIndex' = IF first < n THEN n - first ELSE writeIndex + first
    BY DEF write
  <1> HIDE DEF first
  <1>3. /\ writeIndex' \in 0..Capacity
        /\ writeIndex' = readIndex + readable + n \/ writeIndex' = readIndex + readable + n - Capacity
    BY <1>1, <1>2, <1>0
  <1>4. entries \in [Slots -> Entry \cup {Nil}]
    BY DEF IInv, TypeOK
  <1>5. \A i \in Slots : i \in Int /\ 0 <= i /\ i < Capacity
    BY DEF Slots
  <1>6. \A i \in Slots : InWindow(i) => ~(i >= writeIndex /\ i < writeIndex + first) /\ ~(i < n - first)
    BY <1>1, <1>5, <1>0 DEF InWindow
  <1>7. \A i \in Slots : InWindow(i) => entries'[i] = entries[i]
    BY <1>2, <1>6
  <1>8. \A i \in Slots : i >= writeIndex /\ i < writeIndex + first => i - writeIndex + 1 \in 1..n
    BY <1>1, <1>5, <1>0
  <1>9. \A i \in Slots : i < n - first => first + i + 1 \in 1..n
    BY <1>1, <1>5, <1>0
  <1>10. entries' \in [Slots -> Entry \cup {Nil}]
    BY <1>2, <1>4, <1>8, <1>9
  <1>11. ASSUME NEW j \in 1..n
         PROVE  /\ Wrap(readIndex + readable + j - 1) \in Slots
                /\ entries'[Wrap(readIndex + readable + j - 1)] = t[j]
    <2> DEFINE i == Wrap(readIndex + readable + j - 1)
    <2>1. i \in Slots
      BY <1>0 DEF Slots, Wrap
    <2>2. CASE j <= first
      <3>1. i = writeIndex + j - 1
        BY <2>2, <1>1, <1>0 DEF Wrap
      <3>2. i >= writeIndex /\ i < writeIndex + first /\ i - writeIndex + 1 = j
        BY <3>1, <2>2, <1>1, <1>0
      <3> HIDE DEF i
      <3>3. entries'[i] = t[j]
        BY <2>1, <3>2, <1>2
      <3> QED BY <2>1, <3>3 DEF i
    <2>3. CASE j > first
      <3>1. i = j - first - 1
        BY <2>3, <1>1, <1>0 DEF Wrap
      <3>2. i < n - first /\ first + i + 1 = j /\ ~(i >= writeIndex /\ i < writeIndex + first)
        BY <3>1, <2>3, <1>1, <1>0
      <3> HIDE DEF i
      <3>3. entries'[i] = t[j]
        BY <2>1, <3>2, <1>2
      <3> QED BY <2>1, <3>3 DEF i
    <2> QED BY <2>2, <2>3, <1>1
  <1>12. \A i \in Slots : InWindow(i)' <=>
            \/ InWindow(i)
            \/ i >= writeIndex /\ i < writeIndex + first
            \/ i < n - first
    <2> SUFFICES ASSUME NEW i \in Slots
                 PROVE  InWindow(i)' <=> \/ InWindow(i)
                                         \/ i >= writeIndex /\ i < writeIndex + first
                                         \/ i < n - first
      OBVIOUS
    <2>1. InWindow(i)' <=> \/ i >= readIndex /\ i < readIndex + readable + n
                           \/ i + Capacity < readIndex + readable + n
      BY <1>0, <1>5 DEF InWindow
    <2> QED BY <2>1, <1>1, <1>5, <1>0 DEF InWindow
  <1>13. \A i \in Slots : (entries'[i] # Nil) <=> InWindow(i)'
    <2>1. \A i \in Slots : entries[i] # Nil <=> InWindow(i)
      BY DEF IInv, Window
    <2>2. \A i \in Slots : i >= writeIndex /\ i < writeIndex + first => entries'[i] \in Entry
      BY <1>2, <1>8
    <2>3. \A i \in Slots : i < n - first => entries'[i] \in Entry
      BY <1>2, <1>8, <1>9
    <2>4. \A i \in Slots : ~(i >= writeIndex /\ i < writeIndex + first) /\ ~(i < n - first)
                             => entries'[i] = entries[i]
      BY <1>2
    <2> QED BY <2>1, <2>2, <2>3, <2>4, <1>12
  <1> QED BY <1>3, <1>7, <1>10, <1>11, <1>13

\* What a read hands out and clears.
LEMMA ReadSlots ==
  ASSUME IInv, NEW n \in Nat, n <= readable, read(n),
         readable' = readable - n, writeIndex' = writeIndex
  PROVE  /\ readIndex' \in 0..Capacity
         /\ \/ writeIndex = readIndex' + (readable - n)
            \/ writeIndex = readIndex' + (readable - n) - Capacity
         /\ entries' \in [Slots -> Entry \cup {Nil}]
         /\ out' = [j \in 1..n |-> entries[SlotOf(j - 1)]]
         /\ \A k \in 0..(readable - n - 1) :
              /\ Wrap(readIndex' + k) = SlotOf(n + k)
              /\ entries'[SlotOf(n + k)] = entries[SlotOf(n + k)]
         /\ \A i \in Slots : (entries'[i] # Nil) <=> InWindow(i)'
  <1>0. /\ Capacity \in Nat /\ Capacity > 0
        /\ readIndex \in Nat /\ readIndex <= Capacity
        /\ writeIndex \in Nat /\ writeIndex <= Capacity
        /\ readable \in Nat /\ readable <= Capacity
        /\ writable \in Nat /\ writable = Capacity - readable
        /\ writeIndex = readIndex + readable \/ writeIndex = readIndex + readable - Capacity
    BY Numbers
  <1> DEFINE first == min(n, Capacity - readIndex)
  <1>1. /\ first \in Nat /\ first <= n /\ readIndex + first <= Capacity
        /\ first < n => readIndex + first = Capacity
    BY <1>0 DEF min
  <1>2. /\ out' = [j \in 1..n |->
              IF j <= first THEN entries[readIndex + j - 1] ELSE entries[j - first - 1]]
        /\ entries' = [i \in Slots |->
              IF (i >= readIndex /\ i < readIndex + first) \/ i < n - first
              THEN Nil ELSE entries[i]]
        /\ readIndex' = IF first < n THEN n - first ELSE readIndex + first
    BY DEF read
  <1> HIDE DEF first
  <1>3. readIndex' \in 0..Capacity
    BY <1>1, <1>2, <1>0
  <1>4. \/ readIndex' = readIndex + n
        \/ readIndex' = readIndex + n - Capacity /\ readIndex + n > Capacity
    BY <1>1, <1>2, <1>0
  <1>5. \/ writeIndex = readIndex' + (readable - n)
        \/ writeIndex = readIndex' + (readable - n) - Capacity
    BY <1>4, <1>0
  <1>6. entries \in [Slots -> Entry \cup {Nil}]
    BY DEF IInv, TypeOK
  <1>7. entries' \in [Slots -> Entry \cup {Nil}]
    BY <1>2, <1>6
  <1>8. \A j \in 1..n : SlotOf(j - 1) = IF j <= first THEN readIndex + j - 1 ELSE j - first - 1
    BY <1>0, <1>1 DEF SlotOf, Wrap
  <1>9. out' = [j \in 1..n |-> entries[SlotOf(j - 1)]]
    BY <1>2, <1>8
  <1>10. \A i \in Slots : i \in Int /\ 0 <= i /\ i < Capacity
    BY DEF Slots
  <1>11. ASSUME NEW k \in 0..(readable - n - 1)
         PROVE  /\ Wrap(readIndex' + k) = SlotOf(n + k)
                /\ entries'[SlotOf(n + k)] = entries[SlotOf(n + k)]
    <2>1. Wrap(readIndex' + k) = SlotOf(n + k)
      <3>1. k \in Nat /\ n + k < readable /\ readIndex' \in Nat
        BY <1>0, <1>3
      <3>2. CASE readIndex' = readIndex + n
        <4>1. readIndex' + k = readIndex + (n + k)
          BY <3>1, <3>2, <1>0
        <4> QED BY <4>1 DEF SlotOf
      <3>3. CASE readIndex' = readIndex + n - Capacity /\ readIndex + n > Capacity
        <4>1. readIndex' + k < Capacity /\ readIndex + (n + k) >= Capacity
              /\ readIndex' + k = (readIndex + (n + k)) - Capacity
          BY <3>1, <3>3, <1>0
        <4>2. readIndex' + k \in Int /\ readIndex + (n + k) \in Int
          BY <3>1, <1>0
        <4>3. Wrap(readIndex' + k) = readIndex' + k
          BY <4>1, <4>2, WrapCases
        <4>4. SlotOf(n + k) = (readIndex + (n + k)) - Capacity
          BY <4>1, <4>2, WrapCases DEF SlotOf
        <4> QED BY <4>1, <4>3, <4>4, Zenon
      <3> QED BY <3>2, <3>3, <1>4
    <2>2. SlotOf(n + k) \in Slots
      BY <1>0 DEF SlotOf, Wrap, Slots
    <2>3. ~(SlotOf(n + k) >= readIndex /\ SlotOf(n + k) < readIndex + first)
          /\ ~(SlotOf(n + k) < n - first)
      BY <1>0, <1>1 DEF SlotOf, Wrap
    <2> QED BY <2>1, <2>2, <2>3, <1>2
  <1>12. ASSUME NEW i \in Slots
         PROVE  InWindow(i)' <=> InWindow(i) /\ ~(i >= readIndex /\ i < readIndex + first)
                                             /\ ~(i < n - first)
    <2>1. InWindow(i)' <=> \/ i >= readIndex' /\ i < readIndex' + (readable - n)
                           \/ i + Capacity < readIndex' + (readable - n)
      BY DEF InWindow
    <2>2. CASE readIndex + n <= Capacity
      <3>1. readIndex' = readIndex + n /\ first = n
        BY <2>2, <1>0, <1>1, <1>2
      <3> QED BY <2>1, <3>1, <1>0, <1>10 DEF InWindow
    <2>3. CASE readIndex + n > Capacity
      <3>1. readIndex' = readIndex + n - Capacity /\ readIndex + first = Capacity
        BY <2>3, <1>0, <1>1, <1>2
      <3> QED BY <2>1, <3>1, <1>0, <1>1, <1>10 DEF InWindow
    <2> QED BY <2>2, <2>3, <1>0
  <1>13. \A i \in Slots : (entries'[i] # Nil) <=> InWindow(i)'
    <2>1. \A i \in Slots : entries[i] # Nil <=> InWindow(i)
      BY DEF IInv, Window
    <2> QED BY <2>1, <1>2, <1>12
  <1> QED BY <1>3, <1>5, <1>7, <1>9, <1>11, <1>13

-----------------------------------------------------------------------------
\* The readable slots hold entries, and they are the slots in the window.
LEMMA SlotsInUse ==
  ASSUME IInv
  PROVE  /\ \A k \in 0..(readable - 1) : SlotOf(k) \in Slots /\ entries[SlotOf(k)] \in Entry
         /\ \A i \in Slots : InWindow(i) <=> \E k \in 0..(readable - 1) : i = SlotOf(k)
  <1>0. /\ Capacity \in Nat /\ Capacity > 0
        /\ readIndex \in Nat /\ readIndex <= Capacity
        /\ readable \in Nat /\ readable <= Capacity
    BY Numbers
  <1>1. \A k \in 0..(readable - 1) : SlotOf(k) \in Slots /\ InWindow(SlotOf(k))
    BY <1>0 DEF SlotOf, Wrap, Slots, InWindow
  <1>2. \A k \in 0..(readable - 1) : entries[SlotOf(k)] \in Entry
    BY <1>1 DEF IInv, TypeOK, Window
  <1>3. ASSUME NEW i \in Slots, InWindow(i)
        PROVE  \E k \in 0..(readable - 1) : i = SlotOf(k)
    <2>1. i \in Int /\ 0 <= i /\ i < Capacity
      BY DEF Slots
    <2>2. CASE i >= readIndex /\ i < readIndex + readable
      <3>1. i - readIndex \in 0..(readable - 1) /\ i = SlotOf(i - readIndex)
        BY <2>1, <2>2, <1>0 DEF SlotOf, Wrap
      <3> QED BY <3>1
    <2>3. CASE i + Capacity < readIndex + readable
      <3>1. i + Capacity - readIndex \in 0..(readable - 1) /\ i = SlotOf(i + Capacity - readIndex)
        BY <2>1, <2>3, <1>0 DEF SlotOf, Wrap
      <3> QED BY <3>1
    <2> QED BY <1>3, <2>2, <2>3 DEF InWindow
  <1> QED BY <1>1, <1>2, <1>3

\* The queue the ring stands for is a sequence of entries.
LEMMA ContentsIsSeq ==
  ASSUME IInv
  PROVE  /\ Contents \in Seq(Entry)
         /\ Len(Contents) = readable
         /\ \A i \in 1..readable : Contents[i] = entries[SlotOf(i - 1)]
  <1>1. readable \in Nat
    BY Numbers
  <1>2. \A i \in 1..readable : i - 1 \in 0..(readable - 1)
    BY <1>1
  <1>3. \A i \in 1..readable : entries[SlotOf(i - 1)] \in Entry
    BY <1>2, SlotsInUse
  <1>4. Contents = [i \in 1..readable |-> entries[SlotOf(i - 1)]]
    BY DEF Contents
  <1> QED BY <1>1, <1>3, <1>4

-----------------------------------------------------------------------------
\* Waking the waiters of one side leaves nobody of that side asleep.
LEMMA Woken ==
  ASSUME NEW c \in [Writers \cup Readers -> {"idle", "asleep", "woken"}], NEW ps
  PROVE  /\ Broadcast(c, ps) \in [Writers \cup Readers -> {"idle", "asleep", "woken"}]
         /\ \A p \in Writers \cup Readers :
              Broadcast(c, ps)[p] = "asleep" <=> c[p] = "asleep" /\ p \notin ps
  BY DEF Broadcast

\* Write, once it has room: the prefix that fits joins the queue.
LEMMA StoreStep ==
  ASSUME IInv, NEW w \in Writers, NEW s \in Batches, ~closed, Len(s) = 0 \/ writable > 0,
         Store(w, s)
  PROVE  IInv' /\ [Q!Next]_(Q!vars)
  <1> DEFINE n == min(writable, Len(s))
             t == SubSeq(s, 1, n)
  <1>0. /\ Capacity \in Nat /\ Capacity > 0
        /\ readIndex \in Nat /\ readIndex <= Capacity
        /\ readable \in Nat /\ readable <= Capacity
        /\ writable \in Nat /\ writable = Capacity - readable
    BY Numbers
  <1>1. n \in Nat /\ n <= writable /\ n <= Len(s) /\ Len(t) = n /\ t \in [1..n -> Entry]
    BY <1>0, Prefix
  <1>2. /\ write(t)
        /\ writable' = writable - n
        /\ readable' = readable + n
        /\ call' = Broadcast([call EXCEPT ![w] = "idle"], Readers)
        /\ batch' = [batch EXCEPT ![w] = <<>>]
        /\ readIndex' = readIndex /\ closed' = closed /\ want' = want /\ out' = out
    BY DEF Store
  <1>a. (writable > 0 /\ Len(s) > 0 => n > 0) /\ Len(s) \in Nat
    BY <1>0, Prefix DEF min
  <1> HIDE DEF n, t
  <1>3. /\ writeIndex' \in 0..Capacity
        /\ writeIndex' = readIndex + readable + n \/ writeIndex' = readIndex + readable + n - Capacity
        /\ entries' \in [Slots -> Entry \cup {Nil}]
        /\ \A i \in Slots : InWindow(i) => entries'[i] = entries[i]
        /\ \A j \in 1..n :
              /\ Wrap(readIndex + readable + j - 1) \in Slots
              /\ entries'[Wrap(readIndex + readable + j - 1)] = t[j]
        /\ \A i \in Slots : (entries'[i] # Nil) <=> InWindow(i)'
    BY <1>1, <1>2, WriteSlots
  <1>4. Balance'
    BY <1>0, <1>1, <1>2, <1>3 DEF Balance
  <1>5. Window'
    BY <1>3 DEF Window, Slots
  <1> DEFINE c == [call EXCEPT ![w] = "idle"]
  <1>6. /\ c \in [Writers \cup Readers -> {"idle", "asleep", "woken"}]
        /\ \A p \in Writers \cup Readers : c[p] = "asleep" => call[p] = "asleep"
    BY DEF IInv, TypeOK
  <1> HIDE DEF c
  <1>7. /\ call' \in [Writers \cup Readers -> {"idle", "asleep", "woken"}]
        /\ \A p \in Writers \cup Readers :
             call'[p] = "asleep" => call[p] = "asleep" /\ p \notin Readers
    <2>1. call' = Broadcast(c, Readers)
      BY <1>2 DEF c
    <2>2. /\ Broadcast(c, Readers) \in [Writers \cup Readers -> {"idle", "asleep", "woken"}]
          /\ \A p \in Writers \cup Readers :
               Broadcast(c, Readers)[p] = "asleep" <=> c[p] = "asleep" /\ p \notin Readers
      BY ONLY <1>6, Woken, Zenon
    <2> QED BY ONLY <2>1, <2>2, <1>6, Zenon
  <1>8. batch' \in [Writers -> Batches]
    <2>1. <<>> \in Batches
      <3>1. <<>> \in [1..0 -> Entry] /\ 0 \in 0..MaxBatch
        OBVIOUS
      <3> QED BY <3>1 DEF Batches
    <2> QED BY <2>1, <1>2 DEF IInv, TypeOK
  <1>9. TypeOK'
    <2>1. writable' \in 0..Capacity /\ readable' \in 0..Capacity /\ readIndex' \in 0..Capacity
      BY <1>0, <1>1, <1>2
    <2> QED BY <1>2, <1>3, <1>7, <1>8, <2>1 DEF IInv, TypeOK, Slots, Batches
  <1>10. NoLostWakeup'
    <2>1. ~(\E r \in Readers : call'[r] = "asleep")
      BY <1>7
    <2>2. (\E q \in Writers : call'[q] = "asleep") => writable = 0
      BY <1>7 DEF IInv, NoLostWakeup
    <2>3. writable = 0 => writable' = 0
      BY <1>0, <1>1, <1>2
    <2> QED BY <1>2, <2>1, <2>2, <2>3 DEF NoLostWakeup
  <1>11. IInv'
    BY <1>4, <1>5, <1>9, <1>10 DEF IInv
  <1>12. CASE n = 0
    <2>1. entries' = entries
      <3>1. \A i \in Slots : entries'[i] = entries[i]
        <4>1. ASSUME NEW i \in Slots, ~InWindow(i)
              PROVE  entries'[i] = entries[i]
          <5>1. ~InWindow(i)'
            BY <4>1, <1>2, <1>12, <1>0 DEF InWindow
          <5>2. entries'[i] = Nil
            BY <5>1, <1>3
          <5>3. entries[i] = Nil
            BY <4>1 DEF IInv, Window
          <5> QED BY <5>2, <5>3
        <4> QED BY <4>1, <1>3
      <3> QED BY <3>1, <1>3 DEF IInv, TypeOK
    <2>2. readable' = readable
      BY <1>0, <1>2, <1>12
    <2>3. Contents' = Contents
      BY <2>1, <2>2, <1>2 DEF Contents, SlotOf, Wrap
    <2> QED BY <1>11, <2>3, <1>2 DEF Q!vars
  <1>13. CASE n > 0
    <2>1. Contents \in Seq(Entry) /\ Len(Contents) = readable
          /\ \A i \in 1..readable : Contents[i] = entries[SlotOf(i - 1)]
      BY ContentsIsSeq
    <2>2. t \in Seq(Entry)
      BY <1>1
    <2>3. /\ Contents \o t \in Seq(Entry)
          /\ Len(Contents \o t) = readable + n
          /\ \A i \in 1..(readable + n) :
               (Contents \o t)[i] = IF i <= readable THEN Contents[i] ELSE t[i - readable]
      <3>1. /\ Contents \o t \in Seq(Entry)
            /\ Len(Contents \o t) = Len(Contents) + Len(t)
            /\ \A i \in 1..(Len(Contents) + Len(t)) :
                 (Contents \o t)[i] = IF i <= Len(Contents) THEN Contents[i] ELSE t[i - Len(Contents)]
        BY ONLY <2>1, <2>2, ConcatProperties
      <3>2. Len(Contents) = readable /\ Len(t) = n
        BY <2>1, <1>1
      <3> QED BY <3>1, <3>2
    <2>4. Contents' = [i \in 1..(readable + n) |-> entries'[Wrap(readIndex + (i - 1))]]
      BY <1>2 DEF Contents, SlotOf, Wrap
    <2>5. ASSUME NEW i \in 1..(readable + n)
          PROVE  entries'[Wrap(readIndex + (i - 1))] = (Contents \o t)[i]
      <3>1. CASE i <= readable
        <4>1. i \in 1..readable /\ i - 1 \in 0..(readable - 1)
          BY <3>1, <1>0, <1>1
        <4>2. SlotOf(i - 1) \in Slots /\ InWindow(SlotOf(i - 1))
          BY <4>1, SlotsInUse
        <4>3. entries'[SlotOf(i - 1)] = Contents[i]
          BY <4>1, <4>2, <1>3, <2>1
        <4> QED BY <4>3, <3>1, <2>3 DEF SlotOf
      <3>2. CASE i > readable
        <4>1. i - readable \in 1..n /\ ~(i <= readable)
              /\ readIndex + readable + (i - readable) - 1 = readIndex + (i - 1)
          BY <3>2, <1>0, <1>1
        <4>2. entries'[Wrap(readIndex + readable + (i - readable) - 1)] = t[i - readable]
          BY <4>1, <1>3
        <4>3. (Contents \o t)[i] = t[i - readable]
          BY <4>1, <2>3
        <4>4. ASSUME NEW x, NEW y, x = y
              PROVE  entries'[Wrap(x)] = entries'[Wrap(y)]
          BY <4>4
        <4>5. entries'[Wrap(readIndex + readable + (i - readable) - 1)]
                = entries'[Wrap(readIndex + (i - 1))]
          BY <4>1, <4>4
        <4>6. entries'[Wrap(readIndex + (i - 1))] = t[i - readable]
          BY <4>2, <4>5
        <4> QED BY <4>3, <4>6, Zenon
      <3>3. i <= readable \/ i > readable
        BY <1>0, <1>1
      <3> QED BY <3>1, <3>2, <3>3, Zenon
    <2>6. Contents' = Contents \o t
      <3>1. Contents \o t = [i \in 1..(readable + n) |-> (Contents \o t)[i]]
        BY <2>3, LenProperties
      <3> QED BY <2>4, <2>5, <3>1
    <2>7. n \in 1..(Capacity - Len(Contents))
      BY <1>13, <2>1, <1>0, <1>1
    <2>8. Q!Put
      BY <2>6, <2>7, <1>1, <1>2 DEF Q!Put
    <2> QED BY <1>11, <2>8 DEF Q!Next
  <1> QED BY <1>12, <1>13, <1>1

\* Read, once there are entries: the head of the queue is handed out.
LEMMA FetchStep ==
  ASSUME IInv, NEW r \in Readers, NEW m \in 0..MaxBatch, m = 0 \/ readable > 0, Fetch(r, m)
  PROVE  IInv' /\ [Q!Next]_(Q!vars)
  <1> DEFINE n == min(readable, m)
  <1>0. /\ Capacity \in Nat /\ Capacity > 0
        /\ readIndex \in Nat /\ readIndex <= Capacity
        /\ writeIndex \in Nat
        /\ readable \in Nat /\ readable <= Capacity
        /\ writable \in Nat /\ writable = Capacity - readable
    BY Numbers
  <1>1. n \in Nat /\ n <= readable /\ n \in 0..MaxBatch
    BY <1>0 DEF min
  <1>2. /\ read(n)
        /\ readable' = readable - n
        /\ writable' = writable + n
        /\ call' = Broadcast([call EXCEPT ![r] = "idle"], Writers)
        /\ want' = [want EXCEPT ![r] = 0]
        /\ writeIndex' = writeIndex /\ closed' = closed /\ batch' = batch
    BY DEF Fetch
  <1> HIDE DEF n
  <1>3. /\ readIndex' \in 0..Capacity
        /\ \/ writeIndex = readIndex' + (readable - n)
           \/ writeIndex = readIndex' + (readable - n) - Capacity
        /\ entries' \in [Slots -> Entry \cup {Nil}]
        /\ out' = [j \in 1..n |-> entries[SlotOf(j - 1)]]
        /\ \A k \in 0..(readable - n - 1) :
             /\ Wrap(readIndex' + k) = SlotOf(n + k)
             /\ entries'[SlotOf(n + k)] = entries[SlotOf(n + k)]
        /\ \A i \in Slots : (entries'[i] # Nil) <=> InWindow(i)'
    BY <1>1, <1>2, ReadSlots
  <1>4. Balance'
    <2>1. writable' = Capacity - readable'
      BY <1>0, <1>1, <1>2
    <2> QED BY <2>1, <1>2, <1>3 DEF Balance
  <1>5. Window'
    BY <1>3 DEF Window, Slots
  <1> DEFINE c == [call EXCEPT ![r] = "idle"]
  <1>6. /\ c \in [Writers \cup Readers -> {"idle", "asleep", "woken"}]
        /\ \A p \in Writers \cup Readers : c[p] = "asleep" => call[p] = "asleep"
    BY DEF IInv, TypeOK
  <1> HIDE DEF c
  <1>7. /\ call' \in [Writers \cup Readers -> {"idle", "asleep", "woken"}]
        /\ \A p \in Writers \cup Readers :
             call'[p] = "asleep" => call[p] = "asleep" /\ p \notin Writers
    <2>1. call' = Broadcast(c, Writers)
      BY <1>2 DEF c
    <2>2. /\ Broadcast(c, Writers) \in [Writers \cup Readers -> {"idle", "asleep", "woken"}]
          /\ \A p \in Writers \cup Readers :
               Broadcast(c, Writers)[p] = "asleep" <=> c[p] = "asleep" /\ p \notin Writers
      BY ONLY <1>6, Woken, Zenon
    <2> QED BY ONLY <2>1, <2>2, <1>6, Zenon
  <1>8. Contents \in Seq(Entry) /\ Len(Contents) = readable
        /\ \A i \in 1..readable : Contents[i] = entries[SlotOf(i - 1)]
    BY ContentsIsSeq
  <1>9. \A i \in 1..readable : Contents[i] \in Entry
    BY <1>8
  <1>10. out' \in [1..n -> Entry]
    <2>1. \A j \in 1..n : j \in 1..readable
      BY <1>0, <1>1
    <2> QED BY <2>1, <1>3, <1>8, <1>9
  <1>11. TypeOK'
    <2>1. writable' \in 0..Capacity /\ readable' \in 0..Capacity /\ writeIndex' \in 0..Capacity
      BY <1>0, <1>1, <1>2 DEF IInv, TypeOK
    <2>2. out' \in Batches
      BY <1>1, <1>10 DEF Batches
    <2>3. want' \in [Readers -> 0..MaxBatch]
      BY <1>2 DEF IInv, TypeOK
    <2>4. closed' \in BOOLEAN /\ batch' \in [Writers -> Batches]
      BY <1>2 DEF IInv, TypeOK
    <2> QED BY <1>3, <1>7, <2>1, <2>2, <2>3, <2>4 DEF TypeOK, Slots, Batches
  <1>12. NoLostWakeup'
    <2>1. ~(\E q \in Writers : call'[q] = "asleep")
      BY <1>7
    <2>2. (\E q \in Readers : call'[q] = "asleep") => readable = 0 /\ ~closed
      BY <1>7 DEF IInv, NoLostWakeup
    <2>3. readable = 0 => readable' = 0
      BY <1>0, <1>1, <1>2
    <2> QED BY <1>2, <2>1, <2>2, <2>3 DEF NoLostWakeup
  <1>13. IInv'
    BY <1>4, <1>5, <1>11, <1>12 DEF IInv
  <1>14. out' = SubSeq(Contents, 1, n)
    <2>1. \A i \in 1..n : i \in 1..readable
      BY <1>0, <1>1
    <2>2. SubSeq(Contents, 1, n) \in Seq(Entry) /\ Len(SubSeq(Contents, 1, n)) = n
          /\ \A i \in 1..n : SubSeq(Contents, 1, n)[i] = Contents[i]
      BY <1>0, <1>1, <1>8
    <2>3. SubSeq(Contents, 1, n) = [i \in 1..n |-> SubSeq(Contents, 1, n)[i]]
      BY <2>2, LenProperties
    <2> QED BY <2>1, <2>2, <2>3, <1>3, <1>8
  <1>15. Contents' = SubSeq(Contents, n + 1, Len(Contents))
    <2> DEFINE rest == SubSeq(Contents, n + 1, readable)
    <2>1. rest \in Seq(Entry) /\ Len(rest) = readable - n
          /\ \A i \in 1..(readable - n) : rest[i] = Contents[n + i]
      BY <1>0, <1>1, <1>8
    <2>2. rest = [i \in 1..(readable - n) |-> rest[i]]
      BY <2>1, LenProperties
    <2>3. Contents' = [i \in 1..(readable - n) |-> entries'[Wrap(readIndex' + (i - 1))]]
      BY <1>2 DEF Contents, SlotOf, Wrap
    <2>4. ASSUME NEW i \in 1..(readable - n)
          PROVE  entries'[Wrap(readIndex' + (i - 1))] = rest[i]
      <3>1. i - 1 \in 0..(readable - n - 1) /\ n + i \in 1..readable /\ n + (i - 1) = (n + i) - 1
        BY <1>0, <1>1
      <3>2. Wrap(readIndex' + (i - 1)) = SlotOf(n + (i - 1))
            /\ entries'[SlotOf(n + (i - 1))] = entries[SlotOf(n + (i - 1))]
        BY <3>1, <1>3
      <3>3. Contents[n + i] = entries[SlotOf((n + i) - 1)]
        BY <3>1, <1>8
      <3>4. SlotOf(n + (i - 1)) = SlotOf((n + i) - 1)
        <4>1. ASSUME NEW x, NEW y, x = y
              PROVE  SlotOf(x) = SlotOf(y)
          BY <4>1
        <4> QED BY <3>1, <4>1
      <3>5. entries'[Wrap(readIndex' + (i - 1))] = entries[SlotOf(n + (i - 1))]
        BY <3>2, Zenon
      <3>6. entries[SlotOf(n + (i - 1))] = Contents[n + i]
        BY <3>3, <3>4, Zenon
      <3>7. rest[i] = Contents[n + i]
        BY <2>1
      <3> HIDE DEF rest
      <3> QED BY <3>5, <3>6, <3>7, Zenon
    <2> HIDE DEF rest
    <2>5. Contents' = rest
      BY <2>2, <2>3, <2>4
    <2> QED BY <2>5, <1>8 DEF rest
  <1>16. n \in 0..Len(Contents)
    BY <1>0, <1>1, <1>8
  <1>17. Q!Take
    BY <1>2, <1>14, <1>15, <1>16 DEF Q!Take
  <1> QED BY <1>13, <1>17 DEF Q!Next

-----------------------------------------------------------------------------
LEMMA InitInv == Init => IInv /\ Q!Init
  <1> SUFFICES ASSUME Init PROVE IInv /\ Q!Init
    OBVIOUS
  <1>1. /\ writeIndex = 0 /\ readIndex = 0 /\ closed = FALSE
        /\ call = [p \in Writers \cup Readers |-> "idle"]
        /\ batch = [w \in Writers |-> <<>>]
        /\ want = [r \in Readers |-> 0]
        /\ out = <<>>
    BY DEF Init
  <1>2. Capacity \in Nat /\ Capacity > 0
    OBVIOUS
  <1>3. /\ entries \in [Slots -> Entry \cup {Nil}]
        /\ readable \in 0..Capacity /\ writable = Capacity - readable
        /\ readable \in {0, Capacity}
        /\ Window
    <2>1. CASE entries = [i \in Slots |-> Nil] /\ readable = 0 /\ writable = Capacity
      BY <2>1, <1>1, <1>2 DEF Window, InWindow, Slots
    <2>2. CASE entries \in [Slots -> Entry] /\ readable = Capacity /\ writable = 0
      BY <2>2, <1>1, <1>2 DEF Window, InWindow, Slots
    <2> QED BY <2>1, <2>2 DEF Init
  <1>4. <<>> \in Batches
    <2>1. <<>> \in [1..0 -> Entry] /\ 0 \in 0..MaxBatch
      OBVIOUS
    <2> QED BY <2>1 DEF Batches
  <1>5. TypeOK
    <2>1. writeIndex \in 0..Capacity /\ readIndex \in 0..Capacity /\ writable \in 0..Capacity
      BY <1>1, <1>2, <1>3
    <2>2. /\ call \in [Writers \cup Readers -> {"idle", "asleep", "woken"}]
          /\ batch \in [Writers -> Batches]
      BY <1>1, <1>4
    <2>3. want \in [Readers -> 0..MaxBatch]
      <3>1. 0 \in 0..MaxBatch
        OBVIOUS
      <3> QED BY <1>1, <3>1
    <2>4. closed \in BOOLEAN /\ out \in Batches
      BY <1>1, <1>4
    <2> QED BY <2>1, <2>2, <2>3, <2>4, <1>3 DEF TypeOK
  <1>6. Balance
    BY <1>1, <1>2, <1>3 DEF Balance
  <1>7. NoLostWakeup
    BY <1>1 DEF NoLostWakeup
  <1>8. IInv
    BY <1>3, <1>5, <1>6, <1>7 DEF IInv
  <1>9. Contents \in [1..readable -> Entry]
    <2>1. Contents \in Seq(Entry) /\ Len(Contents) = readable
      BY <1>8, ContentsIsSeq
    <2> QED BY <2>1, LenProperties
  <1> QED BY <1>1, <1>3, <1>8, <1>9 DEF Q!Init

\* A step that leaves the ring itself alone.
LEMMA QuietStep ==
  ASSUME IInv, UNCHANGED <<ringVars, out>>
  PROVE  Balance' /\ Window' /\ Contents' = Contents /\ UNCHANGED out
  BY DEF IInv, ringVars, Balance, Window, InWindow, Contents, SlotOf, Wrap, Slots

LEMMA StepInv == IInv /\ [Next]_vars => IInv' /\ [Q!Next]_(Q!vars)
  <1> SUFFICES ASSUME IInv, [Next]_vars PROVE IInv' /\ [Q!Next]_(Q!vars)
    OBVIOUS
  <1>0. /\ writable \in 0..Capacity /\ readable \in 0..Capacity /\ Capacity \in Nat
        /\ call \in [Writers \cup Readers -> {"idle", "asleep", "woken"}]
        /\ batch \in [Writers -> Batches] /\ want \in [Readers -> 0..MaxBatch]
        /\ closed \in BOOLEAN /\ TypeOK /\ NoLostWakeup
    BY DEF IInv, TypeOK
  <1>e. <<>> \in Batches
    <2>1. <<>> \in [1..0 -> Entry] /\ 0 \in 0..MaxBatch
      OBVIOUS
    <2> QED BY <2>1 DEF Batches
  <1>1. ASSUME NEW w \in Writers, WriteBlocks(w)
        PROVE  IInv' /\ [Q!Next]_(Q!vars)
    <2>1. PICK s \in Batches : batch' = [batch EXCEPT ![w] = s]
      BY <1>1 DEF WriteBlocks
    <2>2. /\ writable = 0 /\ ~closed /\ call' = [call EXCEPT ![w] = "asleep"]
          /\ UNCHANGED <<ringVars, closed, want, out>>
      BY <1>1 DEF WriteBlocks
    <2>3. Balance' /\ Window' /\ Contents' = Contents /\ UNCHANGED out
      BY <2>2, QuietStep
    <2>4. TypeOK'
      BY <2>1, <2>2, <1>0 DEF TypeOK, ringVars, Slots, Batches
    <2>5. NoLostWakeup'
      BY <2>2, <1>0 DEF NoLostWakeup, ringVars
    <2> QED BY <2>2, <2>3, <2>4, <2>5 DEF IInv, Q!vars
  <1>2. ASSUME NEW w \in Writers, Write(w)
        PROVE  IInv' /\ [Q!Next]_(Q!vars)
    BY <1>2, StoreStep DEF Write
  <1>3. ASSUME NEW w \in Writers, WriteResumes(w)
        PROVE  IInv' /\ [Q!Next]_(Q!vars)
    <2>1. CASE /\ writable = 0 /\ ~closed
               /\ call' = [call EXCEPT ![w] = "asleep"]
               /\ UNCHANGED <<ringVars, closed, batch, want, out>>
      <3>1. Balance' /\ Window' /\ Contents' = Contents /\ UNCHANGED out
        BY <2>1, QuietStep
      <3>2. TypeOK'
        BY <2>1, <1>0 DEF TypeOK, ringVars, Slots, Batches
      <3>3. NoLostWakeup'
        BY <2>1, <1>0 DEF NoLostWakeup, ringVars
      <3> QED BY <2>1, <3>1, <3>2, <3>3 DEF IInv, Q!vars
    <2>2. CASE /\ closed
               /\ call' = [call EXCEPT ![w] = "idle"]
               /\ batch' = [batch EXCEPT ![w] = <<>>]
               /\ UNCHANGED <<ringVars, closed, want, out>>
      <3>1. Balance' /\ Window' /\ Contents' = Contents /\ UNCHANGED out
        BY <2>2, QuietStep
      <3>2. TypeOK'
        BY <2>2, <1>0, <1>e DEF TypeOK, ringVars, Slots, Batches
      <3>3. NoLostWakeup'
        BY <2>2, <1>0 DEF NoLostWakeup, ringVars
      <3> QED BY <2>2, <3>1, <3>2, <3>3 DEF IInv, Q!vars
    <2>3. CASE writable > 0 /\ ~closed /\ Store(w, batch[w])
      <3>1. batch[w] \in Batches
        BY <1>0
      <3> QED BY <2>3, <3>1, StoreStep
    <2> QED BY <1>3, <2>1, <2>2, <2>3 DEF WriteResumes
  <1>4. ASSUME NEW r \in Readers, ReadBlocks(r)
        PROVE  IInv' /\ [Q!Next]_(Q!vars)
    <2>1. PICK k \in 1..MaxBatch : want' = [want EXCEPT ![r] = k]
      BY <1>4 DEF ReadBlocks
    <2>2. /\ readable = 0 /\ ~closed /\ call' = [call EXCEPT ![r] = "asleep"]
          /\ UNCHANGED <<ringVars, closed, batch, out>>
      BY <1>4 DEF ReadBlocks
    <2>3. Balance' /\ Window' /\ Contents' = Contents /\ UNCHANGED out
      BY <2>2, QuietStep
    <2>4. TypeOK'
      BY <2>1, <2>2, <1>0 DEF TypeOK, ringVars, Slots, Batches
    <2>5. NoLostWakeup'
      BY <2>2, <1>0 DEF NoLostWakeup, ringVars
    <2> QED BY <2>2, <2>3, <2>4, <2>5 DEF IInv, Q!vars
  <1>5. ASSUME NEW r \in Readers, Read(r)
        PROVE  IInv' /\ [Q!Next]_(Q!vars)
    BY <1>5, FetchStep DEF Read
  <1>6. ASSUME NEW r \in Readers, ReadResumes(r)
        PROVE  IInv' /\ [Q!Next]_(Q!vars)
    <2>1. CASE /\ readable = 0 /\ ~closed
               /\ call' = [call EXCEPT ![r] = "asleep"]
               /\ UNCHANGED <<ringVars, closed, batch, want, out>>
      <3>1. Balance' /\ Window' /\ Contents' = Contents /\ UNCHANGED out
        BY <2>1, QuietStep
      <3>2. TypeOK'
        BY <2>1, <1>0 DEF TypeOK, ringVars, Slots, Batches
      <3>3. NoLostWakeup'
        BY <2>1, <1>0 DEF NoLostWakeup, ringVars
      <3> QED BY <2>1, <3>1, <3>2, <3>3 DEF IInv, Q!vars
    <2>2. CASE /\ readable = 0 /\ closed
               /\ call' = [call EXCEPT ![r] = "idle"]
               /\ want' = [want EXCEPT ![r] = 0]
               /\ UNCHANGED <<ringVars, closed, batch, out>>
      <3>1. Balance' /\ Window' /\ Contents' = Contents /\ UNCHANGED out
        BY <2>2, QuietStep
      <3>2. TypeOK'
        BY <2>2, <1>0 DEF TypeOK, ringVars, Slots, Batches
      <3>3. NoLostWakeup'
        BY <2>2, <1>0 DEF NoLostWakeup, ringVars
      <3> QED BY <2>2, <3>1, <3>2, <3>3 DEF IInv, Q!vars
    <2>3. CASE readable > 0 /\ Fetch(r, want[r])
      <3>1. want[r] \in 0..MaxBatch
        BY <1>0
      <3> QED BY <2>3, <3>1, FetchStep
    <2> QED BY <1>6, <2>1, <2>2, <2>3 DEF ReadResumes
  <1>7. ASSUME Close
        PROVE  IInv' /\ [Q!Next]_(Q!vars)
    <2>1. closed' = TRUE /\ UNCHANGED <<ringVars, batch, want, out>>
          /\ call' = Broadcast(call, Writers \cup Readers)
      BY <1>7 DEF Close
    <2>2. Balance' /\ Window' /\ Contents' = Contents /\ UNCHANGED out
      BY <2>1, QuietStep
    <2>3. call' \in [Writers \cup Readers -> {"idle", "asleep", "woken"}]
          /\ \A p \in Writers \cup Readers : call'[p] # "asleep"
      <3>1. /\ Broadcast(call, Writers \cup Readers) \in [Writers \cup Readers -> {"idle", "asleep", "woken"}]
            /\ \A p \in Writers \cup Readers :
                 Broadcast(call, Writers \cup Readers)[p] = "asleep"
                   <=> call[p] = "asleep" /\ p \notin Writers \cup Readers
        BY ONLY <1>0, Woken, Zenon
      <3> QED BY ONLY <2>1, <3>1, Zenon
    <2>4. TypeOK'
      BY <2>1, <2>3, <1>0 DEF TypeOK, ringVars, Slots, Batches
    <2>5. NoLostWakeup'
      BY <2>3 DEF NoLostWakeup
    <2>6. Q!Close
      BY <2>1, <2>2 DEF Q!Close
    <2> QED BY <2>2, <2>4, <2>5, <2>6 DEF IInv, Q!Next
  <1>8. ASSUME UNCHANGED vars
        PROVE  IInv' /\ [Q!Next]_(Q!vars)
    <2>1. UNCHANGED <<ringVars, out>> /\ closed' = closed
          /\ call' = call /\ batch' = batch /\ want' = want
      BY <1>8 DEF vars, ringVars
    <2>2. Balance' /\ Window' /\ Contents' = Contents /\ UNCHANGED out
      BY <2>1, QuietStep
    <2>3. TypeOK'
      BY <2>1, <1>0 DEF TypeOK, ringVars, Slots, Batches
    <2>4. NoLostWakeup'
      BY <2>1, <1>0 DEF NoLostWakeup, ringVars
    <2> QED BY <2>1, <2>2, <2>3, <2>4 DEF IInv, Q!vars
  <1> QED BY <1>1, <1>2, <1>3, <1>4, <1>5, <1>6, <1>7, <1>8 DEF Next

-----------------------------------------------------------------------------
\* A ring of any capacity is a bounded FIFO queue: entries are handed out once and in the
\* order in which Write accepted them, a closed ring is drained and never refilled.
THEOREM Queue == Spec => ImplementsQueue
  <1>1. Init => IInv /\ Q!Init
    BY InitInv
  <1>2. IInv /\ [Next]_vars => IInv' /\ [Q!Next]_(Q!vars)
    BY StepInv
  <1> QED BY <1>1, <1>2, PTL DEF Spec, ImplementsQueue, Q!Spec

\* No goroutine sleeps in Wait while the condition it waits for holds.
THEOREM Wakeups == Spec => []NoLostWakeup
  <1>1. Init => IInv
    BY InitInv
  <1>2. IInv /\ [Next]_vars => IInv'
    BY StepInv
  <1>3. IInv => NoLostWakeup
    BY DEF IInv
  <1> QED BY <1>1, <1>2, <1>3, PTL DEF Spec

\* The ring refers to the entries still to be read and to no others.
THEOREM References == Spec => []HoldsWhatIsReadable
  <1>1. Init => IInv
    BY InitInv
  <1>2. IInv /\ [Next]_vars => IInv'
    BY StepInv
  <1>3. IInv => HoldsWhatIsReadable
    <2> SUFFICES ASSUME IInv PROVE HoldsWhatIsReadable
      OBVIOUS
    <2>1. \A k \in 0..(readable - 1) : SlotOf(k) \in Slots
      BY SlotsInUse
    <2>2. \A i \in Slots : InWindow(i) <=> \E k \in 0..(readable - 1) : i = SlotOf(k)
      BY SlotsInUse
    <2>3. \A i \in Slots : entries[i] # Nil <=> InWindow(i)
      BY DEF IInv, Window
    <2> QED BY <2>1, <2>2, <2>3 DEF HoldsWhatIsReadable
  <1> QED BY <1>1, <1>2, <1>3, PTL DEF Spec
=============================================================================
