------------------------ MODULE SegReservationProofs ------------------------
(***************************************************************************)
(* The window of a segment reservation stays valid for every window size,  *)
(* lifetime and bandwidth.                                                 *)
(*                                                                         *)
(* ValidateIndices compares neighbours.  Lookup and sorting rely on what   *)
(* follows for any two indices, so the inductive invariant states that     *)
(* too: the i-th number is the first one plus i - 1 (Numbered), and        *)
(* expirations are ordered (Sorted).                                       *)
(***************************************************************************)
EXTENDS SegReservation, TLAPS

Numbered(s) ==
  \A i \in 1 .. Len(s) :
    s[i].Idx = IF s[1].Idx + (i - 1) >= Modulus THEN s[1].Idx + (i - 1) - Modulus
               ELSE s[1].Idx + (i - 1)

Sorted(s) == \A i, j \in 1 .. Len(s) : i <= j => s[i].Expiration <= s[j].Expiration

Window(s) == ValidateIndices(s) /\ Numbered(s) /\ Sorted(s)

\* Only the index activeIndex points to is Active, and it is the first.
ActiveFirst(r) ==
  /\ r.activeIndex \in {-1, 0}
  /\ r.activeIndex < Len(r.Indices)
  /\ \A i \in 1 .. Len(r.Indices) : r.Indices[i].State = "Active" <=> i = r.activeIndex + 1

Good(r) == r \in Reservation /\ Window(r.Indices) /\ ActiveFirst(r)

Inv == rsv = NoRsv \/ Good(rsv)

USE SegReservationAssumption

-----------------------------------------------------------------------------
(* Sequences of indices. *)

\* Indices have index numbers and expirations.
LEMMA IndexFields ==
  ASSUME NEW s \in Seq(Index)
  PROVE  /\ Len(s) \in Nat
         /\ \A i \in 1 .. Len(s) :
              s[i] \in Index /\ s[i].Idx \in 0 .. Modulus - 1 /\ s[i].Expiration \in Int
  <1>1. \A i \in 1 .. Len(s) : s[i] \in Index
    OBVIOUS
  <1>2. \A x \in Index : x.Idx \in 0 .. Modulus - 1 /\ x.Expiration \in Int
    BY DEF Index, IndexNumber
  <1> QED BY <1>1, <1>2

\* Counting on from the k-th number after f, modulo Modulus.
LEMMA WrapPlus ==
  ASSUME NEW f \in 0 .. Modulus - 1, NEW i \in Nat, NEW k \in Nat, i >= 1, i + k <= Modulus,
         NEW a, a = IF f + (i + k - 1) >= Modulus THEN f + (i + k - 1) - Modulus
                    ELSE f + (i + k - 1),
         NEW b, b = IF f + k >= Modulus THEN f + k - Modulus ELSE f + k
  PROVE  a = IF b + (i - 1) >= Modulus THEN b + (i - 1) - Modulus ELSE b + (i - 1)
  <1>1. Modulus \in Nat
    OBVIOUS
  <1>2. CASE f + k >= Modulus
    BY <1>1, <1>2
  <1>3. CASE f + k < Modulus
    BY <1>1, <1>3
  <1> QED BY <1>1, <1>2, <1>3

\* Drop removes the first k indices and nothing else.
LEMMA DropType ==
  ASSUME NEW s \in Seq(Index), NEW k \in 0 .. Len(s)
  PROVE  /\ Drop(s, k) \in Seq(Index)
         /\ Len(Drop(s, k)) = Len(s) - k
         /\ \A i \in 1 .. Len(s) - k : Drop(s, k)[i] = s[i + k]
  BY DEF Drop

\* What SetState changes.
LEMMA SetStateType ==
  ASSUME NEW s \in Seq(Index), NEW k \in Int, NEW st \in IndexState
  PROVE  /\ SetState(s, k, st) \in Seq(Index)
         /\ Len(SetState(s, k, st)) = Len(s)
         /\ \A i \in 1 .. Len(s) :
              /\ SetState(s, k, st)[i].Idx = s[i].Idx
              /\ SetState(s, k, st)[i].Expiration = s[i].Expiration
              /\ SetState(s, k, st)[i].State = IF i = k THEN st ELSE s[i].State
  <1>1. \A i \in 1 .. Len(s) : s[i] \in Index
    OBVIOUS
  <1>2. \A i \in 1 .. Len(s) :
          (IF i = k THEN WithState(s[i], st) ELSE s[i]) \in Index
    BY <1>1 DEF WithState, Index
  <1> QED
    BY <1>1, <1>2 DEF SetState, WithState, Index

\* Dropping the first indices keeps a window.
LEMMA DropWindow ==
  ASSUME NEW s \in Seq(Index), NEW k \in 0 .. Len(s), Window(s)
  PROVE  Window(Drop(s, k))
  <1> DEFINE t == Drop(s, k)
  <1>0. /\ t \in Seq(Index) /\ Len(t) = Len(s) - k
        /\ \A i \in 1 .. Len(s) - k : t[i] = s[i + k]
    BY DropType
  <1> HIDE DEF t
  <1>1. /\ t \in Seq(Index) /\ Len(t) = Len(s) - k
        /\ \A i \in 1 .. Len(t) : t[i] = s[i + k] /\ i + k \in 1 .. Len(s)
    <2>1. Len(s) \in Nat /\ k \in Nat
      OBVIOUS
    <2>2. \A i \in 1 .. Len(s) - k : i + k \in 1 .. Len(s)
      BY <2>1
    <2> QED BY <1>0, <2>2
  <1>2. Len(s) \in Nat /\ \A i \in 1 .. Len(s) : s[i].Idx \in 0 .. Modulus - 1
    BY IndexFields
  <1>3. ValidateIndices(t)
    <2>1. Len(t) <= Modulus
      BY <1>1 DEF Window, ValidateIndices
    <2>2. \A i \in 1 .. Len(t) - 1 :
            t[i].Expiration <= t[i + 1].Expiration /\ t[i + 1].Idx = Add(t[i].Idx, 1)
      <3> TAKE i \in 1 .. Len(t) - 1
      <3>0. /\ i \in 1 .. Len(t) /\ i + 1 \in 1 .. Len(t) /\ (i + 1) + k = (i + k) + 1
            /\ i + k \in 1 .. Len(s) - 1
        BY <1>1, <1>2
      <3>1. t[i] = s[i + k] /\ t[i + 1] = s[(i + k) + 1]
        BY <1>1, <3>0
      <3> QED BY <3>0, <3>1 DEF Window, ValidateIndices
    <2>3. \A i \in 1 .. Len(t) - MaxPerExp :
            t[i].Expiration # t[i + MaxPerExp].Expiration
      <3> TAKE i \in 1 .. Len(t) - MaxPerExp
      <3>0. /\ i \in 1 .. Len(t) /\ i + MaxPerExp \in 1 .. Len(t)
            /\ (i + MaxPerExp) + k = (i + k) + MaxPerExp
            /\ i + k \in 1 .. Len(s) - MaxPerExp
        BY <1>1, <1>2
      <3>1. t[i] = s[i + k] /\ t[i + MaxPerExp] = s[(i + k) + MaxPerExp]
        BY <1>1, <3>0
      <3> QED BY <3>0, <3>1 DEF Window, ValidateIndices
    <2> QED BY <2>1, <2>2, <2>3 DEF ValidateIndices
  <1>4. Numbered(t)
    <2> SUFFICES ASSUME NEW i \in 1 .. Len(t)
                 PROVE  t[i].Idx = IF t[1].Idx + (i - 1) >= Modulus
                                   THEN t[1].Idx + (i - 1) - Modulus
                                   ELSE t[1].Idx + (i - 1)
      BY DEF Numbered
    <2>1. t[i] = s[i + k] /\ t[1] = s[1 + k] /\ 1 \in 1 .. Len(s)
      BY <1>1
    <2>2. s[1].Idx \in 0 .. Modulus - 1
      BY <1>2, <2>1
    <2>3. s[i + k].Idx = IF s[1].Idx + (i + k - 1) >= Modulus THEN s[1].Idx + (i + k - 1) - Modulus
                         ELSE s[1].Idx + (i + k - 1)
      BY <1>1, <1>2 DEF Window, Numbered
    <2>4. s[1 + k].Idx = IF s[1].Idx + k >= Modulus THEN s[1].Idx + k - Modulus
                         ELSE s[1].Idx + k
      <3>1. 1 + k \in 1 .. Len(s) /\ (1 + k) - 1 = k
        BY <1>1, <1>2
      <3> QED BY <3>1 DEF Window, Numbered
    <2>5. i + k <= Modulus
      BY <1>1, <1>2 DEF Window, ValidateIndices
    <2>6. i \in Nat /\ k \in Nat /\ i >= 1
      BY <1>1, <1>2
    <2>7. s[i + k].Idx = IF s[1 + k].Idx + (i - 1) >= Modulus
                         THEN s[1 + k].Idx + (i - 1) - Modulus ELSE s[1 + k].Idx + (i - 1)
      <3> DEFINE f == s[1].Idx
      <3> DEFINE a == s[i + k].Idx
      <3> DEFINE b == s[1 + k].Idx
      <3>1. /\ f \in 0 .. Modulus - 1
            /\ a = IF f + (i + k - 1) >= Modulus THEN f + (i + k - 1) - Modulus
                   ELSE f + (i + k - 1)
            /\ b = IF f + k >= Modulus THEN f + k - Modulus ELSE f + k
        BY <2>2, <2>3, <2>4
      <3> HIDE DEF f, a, b
      <3>2. a = IF b + (i - 1) >= Modulus THEN b + (i - 1) - Modulus ELSE b + (i - 1)
        BY <3>1, <2>5, <2>6, WrapPlus
      <3> QED BY <3>2 DEF a, b
    <2> QED BY <2>1, <2>7
  <1>5. Sorted(t)
    <2> SUFFICES ASSUME NEW i \in 1 .. Len(t), NEW j \in 1 .. Len(t), i <= j
                 PROVE  t[i].Expiration <= t[j].Expiration
      BY DEF Sorted
    <2>1. t[i] = s[i + k] /\ t[j] = s[j + k] /\ i + k \in 1 .. Len(s) /\ j + k \in 1 .. Len(s)
      BY <1>1
    <2>2. i + k <= j + k
      <3>1. i \in Int /\ j \in Int /\ k \in Int
        OBVIOUS
      <3> QED BY ONLY <3>1, i <= j
    <2>3. s[i + k].Expiration <= s[j + k].Expiration
      BY <2>1, <2>2 DEF Window, Sorted
    <2> QED BY ONLY <2>1, <2>3
  <1> QED BY <1>3, <1>4, <1>5 DEF Window, t

\* Only numbers and the differences of expirations matter to a window.
LEMMA ShiftWindow ==
  ASSUME NEW s \in Seq(Index), NEW t \in Seq(Index), NEW d \in Int, Window(s),
         Len(t) = Len(s),
         \A i \in 1 .. Len(s) : t[i].Idx = s[i].Idx /\ t[i].Expiration = s[i].Expiration - d
  PROVE  Window(t)
  <1>1. Len(s) \in Nat /\ \A i \in 1 .. Len(s) : s[i].Expiration \in Int /\ s[i].Idx \in Int
    BY IndexFields
  <1>2. ValidateIndices(t)
    <2>1. \A i \in 1 .. Len(t) - 1 :
            t[i].Expiration <= t[i + 1].Expiration /\ t[i + 1].Idx = Add(t[i].Idx, 1)
      <3> TAKE i \in 1 .. Len(t) - 1
      <3>1. i \in 1 .. Len(s) /\ i + 1 \in 1 .. Len(s) /\ i \in 1 .. Len(s) - 1
        BY <1>1
      <3>2. s[i].Expiration <= s[i + 1].Expiration /\ s[i + 1].Idx = Add(s[i].Idx, 1)
        BY <3>1 DEF Window, ValidateIndices
      <3>3. /\ t[i].Expiration = s[i].Expiration - d /\ t[i].Idx = s[i].Idx
            /\ t[i + 1].Expiration = s[i + 1].Expiration - d /\ t[i + 1].Idx = s[i + 1].Idx
            /\ s[i].Expiration \in Int /\ s[i + 1].Expiration \in Int
        BY <1>1, <3>1
      <3>4. \A a, b \in Int : a <= b => a - d <= b - d
        OBVIOUS
      <3> QED BY <3>2, <3>3, <3>4
    <2>2. \A i \in 1 .. Len(t) - MaxPerExp :
            t[i].Expiration # t[i + MaxPerExp].Expiration
      <3> TAKE i \in 1 .. Len(t) - MaxPerExp
      <3>1. i \in 1 .. Len(s) /\ i + MaxPerExp \in 1 .. Len(s) /\ i \in 1 .. Len(s) - MaxPerExp
        BY <1>1
      <3>2. s[i].Expiration # s[i + MaxPerExp].Expiration
        BY <3>1 DEF Window, ValidateIndices
      <3>3. /\ t[i].Expiration = s[i].Expiration - d
            /\ t[i + MaxPerExp].Expiration = s[i + MaxPerExp].Expiration - d
            /\ s[i].Expiration \in Int /\ s[i + MaxPerExp].Expiration \in Int
        BY <1>1, <3>1
      <3>4. \A a, b \in Int : a # b => a - d # b - d
        OBVIOUS
      <3> QED BY <3>2, <3>3, <3>4
    <2> QED BY <2>1, <2>2 DEF Window, ValidateIndices
  <1>3. Numbered(t)
    BY <1>1 DEF Window, Numbered
  <1>4. Sorted(t)
    <2> SUFFICES ASSUME NEW i \in 1 .. Len(s), NEW j \in 1 .. Len(s), i <= j
                 PROVE  t[i].Expiration <= t[j].Expiration
      BY DEF Sorted
    <2>1. s[i].Expiration <= s[j].Expiration
      BY DEF Window, Sorted
    <2>2. /\ t[i].Expiration = s[i].Expiration - d /\ t[j].Expiration = s[j].Expiration - d
          /\ s[i].Expiration \in Int /\ s[j].Expiration \in Int
      BY <1>1
    <2>3. \A a, b \in Int : a <= b => a - d <= b - d
      OBVIOUS
    <2> QED BY ONLY <2>1, <2>2, <2>3
  <1> QED BY <1>2, <1>3, <1>4 DEF Window

\* A window that accepts one more index is a window with it.
LEMMA AppendWindow ==
  ASSUME NEW s \in Seq(Index), NEW x \in Index, Window(s), ValidateIndices(Append(s, x))
  PROVE  Window(Append(s, x))
  <1> DEFINE t == Append(s, x)
  <1> DEFINE n == Len(s)
  <1>1. /\ t \in Seq(Index) /\ Len(t) = n + 1 /\ t[n + 1] = x
        /\ \A i \in 1 .. n : t[i] = s[i]
    OBVIOUS
  <1>2. n \in Nat /\ n + 1 <= Modulus
    BY <1>1 DEF ValidateIndices
  <1>3. \A i \in 1 .. n + 1 : t[i].Idx \in 0 .. Modulus - 1 /\ t[i].Expiration \in Int
    <2> HIDE DEF t, n
    <2>1. \A i \in 1 .. Len(t) :
            t[i] \in Index /\ t[i].Idx \in 0 .. Modulus - 1 /\ t[i].Expiration \in Int
      BY <1>1, IndexFields
    <2> QED BY ONLY <1>1, <2>1
  <1>4. n > 0 => t[n].Expiration <= t[n + 1].Expiration /\ t[n + 1].Idx = Add(t[n].Idx, 1)
    BY <1>1, <1>2 DEF ValidateIndices
  <1> HIDE DEF t, n
  <1>5. Numbered(t)
    <2> SUFFICES ASSUME NEW i \in 1 .. n + 1
                 PROVE  t[i].Idx = IF t[1].Idx + (i - 1) >= Modulus
                                   THEN t[1].Idx + (i - 1) - Modulus
                                   ELSE t[1].Idx + (i - 1)
      BY <1>1 DEF Numbered
    <2>1. CASE i <= n
      <3>1. i \in 1 .. Len(s) /\ t[1] = s[1] /\ t[i] = s[i]
        BY <2>1, <1>1, <1>2 DEF n
      <3> QED BY <3>1 DEF Window, Numbered
    <2>2. CASE i = n + 1 /\ n = 0
      BY <2>2, <1>3
    <2>3. CASE i = n + 1 /\ n > 0
      <3>1. t[n].Idx = IF t[1].Idx + (n - 1) >= Modulus THEN t[1].Idx + (n - 1) - Modulus
                       ELSE t[1].Idx + (n - 1)
        <4>1. n \in 1 .. Len(s) /\ t[1] = s[1] /\ t[n] = s[n]
          BY <2>3, <1>1, <1>2 DEF n
        <4> QED BY <4>1 DEF Window, Numbered
      <3>2. t[n + 1].Idx = Add(t[n].Idx, 1)
        BY <2>3, <1>4
      <3> DEFINE f == t[1].Idx
      <3> DEFINE a == t[n].Idx
      <3> DEFINE b == t[n + 1].Idx
      <3>3. /\ f \in 0 .. Modulus - 1
            /\ a = IF f + (n - 1) >= Modulus THEN f + (n - 1) - Modulus ELSE f + (n - 1)
            /\ b = IF a + 1 >= Modulus THEN a + 1 - Modulus ELSE a + 1
        BY <3>1, <3>2, <2>3, <1>2, <1>3 DEF Add
      <3> HIDE DEF f, a, b
      <3>4. b = IF f + n >= Modulus THEN f + n - Modulus ELSE f + n
        BY ONLY <3>3, <1>2, <2>3, SegReservationAssumption
      <3>5. i - 1 = n
        BY ONLY <1>2, <2>3
      <3>6. t[i].Idx = b
        BY ONLY <2>3 DEF b
      <3> QED BY ONLY <3>4, <3>5, <3>6 DEF f
    <2> QED BY <2>1, <2>2, <2>3, <1>2
  <1>6. Sorted(t)
    <2> SUFFICES ASSUME NEW i \in 1 .. n + 1, NEW j \in 1 .. n + 1, i <= j
                 PROVE  t[i].Expiration <= t[j].Expiration
      BY <1>1 DEF Sorted
    <2>1. CASE j <= n
      <3>1. i \in 1 .. Len(s) /\ j \in 1 .. Len(s) /\ t[i] = s[i] /\ t[j] = s[j]
        BY <2>1, <1>1, <1>2 DEF n
      <3> QED BY <3>1 DEF Window, Sorted
    <2>2. CASE i = n + 1
      BY <2>2, <1>2, <1>3
    <2>3. CASE i <= n /\ j = n + 1
      <3>1. n > 0 /\ t[i] = s[i] /\ t[n] = s[n] /\ i \in 1 .. Len(s) /\ n \in 1 .. Len(s)
        BY <2>3, <1>1, <1>2 DEF n
      <3>2. t[i].Expiration <= t[n].Expiration
        BY <3>1, <2>3 DEF Window, Sorted
      <3> QED BY <3>1, <3>2, <2>3, <1>3, <1>4, <1>2
    <2> QED BY <2>1, <2>2, <2>3, <1>2
  <1> QED BY <1>5, <1>6 DEF Window, t

-----------------------------------------------------------------------------
(* Operations on a reservation. *)

\* FindIndex returns a position of the window, and the right one.
LEMMA FindIndexExact ==
  ASSUME NEW s \in Seq(Index), Window(s), NEW idx \in IndexNumber
  PROVE  /\ FindIndex(s, idx) \in 0 .. Len(s)
         /\ \A i \in 1 .. Len(s) : s[i].Idx = idx <=> i = FindIndex(s, idx)
  <1>1. /\ Len(s) \in Nat /\ Len(s) <= Modulus /\ idx \in 0 .. Modulus - 1
        /\ \A i \in 1 .. Len(s) : s[i].Idx \in 0 .. Modulus - 1
    BY IndexFields DEF Window, ValidateIndices, IndexNumber
  <1>2. CASE Len(s) = 0
    BY <1>1, <1>2 DEF FindIndex, Sub
  <1>3. CASE Len(s) > 0
    <2> DEFINE f == s[1].Idx
    <2> DEFINE k == Sub(idx, f)
    <2>1. f \in 0 .. Modulus - 1
      BY <1>1, <1>3
    <2>2. FindIndex(s, idx) = IF k > Len(s) - 1 THEN 0 ELSE k + 1
      BY <1>3 DEF FindIndex
    <2>3. \A i \in 1 .. Len(s) : s[i].Idx = IF f + (i - 1) >= Modulus THEN f + (i - 1) - Modulus
                                            ELSE f + (i - 1)
      BY DEF Window, Numbered
    <2>4. k \in 0 .. Modulus - 1 /\ k = IF idx >= f THEN idx - f ELSE idx - f + Modulus
      <3> HIDE DEF f
      <3> QED BY <1>1, <2>1 DEF Sub
    <2> HIDE DEF f, k
    <2>5. ASSUME NEW i \in 1 .. Len(s)
          PROVE  s[i].Idx = idx <=> i = k + 1
      BY <1>1, <2>1, <2>3, <2>4
    <2> QED BY <1>1, <2>2, <2>4, <2>5
  <1> QED BY <1>1, <1>2, <1>3

\* The empty reservation is in order.
LEMMA NewGood == Good(NewReservation)
  <1>1. NewReservation \in Reservation /\ NewReservation.Indices = <<>> /\ NewReservation.activeIndex = -1
    BY DEF NewReservation, Reservation
  <1>2. Window(<<>>)
    BY DEF Window, ValidateIndices, Numbered, Sorted
  <1> QED BY <1>1, <1>2 DEF Good, ActiveFirst

\* Adding an index, the last step of an admission.
LEMMA AddGood ==
  ASSUME NEW r, Good(r), NEW x \in Index, x.State = "Temporary", addIndexOK(r, x)
  PROVE  Good(addIndex(r, x))
  <1>1. r.Indices \in Seq(Index) /\ r.activeIndex \in Int /\ Window(r.Indices) /\ ActiveFirst(r)
    BY DEF Good, Reservation
  <1> DEFINE s == r.Indices
  <1> DEFINE t == Append(s, x)
  <1>2. /\ t \in Seq(Index) /\ Len(t) = Len(s) + 1 /\ t[Len(s) + 1] = x
        /\ \A i \in 1 .. Len(s) : t[i] = s[i]
    BY <1>1
  <1>3. /\ addIndex(r, x).Indices = t /\ addIndex(r, x).activeIndex = r.activeIndex
        /\ addIndex(r, x) \in Reservation
    BY <1>1, <1>2 DEF addIndex, Reservation
  <1>4. Window(t)
    BY <1>1, AppendWindow DEF addIndexOK
  <1>5. Len(s) \in Nat
    BY <1>1
  <1> HIDE DEF t, s
  <1>6. ActiveFirst(addIndex(r, x))
    <2>1. \A i \in 1 .. Len(t) : t[i].State = "Active" <=> i = r.activeIndex + 1
      <3> SUFFICES ASSUME NEW i \in 1 .. Len(s) + 1
                   PROVE  t[i].State = "Active" <=> i = r.activeIndex + 1
        BY <1>2
      <3>1. CASE i <= Len(s)
        BY <3>1, <1>1, <1>2, <1>5 DEF ActiveFirst, s
      <3>2. CASE i = Len(s) + 1
        BY <3>2, <1>1, <1>2, <1>5 DEF ActiveFirst, s
      <3> QED BY <3>1, <3>2, <1>5
    <2> QED BY <1>1, <1>2, <1>3, <1>5, <2>1 DEF ActiveFirst, s
  <1> QED BY <1>3, <1>4, <1>6 DEF Good

\* Confirming an index.
LEMMA ConfirmGood ==
  ASSUME NEW r, Good(r), NEW idx \in IndexNumber, SetIndexConfirmedOK(r, idx)
  PROVE  Good(SetIndexConfirmed(r, idx))
  <1> DEFINE s == r.Indices
  <1> DEFINE k == FindIndex(s, idx)
  <1> DEFINE t == SetState(s, k, "Pending")
  <1>1. s \in Seq(Index) /\ r.activeIndex \in Int /\ Window(s) /\ ActiveFirst(r)
    BY DEF Good, Reservation
  <1>2. k \in 1 .. Len(s) /\ s[k].State # "Active"
    BY <1>1, FindIndexExact DEF SetIndexConfirmedOK
  <1>3. /\ t \in Seq(Index) /\ Len(t) = Len(s)
        /\ \A i \in 1 .. Len(s) :
             /\ t[i].Idx = s[i].Idx /\ t[i].Expiration = s[i].Expiration - 0
             /\ t[i].State = IF i = k THEN "Pending" ELSE s[i].State
    <2>1. "Pending" \in IndexState
      BY DEF IndexState
    <2>2. \A i \in 1 .. Len(s) : s[i].Expiration \in Int
      BY <1>1, IndexFields
    <2> QED BY <1>1, <1>2, <2>1, <2>2, SetStateType
  <1>4. /\ SetIndexConfirmed(r, idx) \in Reservation /\ SetIndexConfirmed(r, idx).Indices = t
        /\ SetIndexConfirmed(r, idx).activeIndex = r.activeIndex
    BY <1>1, <1>3 DEF SetIndexConfirmed, Reservation
  <1> HIDE DEF t, k
  <1>5. Window(t)
    <2>1. t \in Seq(Index) /\ s \in Seq(Index) /\ Len(t) = Len(s) /\ Window(s)
      BY <1>1, <1>3
    <2>2. \A i \in 1 .. Len(s) : t[i].Idx = s[i].Idx /\ t[i].Expiration = s[i].Expiration - 0
      BY <1>1, <1>3
    <2>3. 0 \in Int
      OBVIOUS
    <2> HIDE DEF s
    <2> QED BY ONLY <2>1, <2>2, <2>3, ShiftWindow
  <1>6. ActiveFirst(SetIndexConfirmed(r, idx))
    BY <1>1, <1>2, <1>3, <1>4 DEF ActiveFirst
  <1> QED BY <1>4, <1>5, <1>6 DEF Good

\* Activating an index.
LEMMA ActivateGood ==
  ASSUME NEW r, Good(r), NEW idx \in IndexNumber, SetIndexActiveOK(r, idx)
  PROVE  Good(SetIndexActive(r, idx))
  <1> DEFINE s == r.Indices
  <1> DEFINE k == FindIndex(s, idx)
  <1> DEFINE t == Drop(s, k - 1)
  <1> DEFINE u == SetState(t, 1, "Active")
  <1>1. s \in Seq(Index) /\ r.activeIndex \in Int /\ Window(s) /\ ActiveFirst(r)
    BY DEF Good, Reservation
  <1>2. k \in 1 .. Len(s) /\ Len(s) \in Nat
    BY <1>1, FindIndexExact DEF SetIndexActiveOK
  <1>3. CASE r.activeIndex = k - 1
    BY <1>3 DEF SetIndexActive
  <1>4. CASE r.activeIndex # k - 1
    <2>1. /\ k - 1 \in 0 .. Len(s) /\ t \in Seq(Index) /\ Len(t) = Len(s) - (k - 1) /\ Window(t)
          /\ \A i \in 1 .. Len(s) - (k - 1) : t[i] = s[i + (k - 1)]
      <3>1. k - 1 \in 0 .. Len(s)
        BY <1>2
      <3> QED BY <1>1, <3>1, DropType, DropWindow
    <2>2. /\ u \in Seq(Index) /\ Len(u) = Len(t)
          /\ \A i \in 1 .. Len(t) :
               /\ u[i].Idx = t[i].Idx /\ u[i].Expiration = t[i].Expiration - 0
               /\ u[i].State = IF i = 1 THEN "Active" ELSE t[i].State
      <3>1. "Active" \in IndexState
        BY DEF IndexState
      <3>2. \A i \in 1 .. Len(t) : t[i].Expiration \in Int
        BY <2>1, IndexFields
      <3> QED BY <2>1, <3>1, <3>2, SetStateType
    <2>3. /\ SetIndexActive(r, idx).Indices = u /\ SetIndexActive(r, idx).activeIndex = 0
          /\ SetIndexActive(r, idx) \in Reservation
      BY <1>4, <2>2 DEF SetIndexActive, Reservation
    <2> HIDE DEF u, t, k
    <2>4. Window(u)
      <3>1. u \in Seq(Index) /\ t \in Seq(Index) /\ Len(u) = Len(t) /\ Window(t)
        BY <2>1, <2>2
      <3>2. \A i \in 1 .. Len(t) : u[i].Idx = t[i].Idx /\ u[i].Expiration = t[i].Expiration - 0
        BY <2>1, <2>2
      <3>3. 0 \in Int
        OBVIOUS
      <3> HIDE DEF s
      <3> QED BY ONLY <3>1, <3>2, <3>3, ShiftWindow
    <2>5. \A i \in 1 .. Len(t) : i > 1 => t[i].State # "Active"
      <3> TAKE i \in 1 .. Len(t)
      <3>1. i > 1 => t[i] = s[i + (k - 1)] /\ i + (k - 1) \in 1 .. Len(s) /\ i + (k - 1) > 1
        BY <1>2, <2>1
      <3> QED BY <3>1, <1>1 DEF ActiveFirst
    <2>6. ActiveFirst(SetIndexActive(r, idx))
      <3>1. Len(u) = Len(t) /\ Len(t) \in Nat /\ Len(t) >= 1
        BY <1>2, <2>1, <2>2
      <3>2. \A i \in 1 .. Len(u) : u[i].State = "Active" <=> i = 0 + 1
        BY <2>2, <2>5, <3>1
      <3> QED BY <2>3, <3>1, <3>2 DEF ActiveFirst
    <2> QED BY <2>3, <2>4, <2>6 DEF Good
  <1> QED BY <1>3, <1>4

\* Removing the first k indices, without an active index left.
LEMMA DropGood ==
  ASSUME NEW r, Good(r), NEW k \in 1 .. Len(r.Indices)
  PROVE  Good([Indices |-> Drop(r.Indices, k), activeIndex |-> -1])
  <1> DEFINE s == r.Indices
  <1> DEFINE t == Drop(s, k)
  <1> DEFINE q == [Indices |-> t, activeIndex |-> -1]
  <1>1. s \in Seq(Index) /\ Window(s) /\ ActiveFirst(r) /\ Len(s) \in Nat
    BY DEF Good, Reservation
  <1>2. /\ t \in Seq(Index) /\ Len(t) = Len(s) - k /\ Window(t)
        /\ \A i \in 1 .. Len(s) - k : t[i] = s[i + k]
    <2>1. k \in 0 .. Len(s)
      BY <1>1
    <2> QED BY <1>1, <2>1, DropType, DropWindow
  <1>3. q \in Reservation /\ q.Indices = t /\ q.activeIndex = -1
    BY <1>2 DEF Reservation
  <1> HIDE DEF t, q
  <1>4. \A i \in 1 .. Len(t) : t[i].State # "Active"
    <2> TAKE i \in 1 .. Len(t)
    <2>1. t[i] = s[i + k] /\ i + k \in 1 .. Len(s) /\ i + k > 1
      BY <1>1, <1>2
    <2> QED BY <2>1, <1>1 DEF ActiveFirst
  <1>5. ActiveFirst(q)
    BY <1>1, <1>2, <1>3, <1>4 DEF ActiveFirst
  <1> QED BY <1>2, <1>3, <1>5 DEF Good, q, t

\* Removing an index and those before it.
LEMMA RemoveGood ==
  ASSUME NEW r, Good(r), NEW idx \in IndexNumber, RemoveIndexOK(r, idx)
  PROVE  Good(RemoveIndex(r, idx))
  <1> DEFINE k == FindIndex(r.Indices, idx)
  <1>1. k \in 1 .. Len(r.Indices)
    BY FindIndexExact DEF RemoveIndexOK, Good, Reservation
  <1>2. ~(r.activeIndex > k - 1)
    BY <1>1 DEF Good, ActiveFirst
  <1>3. RemoveIndex(r, idx) = [Indices |-> Drop(r.Indices, k), activeIndex |-> -1]
    BY <1>2 DEF RemoveIndex
  <1> QED BY <1>1, <1>3, DropGood

\* Expiry of the first k indices.
LEMMA ExpireGood ==
  ASSUME NEW r, Good(r), NEW k \in 1 .. Len(r.Indices)
  PROVE  ExpireFirst(r, k) = NoRsv \/ Good(ExpireFirst(r, k))
  <1>1. CASE k = Len(r.Indices)
    BY <1>1 DEF ExpireFirst
  <1>2. CASE k # Len(r.Indices)
    <2>1. 1 \in 1 .. k
      OBVIOUS
    <2>2. (\E i \in 1 .. k : r.Indices[i].State = "Active") \/ r.activeIndex = -1
      <3>1. r.activeIndex = 0 => r.Indices[1].State = "Active"
        BY DEF Good, ActiveFirst
      <3> QED BY <2>1, <3>1 DEF Good, ActiveFirst
    <2>3. ExpireFirst(r, k) = [Indices |-> Drop(r.Indices, k), activeIndex |-> -1]
      BY <1>2, <2>2 DEF ExpireFirst
    <2> QED BY <2>3, DropGood
  <1> QED BY <1>1, <1>2

\* A tick, while nothing has expired.
LEMMA AgeGood ==
  ASSUME NEW r, Good(r), ~HasExpired(r), r # NoRsv
  PROVE  Good(Age(r))
  <1> DEFINE s == r.Indices
  <1> DEFINE t == [i \in 1 .. Len(s) |-> Older(s[i])]
  <1>1. s \in Seq(Index) /\ r.activeIndex \in Int /\ Window(s) /\ ActiveFirst(r)
    BY DEF Good, Reservation
  <1>2. \A i \in 1 .. Len(s) : s[i] \in Index /\ s[i].Expiration \in 0 .. Lifetime
    <2>1. \A x \in Index : x.Expiration \in -1 .. Lifetime
      BY DEF Index
    <2>2. \A i \in 1 .. Len(s) : s[i] \in Index /\ ~(s[i].Expiration < 0)
      BY <1>1 DEF HasExpired
    <2> QED BY <2>1, <2>2
  <1>3. \A x \in Index : x.Expiration \in 0 .. Lifetime =>
          /\ Older(x) \in Index /\ Older(x).Idx = x.Idx /\ Older(x).State = x.State
          /\ Older(x).Expiration = x.Expiration - 1
    BY DEF Older, Index
  <1>4. /\ t \in Seq(Index) /\ Len(t) = Len(s)
        /\ \A i \in 1 .. Len(s) : /\ t[i].Idx = s[i].Idx /\ t[i].State = s[i].State
                                  /\ t[i].Expiration = s[i].Expiration - 1
    <2>1. \A i \in 1 .. Len(s) : t[i] = Older(s[i]) /\ t[i] \in Index
      BY <1>2, <1>3
    <2>2. t \in Seq(Index) /\ Len(t) = Len(s)
      <3>1. Len(s) \in Nat /\ \A i \in 1 .. Len(s) : Older(s[i]) \in Index
        BY <1>1, <1>2, <1>3
      <3> QED BY <3>1
    <2> QED BY <1>2, <1>3, <2>1, <2>2
  <1>5. Age(r) \in Reservation /\ Age(r).Indices = t /\ Age(r).activeIndex = r.activeIndex
    BY <1>1, <1>4 DEF Age, Reservation
  <1> HIDE DEF t
  <1>6. Window(t)
    <2>1. t \in Seq(Index) /\ s \in Seq(Index) /\ Len(t) = Len(s) /\ Window(s)
      BY <1>1, <1>4
    <2>2. \A i \in 1 .. Len(s) : t[i].Idx = s[i].Idx /\ t[i].Expiration = s[i].Expiration - 1
      BY <1>1, <1>4
    <2>3. 1 \in Int
      OBVIOUS
    <2> HIDE DEF s
    <2> QED BY ONLY <2>1, <2>2, <2>3, ShiftWindow
  <1>7. ActiveFirst(Age(r))
    BY <1>1, <1>4, <1>5 DEF ActiveFirst
  <1> QED BY <1>5, <1>6, <1>7 DEF Good

-----------------------------------------------------------------------------
(* The state machine. *)

\* The invariant holds initially and every operation keeps it.
LEMMA InvInductive == Inv /\ [Next]_rsv => Inv'
  <1> SUFFICES ASSUME Inv, [Next]_rsv PROVE Inv'
    OBVIOUS
  <1>0. rsv # NoRsv => Good(rsv)
    BY DEF Inv
  <1>1. CASE NewSegmentRsv
    BY <1>1, NewGood DEF NewSegmentRsv, Inv
  <1>2. ASSUME NEW idx \in IndexNumber, NEW ttl \in 0 .. Lifetime,
               NEW maxBW \in BWCls, NEW allocBW \in BWCls,
               AdmitSegmentReservation(idx, ttl, maxBW, allocBW)
        PROVE  Inv'
    <2> DEFINE r == IF Stored THEN rsv ELSE NewReservation
    <2>1. Good(r)
      BY <1>0, NewGood DEF Stored
    <2>2. NewIndex(idx, ttl, maxBW, allocBW) \in Index /\ NewIndex(idx, ttl, maxBW, allocBW).State = "Temporary"
      BY DEF NewIndex, Index, IndexState
    <2>3. addIndexOK(r, NewIndex(idx, ttl, maxBW, allocBW)) /\ rsv' = addIndex(r, NewIndex(idx, ttl, maxBW, allocBW))
      BY <1>2 DEF AdmitSegmentReservation
    <2> HIDE DEF r
    <2> QED BY <2>1, <2>2, <2>3, AddGood DEF Inv
  <1>3. ASSUME NEW idx \in IndexNumber, ConfirmSegmentReservation(idx)
        PROVE  Inv'
    BY <1>0, <1>3, ConfirmGood DEF ConfirmSegmentReservation, Stored, Inv
  <1>4. ASSUME NEW idx \in IndexNumber, ActivateSegmentReservation(idx)
        PROVE  Inv'
    BY <1>0, <1>4, ActivateGood DEF ActivateSegmentReservation, Stored, Inv
  <1>5. ASSUME NEW idx \in IndexNumber, CleanupSegmentReservation(idx)
        PROVE  Inv'
    BY <1>0, <1>5, RemoveGood DEF CleanupSegmentReservation, Stored, Inv
  <1>6. CASE TearDownSegmentReservation
    BY <1>6 DEF TearDownSegmentReservation, Inv
  <1>7. CASE DeleteExpiredIndices
    BY <1>0, <1>7, ExpireGood DEF DeleteExpiredIndices, Stored, Inv
  <1>8. CASE Tick
    BY <1>0, <1>8, AgeGood DEF Tick, Stored, Inv
  <1>9. CASE UNCHANGED rsv
    BY <1>9 DEF Inv
  <1> QED BY <1>1, <1>2, <1>3, <1>4, <1>5, <1>6, <1>7, <1>8, <1>9 DEF Next

\* The inductive invariant holds in every reachable state.
LEMMA InvAlways == Spec => []Inv
  <1>1. Init => Inv
    BY DEF Init, Inv
  <1> QED BY <1>1, InvInductive, PTL DEF Spec

\* A stored reservation is never the placeholder for none.
LEMMA InvStored == Inv /\ Stored => Good(rsv)
  BY DEF Inv, Stored

\* The stored reservation keeps its type, whatever requests arrive.
THEOREM TypeCorrect == Spec => []TypeOK
  <1>1. Inv => TypeOK
    BY DEF Inv, Good, TypeOK
  <1> QED BY <1>1, InvAlways, PTL

\* What ValidateIndices checks when an index is added holds for ever after.
THEOREM WindowAlwaysValid == Spec => []WindowStaysValid
  <1>1. Inv => WindowStaysValid
    BY InvStored DEF Good, Window, WindowStaysValid
  <1> QED BY <1>1, InvAlways, PTL

\* The active index is the first one and the only one in state Active.
THEOREM ActiveAlwaysFirst == Spec => []ActiveIsFirst
  <1>1. Inv => ActiveIsFirst
    BY InvStored DEF Good, ActiveFirst, ActiveIsFirst
  <1> QED BY <1>1, InvAlways, PTL

\* FindIndex is exact in every reachable window.
THEOREM LookupAlwaysExact == Spec => []LookupIsExact
  <1>1. Inv => LookupIsExact
    BY InvStored, FindIndexExact DEF Good, Reservation, LookupIsExact
  <1> QED BY <1>1, InvAlways, PTL

\* SortIndices compares any two indices of a window as they are stored.
LEMMA SortedByComparison ==
  ASSUME NEW s \in Seq(Index), Window(s), NEW i \in 1 .. Len(s), NEW j \in 1 .. Len(s), i # j
  PROVE  SortIndicesLess(s[i], s[j]) <=> i < j
  <1> DEFINE f == s[1].Idx
  <1>1. /\ Len(s) \in Nat /\ Len(s) <= Modulus /\ f \in 0 .. Modulus - 1
        /\ s[i].Expiration \in Int /\ s[j].Expiration \in Int
    <2>1. 1 \in 1 .. Len(s) /\ Len(s) \in Nat
      OBVIOUS
    <2> QED BY <2>1, IndexFields DEF Window, ValidateIndices
  <1>2. /\ s[i].Idx = IF f + (i - 1) >= Modulus THEN f + (i - 1) - Modulus ELSE f + (i - 1)
        /\ s[j].Idx = IF f + (j - 1) >= Modulus THEN f + (j - 1) - Modulus ELSE f + (j - 1)
    BY DEF Window, Numbered
  <1>3. ASSUME NEW a \in 1 .. Len(s), NEW b \in 1 .. Len(s), b >= a + MaxPerExp
        PROVE  s[a].Expiration < s[b].Expiration
    <2>1. a + MaxPerExp \in 1 .. Len(s) /\ a \in 1 .. Len(s) - MaxPerExp
      BY <1>1, <1>3
    <2>2. s[a].Expiration # s[a + MaxPerExp].Expiration
      BY <2>1 DEF Window, ValidateIndices
    <2>3. /\ s[a].Expiration <= s[a + MaxPerExp].Expiration
          /\ s[a + MaxPerExp].Expiration <= s[b].Expiration
      BY <1>1, <1>3, <2>1 DEF Window, Sorted
    <2>4. s[a].Expiration \in Int /\ s[b].Expiration \in Int /\ s[a + MaxPerExp].Expiration \in Int
      BY <2>1, IndexFields
    <2> QED BY <2>2, <2>3, <2>4
  <1> HIDE DEF f
  <1>4. CASE i < j
    <2>1. Sub(s[j].Idx, s[i].Idx) = j - i
      BY <1>1, <1>2, <1>4 DEF Sub
    <2>2. s[i].Expiration <= s[j].Expiration
      BY <1>1, <1>4 DEF Window, Sorted
    <2>3. s[i].Expiration = s[j].Expiration => j - i < MaxPerExp
      BY <1>1, <1>3, <1>4
    <2> QED BY <1>1, <1>4, <2>1, <2>2, <2>3 DEF SortIndicesLess
  <1>5. CASE j < i
    <2>1. Sub(s[j].Idx, s[i].Idx) = Modulus - (i - j)
      BY <1>1, <1>2, <1>5 DEF Sub
    <2>2. s[j].Expiration <= s[i].Expiration
      BY <1>1, <1>5 DEF Window, Sorted
    <2>3. s[i].Expiration = s[j].Expiration => i - j < MaxPerExp
      BY <1>1, <1>3, <1>5
    <2>4. s[i].Expiration = s[j].Expiration => ~(Modulus - (i - j) < MaxPerExp)
      BY <1>1, <2>3
    <2>5. ~(i < j)
      BY <1>5
    <2>6. ~(s[i].Expiration < s[j].Expiration)
      BY ONLY <1>1, <2>2
    <2>7. ~SortIndicesLess(s[i], s[j])
      BY ONLY <2>1, <2>4, <2>6 DEF SortIndicesLess
    <2> QED BY ONLY <2>5, <2>7
  <1> QED BY <1>1, <1>4, <1>5

\* Activating again, on loading, the index stored as active changes nothing.
LEMMA LoadActive ==
  ASSUME NEW r, Good(r)
  PROVE  LET a == ActiveIndexColumn(r)
         IN  /\ a # -1 => SetIndexActiveOK([Indices |-> r.Indices, activeIndex |-> -1], a)
             /\ buildSegRsvFromFields(r.Indices, a) = r
  <1> DEFINE s == r.Indices
  <1> DEFINE q == [Indices |-> s, activeIndex |-> -1]
  <1>1. /\ s \in Seq(Index) /\ Window(s) /\ ActiveFirst(r) /\ Len(s) \in Nat
        /\ r = [Indices |-> s, activeIndex |-> r.activeIndex]
    BY DEF Good, Reservation
  <1>2. q.Indices = s /\ q.activeIndex = -1
    OBVIOUS
  <1>3. CASE r.activeIndex = -1
    BY <1>1, <1>3 DEF ActiveIndexColumn, buildSegRsvFromFields
  <1>4. CASE r.activeIndex = 0
    <2>1. 1 \in 1 .. Len(s) /\ s[1].State = "Active"
      BY <1>1, <1>4 DEF ActiveFirst
    <2>2. ActiveIndexColumn(r) = s[1].Idx /\ s[1].Idx \in IndexNumber /\ s[1].Idx # -1
      BY <1>1, <1>4, <2>1, IndexFields DEF ActiveIndexColumn, IndexNumber
    <2>3. FindIndex(s, s[1].Idx) = 1
      BY <1>1, <2>1, <2>2, FindIndexExact
    <2>4. SetIndexActiveOK(q, s[1].Idx)
      BY <1>2, <2>1, <2>3 DEF SetIndexActiveOK
    <2>5. SetIndexActive(q, s[1].Idx) = [Indices |-> SetState(Drop(s, 0), 1, "Active"), activeIndex |-> 0]
      BY <1>2, <2>3 DEF SetIndexActive
    <2>6. SetState(Drop(s, 0), 1, "Active") = s
      <3>1. Drop(s, 0) = s
        BY <1>1 DEF Drop
      <3>2. \A i \in 1 .. Len(s) : (IF i = 1 THEN WithState(s[i], "Active") ELSE s[i]) = s[i]
        <4>1. \A x \in Index : x.State = "Active" => WithState(x, "Active") = x
          BY DEF WithState, Index
        <4> QED BY <4>1, <2>1, <1>1
      <3> QED BY <1>1, <3>1, <3>2 DEF SetState
    <2> HIDE DEF s
    <2>7. SetIndexActive(q, s[1].Idx) = r
      BY <1>1, <1>4, <2>5, <2>6
    <2>8. buildSegRsvFromFields(s, s[1].Idx) = r
      BY <2>2, <2>7 DEF buildSegRsvFromFields
    <2> QED BY <2>2, <2>4, <2>8 DEF s
  <1> QED BY <1>1, <1>3, <1>4 DEF ActiveFirst

\* A reservation read back from the DB is the one that was stored.
THEOREM ReloadAlwaysIdentity == Spec => []ReloadIsIdentity
  <1>1. ASSUME Inv, Stored
        PROVE  ReloadIsIdentity
    <2>1. Good(rsv) /\ rsv.Indices \in Seq(Index) /\ Window(rsv.Indices)
      BY <1>1, InvStored DEF Good, Reservation
    <2>2. \A i, j \in 1 .. Len(rsv.Indices) :
            i # j => (SortIndicesLess(rsv.Indices[i], rsv.Indices[j]) <=> i < j)
      BY <2>1, SortedByComparison
    <2> QED BY <2>1, <2>2, LoadActive DEF ReloadIsIdentity
  <1>2. Inv => ReloadIsIdentity
    BY <1>1 DEF ReloadIsIdentity
  <1> QED BY <1>2, InvAlways, PTL

=============================================================================
