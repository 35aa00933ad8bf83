----------------------------- MODULE ScanProofs ------------------------------
(***************************************************************************)
(* The theorems about module ChannelScan, for a list of any length Kconfig *)
(* allows, any number of access points beyond it and any number of         *)
(* channels: the bytes of the counters hold every count, and the channel   *)
(* chosen is the least busy but for the access points left out.            *)
(***************************************************************************)
EXTENDS ChannelScan, FiniteSetTheorems, TLAPS

-----------------------------------------------------------------------------
(* Counting the records of a channel. *)

\* No record has been counted before the loop begins.
LEMMA NoneCounted == \A c : Busy(c, 0) = 0
<1> SUFFICES ASSUME NEW c PROVE Busy(c, 0) = 0
  OBVIOUS
<1>1. {r \in 1..0 : found[r] = c} = {}
  OBVIOUS
<1> QED
  BY <1>1, FS_EmptySet DEF Busy

\* The first n access points have at most n on any channel.
LEMMA CountFinite ==
  ASSUME NEW c, NEW n \in Nat
  PROVE  /\ IsFiniteSet({r \in 1..n : found[r] = c})
         /\ Cardinality({r \in 1..n : found[r] = c}) <= n
<1>1. IsFiniteSet(1..n) /\ Cardinality(1..n) = n
  BY FS_Interval
<1>2. {r \in 1..n : found[r] = c} \subseteq 1..n
  OBVIOUS
<1> QED
  BY <1>1, <1>2, FS_Subset

LEMMA CountBounded ==
  ASSUME NEW c, NEW n \in Nat
  PROVE  Busy(c, n) \in 0..n
<1>1. Busy(c, n) <= n
  BY CountFinite DEF Busy
<1>2. Busy(c, n) \in Nat
  BY CountFinite, FS_CardinalityType DEF Busy
<1> QED
  BY <1>1, <1>2

\* The next record adds one to the count of its channel and to no other.
LEMMA CountNext ==
  ASSUME NEW c, NEW n \in Nat
  PROVE  Busy(c, n + 1) = Busy(c, n) + (IF found[n + 1] = c THEN 1 ELSE 0)
<1> DEFINE F == {r \in 1..n : found[r] = c}
<1>1. 1..(n + 1) = 1..n \cup {n + 1}
  OBVIOUS
<1>2. CASE found[n + 1] = c
  <2>1. {r \in 1..(n + 1) : found[r] = c} = F \cup {n + 1}
    BY <1>1, <1>2
  <2>2. IsFiniteSet(F)
    BY CountFinite
  <2>3. n + 1 \notin F
    OBVIOUS
  <2>4. Cardinality(F \cup {n + 1}) = Cardinality(F) + 1
    BY <2>2, <2>3, FS_AddElement
  <2> QED
    BY <1>2, <2>1, <2>4 DEF Busy
<1>3. CASE found[n + 1] # c
  <2>1. {r \in 1..(n + 1) : found[r] = c} = F
    BY <1>1, <1>3
  <2>2. Busy(c, n) \in Nat
    <3>1. Busy(c, n) \in 0..n
      BY CountBounded
    <3> QED
      BY <3>1
  <2> QED
    BY <1>3, <2>1, <2>2 DEF Busy
<1> QED
  BY <1>2, <1>3

\* Of the first n access points at most n - m come after the first m.
LEMMA CountMore ==
  ASSUME NEW c, NEW m \in Nat, NEW n \in Nat, m <= n
  PROVE  Busy(c, m) <= Busy(c, n) /\ Busy(c, n) <= Busy(c, m) + (n - m)
<1> DEFINE F == {r \in 1..m : found[r] = c}
           G == {r \in 1..n : found[r] = c}
           H == {r \in (m + 1)..n : found[r] = c}
<1>1. IsFiniteSet(F) /\ IsFiniteSet(G)
  BY CountFinite
<1>2. IsFiniteSet(H) /\ Cardinality(H) <= n - m
  <2>1. IsFiniteSet((m + 1)..n) /\ Cardinality((m + 1)..n) = n - m
    <3>1. /\ IsFiniteSet((m + 1)..n)
          /\ Cardinality((m + 1)..n) = IF m + 1 > n THEN 0 ELSE n - (m + 1) + 1
      BY FS_Interval
    <3> QED
      BY <3>1
  <2>2. H \subseteq (m + 1)..n
    OBVIOUS
  <2> QED
    BY <2>1, <2>2, FS_Subset
<1>3. Cardinality(F) <= Cardinality(G)
  <2>1. F \subseteq G
    OBVIOUS
  <2> QED
    BY <1>1, <2>1, FS_Subset
<1>4. Cardinality(G) <= Cardinality(F) + (n - m)
  <2>1. G = F \cup H
    OBVIOUS
  <2>2. F \cap H = {}
    OBVIOUS
  <2>3. Cardinality(F \cup H) = Cardinality(F) + Cardinality(H) - Cardinality(F \cap H)
    BY <1>1, <1>2, FS_Union
  <2>4. Cardinality(F) \in Nat /\ Cardinality(H) \in Nat
    BY <1>1, <1>2, FS_CardinalityType
  <2>5. Cardinality(F \cap H) = 0
    BY <2>2, FS_EmptySet
  <2> HIDE DEF F, G, H
  <2> QED
    BY <1>2, <2>1, <2>3, <2>4, <2>5
<1> QED
  BY <1>3, <1>4 DEF Busy

\* The records are the first access points found, and no more than the list holds.
LEMMA Number ==
  ASSUME ScanTypeOK
  PROVE  /\ Len(found) \in Nat /\ number \in Nat
         /\ number <= ListSize /\ number <= Len(found)
  BY ScanAssumption DEF ScanTypeOK, number

-----------------------------------------------------------------------------
(* The loop invariants. *)

\* The counters after the first n records.
Counted(n) == \A c \in Channels : count[c] = Busy(c, n)

\* e is one of the first n channels with the least count in f, and m that count.
LeastIn(f, n, e, m) ==
    IF n = 0 THEN e = 0 /\ m = 255
    ELSE /\ e \in 1..n
         /\ m = f[e]
         /\ \A c \in 1..n : m <= f[c]

LeastOf(n) == LeastIn(count, n, min_elem, min_count)

ScanInv ==
    /\ ScanTypeOK
    /\ scanStep = "idle" => i = 0 /\ Counted(0) /\ LeastOf(0)
    /\ scanStep = "count" =>
         i \in 1..(number + 1) /\ Counted(i - 1) /\ LeastOf(0)
    /\ scanStep = "choose" =>
         i \in 1..(NumChannels + 1) /\ Counted(number) /\ LeastOf(i - 1)
    /\ scanStep = "chosen" =>
         Counted(number) /\ LeastOf(NumChannels)

\* The call returns, or the device is reset.
ScanReset ==
    /\ scanStep' = "idle"
    /\ found' = <<>>
    /\ count' = NoCount
    /\ i' = 0
    /\ min_elem' = 0
    /\ min_count' = 255

\* A call starts with no record counted.
LEMMA FreshScan ==
  ASSUME found' \in Seq(Channels), count' = NoCount, min_elem' = 0,
         min_count' = 255
  PROVE  Counted(0)' /\ LeastOf(0)'
<1>1. ASSUME NEW c PROVE Busy(c, 0)' = 0
  <2>1. {r \in 1..0 : found'[r] = c} = {}
    OBVIOUS
  <2> QED
    BY <2>1, FS_EmptySet DEF Busy
<1> QED
  BY <1>1 DEF Counted, LeastOf, LeastIn, NoCount

LEMMA InitScan == ScanInit => ScanInv
<1> SUFFICES ASSUME ScanInit PROVE ScanInv
  OBVIOUS
<1> USE ScanAssumption DEF ScanInit
<1>1. ScanTypeOK
  BY DEF ScanTypeOK, NoCount
<1>2. Counted(0) /\ LeastOf(0)
  BY NoneCounted DEF Counted, LeastOf, LeastIn, NoCount
<1> QED
  BY <1>1, <1>2 DEF ScanInv

LEMMA ResetScan ==
  ASSUME ScanReset
  PROVE  ScanInv'
<1> USE ScanAssumption DEF ScanReset
<1>1. ScanTypeOK'
  BY DEF ScanTypeOK, NoCount
<1>2. Counted(0)' /\ LeastOf(0)'
  BY FreshScan
<1> QED
  BY <1>1, <1>2 DEF ScanInv

LEMMA StartScan ==
  ASSUME ScanInv, ScanStarts
  PROVE  ScanInv'
<1> USE ScanAssumption DEF ScanInv, ScanStarts
<1>1. PICK n \in 0..(ListSize + MaxUnlisted) : found' \in [1..n -> Channels]
  OBVIOUS
<1>2. /\ found' \in Seq(Channels) /\ Len(found') = n
      /\ n <= ListSize + MaxUnlisted
  BY <1>1
<1>3. ScanTypeOK'
  BY <1>2 DEF ScanTypeOK
<1>4. Counted(0)'
  BY NoneCounted DEF Counted, Busy
<1>5. LeastOf(0)'
  BY DEF LeastOf, LeastIn
<1>6. i' \in 1..(number' + 1)
  BY <1>2 DEF number
<1> QED
  BY <1>3, <1>4, <1>5, <1>6

\* A counter counts records, of which there are fewer than 255.
LEMMA CounterBounded ==
  ASSUME NEW n \in Nat, n <= ListSize, Counted(n), NEW c \in Channels
  PROVE  count[c] = Busy(c, n) /\ count[c] \in 0..254
<1>1. count[c] = Busy(c, n)
  BY DEF Counted
<1>2. Busy(c, n) \in 0..n
  BY CountBounded
<1>3. n <= 254
  BY ScanAssumption
<1> QED
  BY <1>1, <1>2, <1>3

\* The loop over the records: no counter reaches 256.
LEMMA CountStep ==
  ASSUME ScanInv, CountRecord
  PROVE  ScanInv'
<1>1. /\ scanStep = "count" /\ i <= number /\ i' = i + 1
      /\ UNCHANGED <<scanStep, found, min_elem, min_count>>
  BY DEF CountRecord
<1>2. i \in 1..(number + 1) /\ Counted(i - 1) /\ LeastOf(0)
  BY <1>1 DEF ScanInv
<1>3. number \in Nat /\ number <= ListSize /\ number <= Len(found)
      /\ Len(found) \in Nat
  BY Number DEF ScanInv
<1>4. i \in 1..number /\ i - 1 \in Nat /\ i - 1 <= ListSize
  BY <1>1, <1>2, <1>3, ScanAssumption
<1>5. found[i] \in Channels
  <2>1. i \in 1..Len(found) /\ found \in Seq(Channels)
    BY <1>3, <1>4 DEF ScanInv, ScanTypeOK
  <2> QED
    BY <2>1
<1>6. count \in [Channels -> 0..255]
  BY DEF ScanInv, ScanTypeOK
<1>7. ASSUME NEW c \in Channels
      PROVE  count[c] = Busy(c, i - 1) /\ count[c] \in 0..254
  BY <1>2, <1>4, CounterBounded
<1>8. count' = [count EXCEPT ![found[i]] = count[found[i]] + 1]
  <2>1. count' = [count EXCEPT ![found[i]] = (@ + 1) % 256]
    BY DEF CountRecord
  <2>2. count[found[i]] \in 0..254
    BY <1>5, <1>7
  <2>3. (count[found[i]] + 1) % 256 = count[found[i]] + 1
    BY <2>2
  <2> QED
    BY <2>1, <2>3
<1>9. ASSUME NEW c \in Channels PROVE count'[c] = Busy(c, i)
  <2>1. Busy(c, (i - 1) + 1) =
          Busy(c, i - 1) + (IF found[(i - 1) + 1] = c THEN 1 ELSE 0)
    BY <1>4, CountNext
  <2>2. (i - 1) + 1 = i
    BY <1>4
  <2>3. count'[c] = IF found[i] = c THEN count[c] + 1 ELSE count[c]
    BY <1>6, <1>8
  <2>4. count[c] = Busy(c, i - 1) /\ count[c] \in 0..254
    BY <1>7
  <2> QED
    BY <2>1, <2>2, <2>3, <2>4
<1>10. count' \in [Channels -> 0..255]
  <2>1. count[found[i]] + 1 \in 0..255
    BY <1>5, <1>7
  <2> QED
    BY <1>6, <1>8, <2>1
<1>11. ScanTypeOK'
  BY <1>1, <1>4, <1>10 DEF ScanInv, ScanTypeOK
<1>12. Counted(i - 1)'
  <2>1. i' - 1 = i
    BY <1>1, <1>4
  <2>2. \A c : Busy(c, i - 1)' = Busy(c, i)
    BY <1>1, <2>1 DEF Busy
  <2>3. \A c \in Channels : count'[c] = Busy(c, i - 1)'
    BY <1>9, <2>2
  <2> QED
    BY <2>3 DEF Counted
<1>13. LeastOf(0)'
  BY <1>1, <1>2 DEF LeastOf, LeastIn
<1>14. i' \in 1..(number' + 1)
  BY <1>1, <1>3, <1>4 DEF number
<1>15. scanStep' = "count"
  BY <1>1
<1> QED
  BY <1>11, <1>12, <1>13, <1>14, <1>15 DEF ScanInv

\* The second loop begins.
LEMMA CountedAll ==
  ASSUME ScanInv, AllCounted
  PROVE  ScanInv'
<1>1. /\ scanStep = "count" /\ i > number /\ scanStep' = "choose" /\ i' = 1
      /\ UNCHANGED <<found, count, min_elem, min_count>>
  BY DEF AllCounted
<1>2. ScanTypeOK /\ i \in 1..(number + 1) /\ Counted(i - 1) /\ LeastOf(0)
  BY <1>1 DEF ScanInv
<1>3. number \in Nat /\ i - 1 = number
  BY <1>1, <1>2, Number
<1>4. Counted(number)'
  BY <1>1, <1>2, <1>3 DEF Counted, Busy, number
<1>5. LeastOf(0)' /\ ScanTypeOK'
  BY <1>1, <1>2 DEF LeastOf, LeastIn, ScanTypeOK
<1> QED
  BY <1>1, <1>4, <1>5, ScanAssumption DEF ScanInv

\* One more channel: the first is always taken, as no count is 255.
LEMMA LeastNext ==
  ASSUME NEW f, NEW n \in Nat, NEW e, NEW m, NEW e2, NEW m2,
         \A c \in 1..(n + 1) : f[c] \in 0..254,
         LeastIn(f, n, e, m),
         IF f[n + 1] < m THEN e2 = n + 1 /\ m2 = f[n + 1] ELSE e2 = e /\ m2 = m
  PROVE  LeastIn(f, n + 1, e2, m2)
<1>1. f[n + 1] \in 0..254 /\ n + 1 \in 1..(n + 1) /\ n + 1 # 0
  OBVIOUS
<1>2. CASE n = 0
  <2>1. m = 255
    BY <1>2 DEF LeastIn
  <2>2. e2 = 1 /\ m2 = f[1]
    BY <1>1, <1>2, <2>1
  <2> QED
    BY <1>1, <1>2, <2>2 DEF LeastIn
<1>3. CASE n # 0
  <2>1. /\ e \in 1..n /\ m = f[e]
        /\ \A c \in 1..n : m <= f[c]
    BY <1>3 DEF LeastIn
  <2>2. \A c \in 1..(n + 1) : f[c] \in 0..254 /\ (c \in 1..n \/ c = n + 1)
    OBVIOUS
  <2>3. m \in 0..254
    <3>1. e \in 1..(n + 1)
      BY <2>1
    <3> QED
      BY <2>1, <3>1
  <2>4. CASE f[n + 1] < m
    <3>1. e2 = n + 1 /\ m2 = f[n + 1]
      BY <2>4
    <3>2. ASSUME NEW c \in 1..(n + 1)
          PROVE  f[n + 1] <= f[c]
      <4>1. f[c] \in 0..254 /\ f[n + 1] \in 0..254 /\ m \in 0..254
        BY <1>1, <2>3
      <4>2. CASE c = n + 1
        BY <4>1, <4>2
      <4>3. CASE c # n + 1
        <5>1. c \in 1..n
          BY <4>3
        <5>2. m <= f[c]
          BY <2>1, <5>1
        <5>3. PICK x \in Int : x = f[n + 1]
          BY <4>1
        <5>4. PICK y \in Int : y = m
          BY <4>1
        <5>5. PICK z \in Int : z = f[c]
          BY <4>1
        <5>6. x < y /\ y <= z
          BY <2>4, <5>2, <5>3, <5>4, <5>5
        <5>7. x <= z
          BY <5>6
        <5> QED
          BY <5>3, <5>5, <5>7
      <4> QED
        BY <4>2, <4>3
    <3> QED
      BY <1>1, <3>1, <3>2 DEF LeastIn
  <2>5. CASE ~(f[n + 1] < m)
    <3>1. e2 = e /\ m2 = m
      BY <2>5
    <3>2. m <= f[n + 1]
      BY <1>1, <2>5, <2>3
    <3>3. e \in 1..(n + 1)
      BY <2>1
    <3>4. \A c \in 1..(n + 1) : m <= f[c]
      BY <2>1, <2>2, <3>2, <3>3
    <3> QED
      BY <1>1, <2>1, <3>1, <3>3, <3>4 DEF LeastIn
  <2> QED
    BY <2>4, <2>5
<1> QED
  BY <1>2, <1>3

\* The loop over the channels.
LEMMA CompareStep ==
  ASSUME ScanInv, CompareChannel
  PROVE  ScanInv'
<1>1. /\ scanStep = "choose" /\ i <= NumChannels /\ i' = i + 1
      /\ UNCHANGED <<scanStep, found, count>>
  BY DEF CompareChannel
<1>2. IF count[i] < min_count THEN min_elem' = i /\ min_count' = count[i]
                              ELSE min_elem' = min_elem /\ min_count' = min_count
  BY DEF CompareChannel
<1>3. i \in 1..(NumChannels + 1) /\ Counted(number) /\ LeastOf(i - 1)
  BY <1>1 DEF ScanInv
<1>4. i \in 1..NumChannels /\ i - 1 \in Nat /\ (i - 1) + 1 = i
  BY <1>1, <1>3, ScanAssumption
<1>5. ASSUME NEW c \in 1..i PROVE c \in Channels /\ count[c] \in 0..254
  <2>1. c \in Channels
    BY <1>4, ScanAssumption DEF Channels
  <2>2. number \in Nat /\ number <= ListSize
    BY Number DEF ScanInv
  <2> QED
    BY <1>3, <2>1, <2>2, CounterBounded
<1>6. LeastIn(count, i, min_elem', min_count')
  <2>1. LeastIn(count, (i - 1) + 1, min_elem', min_count')
    <3>1. LeastIn(count, i - 1, min_elem, min_count)
      BY <1>3 DEF LeastOf
    <3>2. \A c \in 1..((i - 1) + 1) : count[c] \in 0..254
      BY <1>4, <1>5
    <3>3. IF count[(i - 1) + 1] < min_count
            THEN min_elem' = (i - 1) + 1 /\ min_count' = count[(i - 1) + 1]
            ELSE min_elem' = min_elem /\ min_count' = min_count
      BY <1>2, <1>4
    <3> QED
      BY <1>4, <3>1, <3>2, <3>3, LeastNext
  <2> QED
    BY <1>4, <2>1
<1>7. LeastOf(i - 1)'
  <2>1. i' - 1 = i /\ count' = count
    BY <1>1, <1>4
  <2> QED
    BY <1>6, <2>1 DEF LeastOf
<1>8. ScanTypeOK'
  <2>1. min_elem' \in 0..NumChannels /\ min_count' \in 0..255
    <3>1. count[i] \in 0..254
      BY <1>4, <1>5
    <3>2. min_elem \in 0..NumChannels /\ min_count \in 0..255
      BY DEF ScanInv, ScanTypeOK
    <3> QED
      BY <1>2, <1>4, <3>1, <3>2
  <2>2. i' \in Nat
    BY <1>1, <1>4
  <2> QED
    BY <1>1, <2>1, <2>2 DEF ScanInv, ScanTypeOK
<1>9. Counted(number)'
  BY <1>1, <1>3 DEF Counted, Busy, number
<1>10. i' \in 1..(NumChannels + 1)
  BY <1>1, <1>4, ScanAssumption
<1>11. scanStep' = "choose"
  BY <1>1
<1> QED
  BY <1>7, <1>8, <1>9, <1>10, <1>11 DEF ScanInv

\* The loop over the channels ends.
LEMMA ComparedAll ==
  ASSUME ScanInv, AllCompared
  PROVE  ScanInv'
<1>1. /\ scanStep = "choose" /\ i > NumChannels /\ scanStep' = "chosen"
      /\ UNCHANGED <<found, count, i, min_elem, min_count>>
  BY DEF AllCompared
<1>2. /\ ScanTypeOK /\ i \in 1..(NumChannels + 1) /\ Counted(number)
      /\ LeastOf(i - 1)
  BY <1>1 DEF ScanInv
<1>3. i - 1 = NumChannels
  BY <1>1, <1>2, ScanAssumption
<1>4. /\ ScanTypeOK' /\ Counted(number)' /\ LeastOf(NumChannels)'
  BY <1>1, <1>2, <1>3 DEF ScanTypeOK, Counted, LeastOf, LeastIn, Busy, number
<1> QED
  BY <1>1, <1>4 DEF ScanInv

-----------------------------------------------------------------------------
(* The theorems. *)

\* ScanInv is inductive, also for a device that may be reset during a scan.
LEMMA ScanStep ==
  ASSUME ScanInv, [ScanNext \/ ScanReset]_scanVars
  PROVE  ScanInv'
<1>1. CASE ScanReturns
  BY <1>1, ResetScan DEF ScanReturns, ScanReset
<1>2. CASE UNCHANGED scanVars
  <2>1. ScanTypeOK' /\ number' = number
    BY <1>2 DEF scanVars, ScanInv, ScanTypeOK, number
  <2>2. \A n : Counted(n)' = Counted(n) /\ LeastOf(n)' = LeastOf(n)
    BY <1>2 DEF scanVars, Counted, LeastOf, LeastIn, Busy
  <2> QED
    BY <1>2, <2>1, <2>2 DEF scanVars, ScanInv
<1> QED
  BY <1>1, <1>2, ResetScan, StartScan, CountStep, CountedAll, CompareStep,
     ComparedAll DEF ScanNext

\* What the loops compute is what LeastBusy asks for.
LEMMA ChosenIsLeast == ScanInv => LeastBusy
<1> DEFINE n == Len(found)
<1> SUFFICES ASSUME ScanInv, scanStep = "chosen"
             PROVE  /\ min_elem \in 1..NumChannels
                    /\ \A c \in 1..NumChannels :
                          Busy(min_elem, n) <= Busy(c, n) + (n - number)
  BY DEF LeastBusy
<1>1. Counted(number) /\ LeastOf(NumChannels) /\ ScanTypeOK
  BY DEF ScanInv
<1>2. 1..NumChannels \subseteq Channels /\ NumChannels # 0
  BY ScanAssumption DEF Channels
<1>3. /\ min_elem \in 1..NumChannels
      /\ \A c \in 1..NumChannels : count[min_elem] <= count[c]
  BY <1>1, <1>2 DEF LeastOf, LeastIn
<1>4. \A c \in 1..NumChannels : count[c] = Busy(c, number)
  BY <1>1, <1>2 DEF Counted
<1>5. number \in Nat /\ n \in Nat /\ number <= n
  BY <1>1, Number
<1>6. ASSUME NEW c \in 1..NumChannels
      PROVE  Busy(min_elem, n) <= Busy(c, n) + (n - number)
  <2>1. Busy(min_elem, number) <= Busy(c, number)
    BY <1>3, <1>4, Zenon
  <2>2. Busy(min_elem, n) <= Busy(min_elem, number) + (n - number)
    BY <1>5, CountMore
  <2>3. Busy(c, number) <= Busy(c, n)
    BY <1>5, CountMore
  <2>4. Busy(min_elem, number) \in Int /\ Busy(min_elem, n) \in Int
    <3>1. Busy(min_elem, number) \in 0..number /\ Busy(min_elem, n) \in 0..n
      BY <1>5, CountBounded
    <3> QED
      BY <3>1
  <2>5. Busy(c, number) \in Int /\ Busy(c, n) \in Int
    <3>1. Busy(c, number) \in 0..number /\ Busy(c, n) \in 0..n
      BY <1>5, CountBounded
    <3> QED
      BY <3>1
  <2> HIDE DEF n
  <2> QED
    BY <1>5, <2>1, <2>2, <2>3, <2>4, <2>5
<1> QED
  BY <1>3, <1>6

\* aug_get_least_freq_channel returns the least busy channel, but for the access
\* points left out of the list.
THEOREM LeastBusyChosen == ScanSpec => []LeastBusy
<1> QED
  BY InitScan, ScanStep, ChosenIsLeast, PTL DEF ScanSpec
=============================================================================
