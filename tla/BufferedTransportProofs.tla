---------------------- MODULE BufferedTransportProofs ----------------------
(***************************************************************************)
(* Proofs about BufferedTransport, for every set of log() calls, flush     *)
(* size, cap and number of retries.                                        *)
(***************************************************************************)
EXTENDS BufferedTransport, FiniteSetTheorems, SequenceTheorems, TLAPS

SuffixOf(s, t) ==
  Len(s) <= Len(t) /\ \A i \in 1..Len(s) : s[i] = t[Len(t) - Len(s) + i]

(* An event is taken once, waits among the newest, and is in one place.    *)
InOnePlace ==
  /\ \A i, j \in DOMAIN logged : logged[i] = logged[j] => i = j
  /\ SuffixOf(active, logged)
  /\ Elements(sending.batch) \subseteq Elements(logged) \ Elements(active)
  /\ \A e \in Events : reported[e] > 0 => e \in Elements(logged)

(* What is sent is the batch in flight or closeAsync's last one, a sleep   *)
(* comes before an attempt that is left, and a destroyed buffer has no     *)
(* timer.                                                                  *)
OneSender ==
  /\ sending.at = "none" <=> sending.batch = << >>
  /\ flight # << >> => sending.batch = flight
  /\ closing = "sending" => flight = << >>
  /\ sending.at # "none" => flight # << >> \/ closing = "sending"
  /\ closing \in {"sending", "done"} => destroyed
  /\ destroyed => ~timer
  /\ sending.at = "waiting" => sending.tries # MaxRetries

Inv ==
  /\ TypeOK /\ InOnePlace /\ OneSender
  /\ RetainedWithinCap /\ AccountedOnce

-----------------------------------------------------------------------------
(* What the operators on sequences return.                                 *)

LEMMA BatchIsSeq ==
  \A s : s \in Batches <=> s \in Seq(Events) /\ Len(s) <= Cardinality(Events)
  <1>1. Cardinality(Events) \in Nat
    BY FS_CardinalityType, BufferAssumption
  <1>2. ASSUME NEW s \in Batches
        PROVE  s \in Seq(Events) /\ Len(s) <= Cardinality(Events)
    <2>1. PICK n \in 0..Cardinality(Events) : s \in [1..n -> Events]
      BY DEF Batches
    <2> QED BY <1>1, <2>1
  <1>3. ASSUME NEW s \in Seq(Events), Len(s) <= Cardinality(Events)
        PROVE  s \in Batches
    <2>1. Len(s) \in 0..Cardinality(Events) /\ s \in [1..Len(s) -> Events]
      BY <1>1, <1>3
    <2> QED BY <2>1 DEF Batches
  <1> QED BY <1>2, <1>3

LEMMA ElementsIn ==
  ASSUME NEW s \in Seq(Events)
  PROVE  /\ Elements(s) \subseteq Events
         /\ s = << >> <=> Elements(s) = {}
  BY DEF Elements

LEMMA ElementsOfAppend ==
  ASSUME NEW s \in Seq(Events), NEW e \in Events
  PROVE  Elements(Append(s, e)) = Elements(s) \union {e}
  <1>1. /\ Append(s, e) \in Seq(Events) /\ Len(Append(s, e)) = Len(s) + 1
        /\ \A i \in 1..Len(s) : Append(s, e)[i] = s[i]
        /\ Append(s, e)[Len(s) + 1] = e
    BY AppendProperties
  <1>2. DOMAIN s = 1..Len(s) /\ DOMAIN Append(s, e) = 1..Len(s) + 1 /\ Len(s) \in Nat
    BY <1>1, LenProperties
  <1> QED BY <1>1, <1>2 DEF Elements

LEMMA ElementsOfSuffix ==
  ASSUME NEW s \in Seq(Events), NEW t \in Seq(Events), SuffixOf(s, t)
  PROVE  Elements(s) \subseteq Elements(t)
  <1> SUFFICES ASSUME NEW i \in 1..Len(s) PROVE s[i] \in Elements(t)
    BY DEF Elements
  <1>1. Len(t) - Len(s) + i \in 1..Len(t)
    BY DEF SuffixOf
  <1> QED BY <1>1 DEF SuffixOf, Elements

LEMMA SuffixExtended ==
  ASSUME NEW s \in Seq(Events), NEW t \in Seq(Events), NEW e \in Events, SuffixOf(s, t)
  PROVE  SuffixOf(Append(s, e), Append(t, e))
  <1> DEFINE u == Append(s, e)
             v == Append(t, e)
  <1>1. /\ Len(s) \in Nat /\ Len(t) \in Nat
        /\ Len(u) = Len(s) + 1 /\ Len(v) = Len(t) + 1
        /\ \A i \in 1..Len(s) : u[i] = s[i]
        /\ \A i \in 1..Len(t) : v[i] = t[i]
        /\ u[Len(s) + 1] = e /\ v[Len(t) + 1] = e
    BY AppendProperties, LenProperties
  <1> HIDE DEF u, v
  <1>2. ASSUME NEW i \in 1..Len(s) + 1
        PROVE  u[i] = v[Len(t) - Len(s) + i]
    <2>1. CASE i = Len(s) + 1
      BY <1>1, <2>1
    <2>2. CASE i \in 1..Len(s)
      <3>1. Len(t) - Len(s) + i \in 1..Len(t)
        BY <1>1, <2>2 DEF SuffixOf
      <3>2. s[i] = t[Len(t) - Len(s) + i]
        BY <2>2 DEF SuffixOf
      <3> QED BY <1>1, <2>2, <3>1, <3>2
    <2> QED BY <1>1, <2>1, <2>2
  <1>3. Len(t) + 1 - (Len(s) + 1) = Len(t) - Len(s)
    BY <1>1
  <1>4. Len(u) <= Len(v)
    BY <1>1 DEF SuffixOf
  <1>5. SuffixOf(u, v)
    BY <1>1, <1>2, <1>3, <1>4 DEF SuffixOf
  <1> QED BY <1>5 DEF u, v

LEMMA SuffixTransitive ==
  ASSUME NEW r \in Seq(Events), NEW s \in Seq(Events), NEW t \in Seq(Events),
         SuffixOf(r, s), SuffixOf(s, t)
  PROVE  SuffixOf(r, t)
  <1>1. /\ Len(r) \in Nat /\ Len(s) \in Nat /\ Len(t) \in Nat
        /\ Len(r) <= Len(s) /\ Len(s) <= Len(t)
    BY DEF SuffixOf
  <1> SUFFICES ASSUME NEW i \in 1..Len(r) PROVE r[i] = t[Len(t) - Len(r) + i]
    BY <1>1 DEF SuffixOf
  <1> DEFINE j == Len(s) - Len(r) + i
  <1>2. j \in 1..Len(s) /\ r[i] = s[j]
    BY <1>1 DEF SuffixOf
  <1>3. s[j] = t[Len(t) - Len(s) + j]
    BY <1>2 DEF SuffixOf
  <1>4. Len(t) - Len(s) + j = Len(t) - Len(r) + i
    BY <1>1
  <1> QED BY <1>2, <1>3, <1>4

LEMMA SuffixIsNewest ==
  ASSUME NEW s \in Seq(Events), NEW t \in Seq(Events), SuffixOf(s, t)
  PROVE  s = SubSeq(t, Len(t) - Len(s) + 1, Len(t))
  <1> DEFINE m == Len(t) - Len(s) + 1
             u == SubSeq(t, m, Len(t))
  <1>1. /\ Len(s) \in Nat /\ Len(t) \in Nat /\ Len(s) <= Len(t)
        /\ m \in 1..Len(t) + 1
    BY DEF SuffixOf
  <1>2. /\ u \in Seq(Events)
        /\ Len(u) = IF m <= Len(t) THEN Len(t) - m + 1 ELSE 0
        /\ \A i \in 1..Len(t) - m + 1 : u[i] = t[m + i - 1]
    <2>1. \A i \in m..Len(t) : t[i] \in Events
      BY <1>1, ElementOfSeq
    <2> HIDE DEF m
    <2> QED BY <1>1, <2>1, SubSeqProperties
  <1>3. Len(u) = Len(s)
    BY <1>1, <1>2
  <1>4. \A i \in 1..Len(s) : s[i] = u[i]
    <2> TAKE i \in 1..Len(s)
    <2>1. i \in 1..Len(t) - m + 1 /\ m + i - 1 = Len(t) - Len(s) + i
      BY <1>1
    <2> QED BY <1>2, <2>1 DEF SuffixOf
  <1> HIDE DEF u
  <1> QED BY <1>2, <1>3, <1>4, SeqEqual

(* A sequence without repetition is no longer than its events are many.    *)
LEMMA DistinctIsShort ==
  ASSUME NEW s \in Seq(Events), \A i, j \in DOMAIN s : s[i] = s[j] => i = j
  PROVE  s \in Batches
  <1>1. s \in [1..Len(s) -> Events] /\ DOMAIN s = 1..Len(s) /\ Len(s) \in Nat
    BY LenProperties
  <1>2. s \in Injection(1..Len(s), Events)
    BY <1>1 DEF Injection, IsInjective
  <1>3. Cardinality(1..Len(s)) <= Cardinality(Events)
    BY <1>2, FS_Injection, BufferAssumption
  <1>4. Cardinality(1..Len(s)) = Len(s)
    <2>1. 1 \in Int /\ Len(s) \in Int
      BY <1>1
    <2>2. Cardinality(1..Len(s)) = IF 1 > Len(s) THEN 0 ELSE Len(s) - 1 + 1
      BY <2>1, FS_Interval
    <2> QED BY <1>1, <2>2
  <1> QED BY <1>3, <1>4, BatchIsSeq

LEMMA WaterMark == LowWaterMark \in 1..MaxRetained
  BY BufferAssumption DEF LowWaterMark

(* push() keeps the newest, as many as the cap allows next to the flight.  *)
LEMMA EvictKeeps ==
  ASSUME NEW buf \in Seq(Events), flight \in Seq(Events), Len(flight) <= MaxRetained
  PROVE  /\ Evict(buf) \in Seq(Events)
         /\ SuffixOf(Evict(buf), buf)
         /\ Len(Evict(buf)) + Len(flight) <= MaxRetained
  <1> DEFINE room == IF LowWaterMark > Len(flight) THEN LowWaterMark - Len(flight) ELSE 0
             m == Len(buf) - room + 1
             kept == SubSeq(buf, m, Len(buf))
  <1>1. /\ Len(buf) \in Nat /\ Len(flight) \in Nat /\ MaxRetained \in Nat
        /\ LowWaterMark \in Nat /\ LowWaterMark <= MaxRetained
    BY WaterMark, BufferAssumption
  <1>2. CASE Len(buf) + Len(flight) <= MaxRetained
    <2>1. ~(Len(buf) + Len(flight) > MaxRetained)
      BY <1>1, <1>2
    <2>2. Evict(buf) = buf
      BY <2>1, Zenon DEF Evict
    <2> QED BY <1>1, <1>2, <2>2 DEF SuffixOf
  <1>3. CASE Len(buf) + Len(flight) > MaxRetained
    <2>1. room \in Nat /\ room <= Len(buf) /\ room + Len(flight) <= MaxRetained
      BY <1>1, <1>3
    <2>2. Evict(buf) = kept
      BY <1>3 DEF Evict
    <2> HIDE DEF room
    <2>3. /\ kept \in Seq(Events)
          /\ Len(kept) = IF m <= Len(buf) THEN Len(buf) - m + 1 ELSE 0
          /\ \A i \in 1..Len(buf) - m + 1 : kept[i] = buf[m + i - 1]
      <3>1. m \in Int /\ \A i \in m..Len(buf) : buf[i] \in Events
        BY <1>1, <2>1, ElementOfSeq
      <3> HIDE DEF m
      <3> QED BY <1>1, <3>1, SubSeqProperties
    <2>4. Len(kept) = room
      BY <1>1, <2>1, <2>3
    <2>5. \A i \in 1..room : kept[i] = buf[Len(buf) - room + i]
      <3> TAKE i \in 1..room
      <3>1. i \in 1..Len(buf) - m + 1 /\ m + i - 1 = Len(buf) - room + i
        BY <1>1, <2>1
      <3> QED BY <2>3, <3>1
    <2> HIDE DEF kept
    <2> QED BY <2>1, <2>2, <2>3, <2>4, <2>5 DEF SuffixOf
  <1> QED BY <1>1, <1>2, <1>3
-----------------------------------------------------------------------------
LEMMA EmptyBatch == << >> \in Batches /\ Elements(<< >>) = {} /\ Len(<< >>) = 0
  <1>1. << >> \in Seq(Events) /\ Len(<< >>) = 0
    OBVIOUS
  <1>2. Len(<< >>) <= Cardinality(Events)
    BY <1>1, FS_CardinalityType, BufferAssumption
  <1>3. << >> \in Batches
    BY <1>1, <1>2, BatchIsSeq, Zenon
  <1>4. Elements(<< >>) = {}
    BY <1>1 DEF Elements
  <1> QED BY <1>1, <1>3, <1>4

LEMMA InvInit == Init => Inv
  <1> SUFFICES ASSUME Init PROVE Inv
    OBVIOUS
  <1>1. << >> \in Batches /\ Elements(<< >>) = {} /\ Len(<< >>) = 0
    BY EmptyBatch
  <1>2. TypeOK
    <2>1. sending \in [at : {"none", "posting", "waiting"}, batch : Batches,
                       tries : 0..MaxRetries, heeds : BOOLEAN]
      <3>1. 0 \in 0..MaxRetries
        BY BufferAssumption
      <3> QED BY <1>1, <3>1 DEF Init, Idle
    <2>2. reported \in [Events -> 0..2]
      BY DEF Init
    <2> QED BY <1>1, <2>1, <2>2, Zenon DEF Init, TypeOK
  <1>3. InOnePlace
    BY <1>1 DEF Init, InOnePlace, SuffixOf, Idle
  <1>4. OneSender
    BY DEF Init, OneSender, Idle
  <1>5. RetainedWithinCap /\ AccountedOnce
    BY <1>1, BufferAssumption DEF Init, RetainedWithinCap, AccountedOnce, Accounted, DroppedOnce
  <1> QED BY <1>2, <1>3, <1>4, <1>5 DEF Inv

Sends == [at : {"none", "posting", "waiting"}, batch : Batches,
          tries : 0..MaxRetries, heeds : BOOLEAN]

(* triggerFlush moves the whole buffer into the flight or leaves it alone. *)
LEMMA TriggerKeeps ==
  ASSUME TypeOK, OneSender, ~destroyed, NEW buf \in Batches, NEW armed \in BOOLEAN,
         Len(buf) + Len(flight) <= MaxRetained,
         Elements(buf) \cap Elements(sending.batch) = {},
         TriggerFlush(buf, armed), UNCHANGED <<destroyed, closing>>
  PROVE  /\ active' \in Batches /\ flight' \in Batches /\ timer' \in BOOLEAN /\ sending' \in Sends
         /\ OneSender' /\ RetainedWithinCap'
         /\ active' \in {buf, << >>}
         /\ Elements(active') \union Elements(sending'.batch)
              = Elements(buf) \union Elements(sending.batch)
         /\ Elements(active') \cap Elements(sending'.batch) = {}
  <1>1. << >> \in Batches /\ Elements(<< >>) = {} /\ Len(<< >>) = 0 /\ Len(buf) \in Nat
    BY EmptyBatch, BatchIsSeq, LenProperties
  <1>2. CASE buf = << >> \/ flight # << >>
    <2>1. active' = buf /\ timer' = armed /\ flight' = flight /\ sending' = sending
      BY <1>2 DEF TriggerFlush
    <2> QED BY <2>1 DEF TypeOK, Sends, OneSender, RetainedWithinCap
  <1>3. CASE buf # << >> /\ flight = << >>
    <2>1. /\ active' = << >> /\ timer' = TRUE /\ flight' = buf
          /\ sending' = [at |-> "posting", batch |-> buf, tries |-> 0, heeds |-> closing # "no"]
      BY <1>3 DEF TriggerFlush
    <2>2. sending'.batch = buf /\ sending'.at = "posting" /\ sending' \in Sends
      BY <2>1, BufferAssumption DEF Sends
    <2>3. closing # "sending" /\ sending.batch = << >>
      BY <1>3 DEF OneSender, TypeOK
    <2>4. OneSender'
      BY <1>3, <2>1, <2>2, <2>3 DEF OneSender
    <2>5. RetainedWithinCap'
      BY <1>1, <1>3, <2>1 DEF RetainedWithinCap
    <2> QED BY <1>1, <2>1, <2>2, <2>3, <2>4, <2>5
  <1> QED BY <1>2, <1>3

LEMMA PushKeepsInv ==
  ASSUME Inv, NEW e \in Events, Push(e)
  PROVE  Inv'
  <1> DEFINE buf == Append(active, e)
             kept == Evict(buf)
             dropped == Elements(buf) \ Elements(kept)
  <1>1. /\ ~destroyed /\ e \notin Elements(logged)
        /\ reported' = Report(dropped, reported)
        /\ IF Len(kept) >= BufferSize THEN TriggerFlush(kept, timer)
           ELSE active' = kept /\ UNCHANGED <<timer, flight, sending>>
        /\ logged' = Append(logged, e)
        /\ UNCHANGED <<destroyed, closing, aborted, delivered, forsaken>>
    BY DEF Push, closes
  <1>2. /\ active \in Seq(Events) /\ logged \in Seq(Events) /\ flight \in Seq(Events)
        /\ sending.batch \in Seq(Events) /\ sending \in Sends /\ timer \in BOOLEAN
    BY BatchIsSeq DEF Inv, TypeOK, Sends
  <1>3. buf \in Seq(Events) /\ Append(logged, e) \in Seq(Events)
    BY <1>2, AppendProperties
  <1>4. Len(flight) <= MaxRetained
    <2>1. Len(active) \in Nat /\ Len(flight) \in Nat
      BY <1>2, LenProperties
    <2> QED BY <2>1, BufferAssumption DEF Inv, RetainedWithinCap
  <1>5. /\ kept \in Seq(Events) /\ SuffixOf(kept, buf)
        /\ Len(kept) + Len(flight) <= MaxRetained
    <2> HIDE DEF buf
    <2> QED BY <1>2, <1>3, <1>4, EvictKeeps
  <1>6. SuffixOf(kept, logged')
    <2>1. SuffixOf(buf, logged')
      BY <1>1, <1>2, SuffixExtended DEF Inv, InOnePlace
    <2> HIDE DEF buf, kept
    <2> QED BY <1>1, <1>3, <1>5, <2>1, SuffixTransitive
  <1>7. Elements(buf) = Elements(active) \union {e} /\ Elements(logged') = Elements(logged) \union {e}
    BY <1>1, <1>2, ElementsOfAppend
  <1>8. Elements(kept) \subseteq Elements(buf)
    <2> HIDE DEF buf, kept
    <2> QED BY <1>3, <1>5, ElementsOfSuffix
  <1> HIDE DEF buf, kept
  <1>9. logged' \in Batches /\ \A i, j \in DOMAIN logged' : logged'[i] = logged'[j] => i = j
    <2>1. /\ Len(logged') = Len(logged) + 1 /\ Len(logged) \in Nat
          /\ DOMAIN logged = 1..Len(logged) /\ DOMAIN logged' = 1..Len(logged')
          /\ \A i \in 1..Len(logged) : logged'[i] = logged[i]
          /\ logged'[Len(logged) + 1] = e
      BY <1>1, <1>2, AppendProperties, LenProperties
    <2>2. ASSUME NEW i \in DOMAIN logged', NEW j \in DOMAIN logged', logged'[i] = logged'[j]
          PROVE  i = j
      <3>1. \A k \in 1..Len(logged) : logged[k] # e
        BY <1>1, <2>1 DEF Elements
      <3>2. CASE i \in 1..Len(logged) /\ j \in 1..Len(logged)
        BY <2>1, <2>2, <3>2 DEF Inv, InOnePlace
      <3>3. CASE i = Len(logged) + 1 \/ j = Len(logged) + 1
        BY <2>1, <2>2, <3>1, <3>3
      <3> QED BY <2>1, <3>2, <3>3
    <2> QED BY <1>1, <1>3, <2>2, DistinctIsShort
  <1>10. kept \in Batches
    <2>1. Len(kept) <= Len(logged') /\ Len(logged') <= Cardinality(Events)
      BY <1>6, <1>9, BatchIsSeq DEF SuffixOf
    <2>2. Len(kept) \in Nat /\ Len(logged') \in Nat /\ Cardinality(Events) \in Nat
      BY <1>1, <1>3, <1>5, LenProperties, FS_CardinalityType, BufferAssumption
    <2> QED BY <1>5, <2>1, <2>2, BatchIsSeq
  <1>11. Elements(kept) \cap Elements(sending.batch) = {}
    BY <1>1, <1>7, <1>8 DEF Inv, InOnePlace
  <1>12. /\ active' \in Batches /\ flight' \in Batches /\ timer' \in BOOLEAN /\ sending' \in Sends
         /\ OneSender' /\ RetainedWithinCap'
         /\ active' \in {kept, << >>}
         /\ Elements(active') \union Elements(sending'.batch)
              = Elements(kept) \union Elements(sending.batch)
         /\ Elements(active') \cap Elements(sending'.batch) = {}
    <2>1. CASE Len(kept) >= BufferSize
      BY <1>1, <1>2, <1>5, <1>10, <1>11, <2>1, TriggerKeeps DEF Inv
    <2>2. CASE ~(Len(kept) >= BufferSize)
      <3>1. active' = kept /\ UNCHANGED <<timer, flight, sending>>
        BY <1>1, <2>2
      <3> QED BY <1>1, <1>2, <1>5, <1>10, <1>11, <3>1 DEF Inv, TypeOK, OneSender, RetainedWithinCap
    <2> QED BY <2>1, <2>2
  <1>13. dropped \subseteq Elements(active) \union {e} /\ dropped \cap Elements(kept) = {}
         /\ dropped \subseteq Events
    BY <1>7, <1>3, <1>8, ElementsIn
  <1>14. \A x \in Events : /\ x \in dropped => reported[x] = 0 /\ reported'[x] = 1
                           /\ x \notin dropped => reported'[x] = reported[x]
    <2> TAKE x \in Events
    <2>1. reported \in [Events -> 0..2] /\ reported[x] \in 0..1
      BY DEF Inv, TypeOK, AccountedOnce, DroppedOnce
    <2>2. reported'[x] = IF x \in dropped THEN reported[x] + 1 ELSE reported[x]
      BY <1>1 DEF Report
    <2>3. x \in dropped => reported[x] = 0
      BY <1>1, <1>13, <2>1 DEF Inv, InOnePlace, AccountedOnce, DroppedOnce
    <2> QED BY <2>1, <2>2, <2>3
  <1> HIDE DEF dropped
  <1>15. reported' \in [Events -> 0..2]
    <2>1. reported' = [x \in Events |-> reported'[x]]
      BY <1>1 DEF Report
    <2>2. \A x \in Events : reported'[x] \in 0..2
      BY <1>14 DEF Inv, TypeOK
    <2> QED BY <2>1, <2>2
  <1>16. TypeOK'
    BY <1>1, <1>9, <1>12, <1>15 DEF Inv, TypeOK, Sends
  <1>17. InOnePlace'
    <2>1. SuffixOf(active', logged')
      <3>1. logged' \in Seq(Events) /\ Len(logged') \in Nat
        BY <1>1, <1>3, LenProperties
      <3>2. SuffixOf(<< >>, logged')
        BY <3>1 DEF SuffixOf
      <3> QED BY <1>6, <1>12, <3>2
    <2>2. Elements(sending'.batch) \subseteq Elements(logged') \ Elements(active')
      <3>1. Elements(active) \subseteq Elements(logged)
        BY <1>2, ElementsOfSuffix DEF Inv, InOnePlace
      <3>2. Elements(kept) \union Elements(sending.batch) \subseteq Elements(logged')
        BY <1>7, <1>8, <3>1 DEF Inv, InOnePlace
      <3> QED BY <1>12, <3>2
    <2>3. \A x \in Events : reported'[x] > 0 => x \in Elements(logged')
      <3>1. Elements(active) \subseteq Elements(logged)
        BY <1>2, ElementsOfSuffix DEF Inv, InOnePlace
      <3> TAKE x \in Events
      <3>2. x \in dropped => x \in Elements(logged')
        BY <1>7, <1>13, <3>1
      <3>3. x \notin dropped => reported'[x] = reported[x]
        BY <1>14
      <3>4. reported[x] > 0 => x \in Elements(logged)
        BY DEF Inv, InOnePlace
      <3> QED BY <1>7, <3>2, <3>3, <3>4
    <2> QED BY <1>9, <2>1, <2>2, <2>3 DEF InOnePlace
  <1>18. DroppedOnce'
    <2>1. \A x \in Events : x \in dropped => x \notin Elements(active') \union Elements(sending'.batch)
      BY <1>1, <1>7, <1>12, <1>13 DEF Inv, InOnePlace
    <2>2. \A x \in Events : reported[x] = 1 =>
            x \notin Elements(active') \union Elements(sending'.batch)
      BY <1>1, <1>7, <1>8, <1>12 DEF Inv, AccountedOnce, DroppedOnce, InOnePlace
    <2> QED BY <1>14, <2>1, <2>2 DEF Inv, AccountedOnce, DroppedOnce
  <1>19. Accounted'
    <2> SUFFICES ASSUME NEW x \in Elements(logged')
                 PROVE  \/ x \in Elements(active') \union Elements(sending'.batch) \union delivered'
                        \/ reported'[x] > 0
                        \/ aborted' /\ \E why \in {"aborted", "rejected", "exhausted"} :
                                          <<x, why>> \in forsaken'
      BY DEF Accounted
    <2>1. x \in Events
      BY <1>1, <1>3, ElementsIn
    <2>2. CASE x \in Elements(buf)
      BY <1>12, <1>14, <2>1, <2>2 DEF dropped
    <2>3. CASE x \in Elements(logged) /\ x \notin Elements(active)
      <3>1. reported[x] > 0 => reported'[x] > 0
        BY <1>14, <2>1 DEF Inv, TypeOK
      <3> QED BY <1>1, <1>12, <2>3, <3>1 DEF Inv, AccountedOnce, Accounted
    <2> QED BY <1>7, <2>2, <2>3
  <1> QED BY <1>12, <1>16, <1>17, <1>18, <1>19 DEF Inv, AccountedOnce

LEMMA TimerKeepsInv == ASSUME Inv, TimerFires PROVE Inv'
  <1>1. /\ timer /\ TriggerFlush(active, FALSE)
        /\ UNCHANGED <<destroyed, closing, aborted, logged, delivered, reported, forsaken>>
    BY DEF TimerFires, closes, history
  <1>2. /\ ~destroyed /\ active \in Batches /\ Len(active) + Len(flight) <= MaxRetained
        /\ Elements(active) \cap Elements(sending.batch) = {}
    BY <1>1 DEF Inv, OneSender, TypeOK, RetainedWithinCap, InOnePlace
  <1>3. /\ active' \in Batches /\ flight' \in Batches /\ timer' \in BOOLEAN /\ sending' \in Sends
        /\ OneSender' /\ RetainedWithinCap'
        /\ active' \in {active, << >>}
        /\ Elements(active') \union Elements(sending'.batch)
             = Elements(active) \union Elements(sending.batch)
        /\ Elements(active') \cap Elements(sending'.batch) = {}
    BY <1>1, <1>2, TriggerKeeps DEF Inv
  <1>4. TypeOK'
    BY <1>1, <1>3 DEF Inv, TypeOK, Sends
  <1>5. InOnePlace'
    <2>1. active \in Seq(Events) /\ logged \in Seq(Events) /\ Len(logged) \in Nat
      BY BatchIsSeq, LenProperties DEF Inv, TypeOK
    <2>2. SuffixOf(<< >>, logged)
      BY <2>1 DEF SuffixOf
    <2>3. SuffixOf(active', logged')
      BY <1>1, <1>3, <2>2 DEF Inv, InOnePlace
    <2>4. Elements(active) \subseteq Elements(logged)
      BY <2>1, ElementsOfSuffix DEF Inv, InOnePlace
    <2>5. Elements(sending'.batch) \subseteq Elements(logged) \ Elements(active')
      BY <1>3, <2>4 DEF Inv, InOnePlace
    <2> QED BY <1>1, <2>3, <2>5 DEF Inv, InOnePlace
  <1>6. AccountedOnce'
    BY <1>1, <1>3 DEF Inv, AccountedOnce, Accounted, DroppedOnce
  <1> QED BY <1>3, <1>4, <1>5, <1>6 DEF Inv

(* A batch that is sent came from the log and has left the buffer.         *)
LEMMA SettleKeeps ==
  ASSUME Inv, sending.at # "none", Settle, UNCHANGED logged
  PROVE  /\ active' \in Batches /\ flight' \in Batches /\ logged' \in Batches
         /\ timer' \in BOOLEAN /\ destroyed' \in BOOLEAN /\ aborted' \in BOOLEAN
         /\ sending' \in Sends /\ closing' \in {"no", "settling", "sending", "done"}
         /\ Elements(sending'.batch) = {} /\ active' = active
         /\ OneSender' /\ RetainedWithinCap'
         /\ \A i, j \in DOMAIN logged' : logged'[i] = logged'[j] => i = j
         /\ SuffixOf(active', logged')
         /\ Elements(sending'.batch) \subseteq Elements(logged') \ Elements(active')
  <1>1. /\ sending' = Idle /\ flight' = << >>
        /\ closing' = IF closing = "sending" THEN "done" ELSE closing
        /\ UNCHANGED <<active, timer, destroyed, aborted, logged>>
    BY DEF Settle
  <1>2. << >> \in Batches /\ Elements(<< >>) = {} /\ Len(<< >>) = 0
    BY EmptyBatch
  <1>3. sending' \in Sends /\ sending'.batch = << >> /\ sending'.at = "none"
    <2>1. 0 \in 0..MaxRetries
      BY BufferAssumption
    <2> QED BY <1>1, <1>2, <2>1 DEF Idle, Sends
  <1>4. Len(active) \in Nat /\ Len(flight) \in Nat
    BY BatchIsSeq, LenProperties DEF Inv, TypeOK
  <1>5. RetainedWithinCap'
    BY <1>1, <1>2, <1>4, BufferAssumption DEF Inv, RetainedWithinCap
  <1>6. OneSender'
    BY <1>1, <1>3 DEF Inv, OneSender, TypeOK
  <1>7. closing' \in {"no", "settling", "sending", "done"}
    BY <1>1 DEF Inv, TypeOK
  <1> QED BY <1>1, <1>2, <1>3, <1>5, <1>6, <1>7 DEF Inv, TypeOK, InOnePlace

LEMMA GiveUpKeepsInv ==
  ASSUME Inv, NEW why \in {"aborted", "rejected", "exhausted"},
         sending.at # "none", GiveUp(why)
  PROVE  Inv'
  <1> DEFINE lost == Elements(sending.batch)
  <1>1. /\ Settle /\ UNCHANGED <<logged, delivered>>
        /\ IF ~aborted THEN reported' = Report(lost, reported) /\ UNCHANGED forsaken
           ELSE forsaken' = forsaken \union (lost \X {why}) /\ UNCHANGED reported
    BY DEF GiveUp
  <1>2. UNCHANGED <<active, aborted>>
    BY <1>1 DEF Settle
  <1>3. lost \subseteq Events /\ lost \subseteq Elements(logged) \ Elements(active)
    BY BatchIsSeq, ElementsIn DEF Inv, TypeOK, InOnePlace
  <1>4. \A x \in Events : reported[x] \in 0..1 /\ (x \in lost => reported[x] = 0)
    BY DEF Inv, TypeOK, AccountedOnce, DroppedOnce
  <1>5. \A x \in Events : /\ ~aborted /\ x \in lost => reported'[x] = 1
                          /\ aborted \/ x \notin lost => reported'[x] = reported[x]
    BY <1>1, <1>4 DEF Report
  <1>6. reported' \in [Events -> 0..2]
    <2>1. reported' = [x \in Events |-> reported'[x]]
      BY <1>1 DEF Report, Inv, TypeOK
    <2>2. \A x \in Events : reported'[x] \in 0..2
      BY <1>4, <1>5
    <2> QED BY <2>1, <2>2
  <1>7. forsaken' \subseteq Events \X {"aborted", "rejected", "exhausted"}
    BY <1>1, <1>3 DEF Inv, TypeOK
  <1> HIDE DEF lost
  <1>8. /\ active' \in Batches /\ flight' \in Batches /\ logged' \in Batches
        /\ timer' \in BOOLEAN /\ destroyed' \in BOOLEAN /\ aborted' \in BOOLEAN
        /\ sending' \in Sends /\ closing' \in {"no", "settling", "sending", "done"}
        /\ Elements(sending'.batch) = {}
        /\ OneSender' /\ RetainedWithinCap'
        /\ \A i, j \in DOMAIN logged' : logged'[i] = logged'[j] => i = j
        /\ SuffixOf(active', logged')
        /\ Elements(sending'.batch) \subseteq Elements(logged') \ Elements(active')
    BY <1>1, SettleKeeps
  <1>9. TypeOK'
    BY <1>1, <1>6, <1>7, <1>8 DEF Inv, TypeOK, Sends
  <1>10. InOnePlace'
    <2>1. \A x \in Events : reported'[x] > 0 => x \in Elements(logged')
      BY <1>1, <1>3, <1>5 DEF Inv, InOnePlace
    <2> QED BY <1>8, <2>1 DEF InOnePlace
  <1>11. DroppedOnce'
    <2>1. \A x \in Events : reported'[x] <= 1
      BY <1>4, <1>5
    <2>2. \A x \in Events : reported'[x] = 1 => x \notin Elements(active)
      BY <1>3, <1>5 DEF Inv, AccountedOnce, DroppedOnce
    <2> QED BY <1>2, <1>8, <2>1, <2>2 DEF DroppedOnce
  <1>12. Accounted'
    <2> SUFFICES ASSUME NEW x \in Elements(logged)
                 PROVE  \/ x \in Elements(active) \union delivered
                        \/ reported'[x] > 0
                        \/ aborted /\ \E y \in {"aborted", "rejected", "exhausted"} :
                                          <<x, y>> \in forsaken'
      BY <1>1, <1>2, <1>8 DEF Accounted
    <2>1. x \in Events
      BY BatchIsSeq, ElementsIn DEF Inv, TypeOK
    <2>2. CASE x \in lost /\ ~aborted
      BY <1>5, <2>1, <2>2
    <2>3. CASE x \in lost /\ aborted
      <3>1. <<x, why>> \in forsaken'
        BY <1>1, <2>3
      <3> QED BY <2>3, <3>1
    <2>4. CASE x \notin lost
      <3>1. reported'[x] = reported[x] /\ forsaken \subseteq forsaken'
        BY <1>1, <1>5, <2>1, <2>4
      <3> QED BY <2>4, <3>1 DEF lost, Inv, AccountedOnce, Accounted
    <2> QED BY <2>2, <2>3, <2>4
  <1> QED BY <1>8, <1>9, <1>10, <1>11, <1>12 DEF Inv, AccountedOnce

LEMMA PostSucceedsKeepsInv == ASSUME Inv, PostSucceeds PROVE Inv'
  <1>1. /\ sending.at # "none" /\ Settle
        /\ delivered' = delivered \union Elements(sending.batch)
        /\ UNCHANGED <<logged, reported, forsaken>>
    BY DEF PostSucceeds
  <1>2. UNCHANGED <<active, aborted>>
    BY <1>1 DEF Settle
  <1>3. Elements(sending.batch) \subseteq Events
    BY BatchIsSeq, ElementsIn DEF Inv, TypeOK
  <1>4. /\ active' \in Batches /\ flight' \in Batches /\ logged' \in Batches
        /\ timer' \in BOOLEAN /\ destroyed' \in BOOLEAN /\ aborted' \in BOOLEAN
        /\ sending' \in Sends /\ closing' \in {"no", "settling", "sending", "done"}
        /\ Elements(sending'.batch) = {}
        /\ OneSender' /\ RetainedWithinCap'
        /\ \A i, j \in DOMAIN logged' : logged'[i] = logged'[j] => i = j
        /\ SuffixOf(active', logged')
        /\ Elements(sending'.batch) \subseteq Elements(logged') \ Elements(active')
    BY <1>1, SettleKeeps
  <1>5. TypeOK'
    BY <1>1, <1>3, <1>4 DEF Inv, TypeOK, Sends
  <1>6. InOnePlace'
    BY <1>1, <1>4 DEF Inv, InOnePlace
  <1>7. DroppedOnce'
    BY <1>1, <1>2, <1>4 DEF Inv, AccountedOnce, DroppedOnce
  <1>8. Accounted'
    BY <1>1, <1>2, <1>4 DEF Inv, AccountedOnce, Accounted
  <1> QED BY <1>4, <1>5, <1>6, <1>7, <1>8 DEF Inv, AccountedOnce

(* A send that stays under way, with its batch: a failed attempt, a sleep. *)
LEMMA RetryKeepsInv ==
  ASSUME Inv, PostFails(TRUE) \/ PostFails(FALSE) \/ BackoffEnds
  PROVE  Inv'
  <1>1. /\ sending.at # "none"
        /\ UNCHANGED <<active, timer, destroyed, flight, closing, aborted, logged, reported, forsaken>>
        /\ delivered \subseteq delivered'
        /\ delivered' \subseteq delivered \union Elements(sending.batch)
    BY DEF PostFails, BackoffEnds, buffer, closes, history
  <1>2. sending \in Sends
    BY DEF Inv, TypeOK, Sends
  <1>3. sending' \in Sends /\ sending'.batch = sending.batch /\ sending'.at # "none"
    <2>1. CASE PostFails(TRUE) \/ PostFails(FALSE)
      <3>1. sending' = [sending EXCEPT !.at = "waiting"]
        BY <2>1 DEF PostFails
      <3> QED BY <1>2, <3>1 DEF Sends
    <2>2. CASE BackoffEnds
      <3>1. sending.tries # MaxRetries
        BY <2>2 DEF BackoffEnds, Inv, OneSender
      <3>2. sending.tries + 1 \in 0..MaxRetries
        BY <1>2, <3>1, BufferAssumption DEF Sends
      <3>3. sending' = [sending EXCEPT !.at = "posting", !.tries = @ + 1]
        BY <2>2 DEF BackoffEnds
      <3> QED BY <1>2, <3>2, <3>3 DEF Sends
    <2> QED BY <2>1, <2>2
  <1>4. Elements(sending.batch) \subseteq Events
    BY BatchIsSeq, ElementsIn DEF Inv, TypeOK
  <1>5. OneSender'
    <2>1. sending'.at = "waiting" => sending'.tries # MaxRetries
      BY <1>1, <1>2 DEF PostFails, BackoffEnds, LastAttempt, Sends
    <2> QED BY <1>1, <1>3, <2>1 DEF Inv, OneSender
  <1>6. TypeOK'
    BY <1>1, <1>3, <1>4 DEF Inv, TypeOK, Sends
  <1>7. InOnePlace' /\ RetainedWithinCap'
    BY <1>1, <1>3 DEF Inv, InOnePlace, RetainedWithinCap
  <1>8. AccountedOnce'
    BY <1>1, <1>3 DEF Inv, AccountedOnce, Accounted, DroppedOnce
  <1> QED BY <1>5, <1>6, <1>7, <1>8 DEF Inv

-----------------------------------------------------------------------------
LEMMA CloseBeginsKeepsInv == ASSUME Inv, CloseBegins PROVE Inv'
  <1>1. /\ closing = "no" /\ closing' = "settling"
        /\ UNCHANGED <<active, timer, destroyed, flight, sending, aborted, logged, delivered,
                       reported, forsaken>>
    BY DEF CloseBegins, buffer, history
  <1> QED BY <1>1 DEF Inv, TypeOK, InOnePlace, OneSender, RetainedWithinCap, AccountedOnce,
                      Accounted, DroppedOnce

LEMMA CloseTimesOutKeepsInv == ASSUME Inv, CloseTimesOut PROVE Inv'
  <1>1. /\ aborted' = TRUE /\ destroyed' = TRUE /\ timer' = FALSE
        /\ UNCHANGED <<active, flight, sending, closing, logged, delivered, reported, forsaken>>
    BY DEF CloseTimesOut, history
  <1> QED BY <1>1 DEF Inv, TypeOK, InOnePlace, OneSender, RetainedWithinCap, AccountedOnce,
                      Accounted, DroppedOnce

LEMMA CloseDrainsKeepsInv == ASSUME Inv, CloseDrains PROVE Inv'
  <1>1. /\ closing = "settling" /\ flight = << >> /\ active' = << >> /\ destroyed' = TRUE
        /\ timer' = FALSE /\ UNCHANGED <<flight, aborted, logged, delivered, reported>>
    BY DEF CloseDrains
  <1>2. << >> \in Batches /\ Elements(<< >>) = {} /\ Len(<< >>) = 0
    BY EmptyBatch
  <1>3. sending.batch = << >> /\ sending.at = "none"
    BY <1>1 DEF Inv, TypeOK, OneSender
  <1>4. active \in Seq(Events) /\ logged \in Seq(Events) /\ Len(logged) \in Nat /\ Elements(active) \subseteq Events
    BY BatchIsSeq, LenProperties, ElementsIn DEF Inv, TypeOK
  <1>5. Elements(active) \subseteq Elements(logged)
    BY <1>4, ElementsOfSuffix DEF Inv, InOnePlace
  <1>6. SuffixOf(<< >>, logged) /\ RetainedWithinCap'
    BY <1>1, <1>2, <1>4, BufferAssumption DEF SuffixOf, RetainedWithinCap
  <1>7. CASE active # << >> /\ ~aborted
    <2>1. /\ sending' = [at |-> "posting", batch |-> active, tries |-> 0, heeds |-> TRUE]
          /\ closing' = "sending" /\ UNCHANGED forsaken
      BY <1>7 DEF CloseDrains
    <2>2. sending' \in Sends /\ sending'.batch = active /\ sending'.at = "posting"
      BY <2>1, BufferAssumption DEF Sends, Inv, TypeOK
    <2>3. TypeOK' /\ OneSender'
      BY <1>1, <1>2, <1>7, <2>1, <2>2 DEF Inv, TypeOK, Sends, OneSender
    <2>4. InOnePlace'
      BY <1>1, <1>2, <1>5, <1>6, <2>2 DEF Inv, InOnePlace
    <2>5. AccountedOnce'
      BY <1>1, <1>2, <1>3, <2>1, <2>2 DEF Inv, AccountedOnce, Accounted, DroppedOnce
    <2> QED BY <1>6, <2>3, <2>4, <2>5 DEF Inv
  <1>8. CASE active # << >> /\ aborted
    <2>1. /\ forsaken' = forsaken \union (Elements(active) \X {"aborted"})
          /\ closing' = "done" /\ UNCHANGED sending
      BY <1>8 DEF CloseDrains
    <2>2. TypeOK' /\ OneSender'
      BY <1>1, <1>2, <1>3, <1>4, <2>1 DEF Inv, TypeOK, OneSender
    <2>3. InOnePlace'
      BY <1>1, <1>2, <1>3, <1>6, <2>1 DEF Inv, InOnePlace
    <2>4. Accounted' /\ DroppedOnce'
      BY <1>1, <1>2, <1>3, <1>8, <2>1 DEF Inv, AccountedOnce, Accounted, DroppedOnce
    <2> QED BY <1>6, <2>2, <2>3, <2>4 DEF Inv, AccountedOnce
  <1>9. CASE active = << >>
    <2>1. closing' = "done" /\ UNCHANGED <<sending, forsaken>>
      BY <1>9 DEF CloseDrains
    <2>2. TypeOK' /\ OneSender'
      BY <1>1, <1>2, <1>3, <2>1 DEF Inv, TypeOK, OneSender
    <2>3. InOnePlace'
      BY <1>1, <1>9, <2>1 DEF Inv, InOnePlace
    <2>4. Accounted' /\ DroppedOnce'
      BY <1>1, <1>9, <2>1 DEF Inv, AccountedOnce, Accounted, DroppedOnce
    <2> QED BY <1>6, <2>2, <2>3, <2>4 DEF Inv, AccountedOnce
  <1> QED BY <1>7, <1>8, <1>9

LEMMA InvNext == Inv /\ [Next]_vars => Inv'
  <1> SUFFICES ASSUME Inv, [Next]_vars PROVE Inv'
    OBVIOUS
  <1>1. ASSUME NEW e \in Events, Push(e) PROVE Inv'
    BY <1>1, PushKeepsInv
  <1>2. CASE TimerFires
    BY <1>2, TimerKeepsInv
  <1>3. CASE PostSucceeds
    BY <1>3, PostSucceedsKeepsInv
  <1>4. CASE PostRejected
    <2>1. sending.at # "none" /\ GiveUp("rejected")
      BY <1>4 DEF PostRejected
    <2> QED BY <2>1, GiveUpKeepsInv
  <1>5. CASE PostExhausted
    <2>1. sending.at # "none" /\ GiveUp("exhausted")
      BY <1>5 DEF PostExhausted
    <2> QED BY <2>1, GiveUpKeepsInv
  <1>6. CASE SendAborted
    <2>1. sending.at # "none" /\ GiveUp("aborted")
      BY <1>6 DEF SendAborted
    <2> QED BY <2>1, GiveUpKeepsInv
  <1>7. ASSUME NEW taken \in BOOLEAN, PostFails(taken) PROVE Inv'
    <2>1. PostFails(TRUE) \/ PostFails(FALSE)
      BY <1>7
    <2> QED BY <2>1, RetryKeepsInv
  <1>8. CASE BackoffEnds
    BY <1>8, RetryKeepsInv
  <1>9. CASE CloseBegins
    BY <1>9, CloseBeginsKeepsInv
  <1>10. CASE CloseDrains
    BY <1>10, CloseDrainsKeepsInv
  <1>11. CASE CloseTimesOut
    BY <1>11, CloseTimesOutKeepsInv
  <1>12. CASE UNCHANGED vars
    BY <1>12 DEF vars, buffer, closes, history, Inv, TypeOK, InOnePlace, OneSender,
                 RetainedWithinCap, AccountedOnce, Accounted, DroppedOnce
  <1> QED BY <1>1, <1>2, <1>3, <1>4, <1>5, <1>6, <1>7, <1>8, <1>9, <1>10, <1>11, <1>12
          DEF Next, Sender

LEMMA Invariance == Spec => []Inv
  BY InvInit, InvNext, PTL DEF Spec

(* push() may evict while a flush is in flight, and a batch may fail after *)
(* its events' buffer filled again: active and in-flight events together   *)
(* stay within maxRetainedEvents, and those that wait are the newest.      *)
THEOREM KeepsTheNewest == Spec => []MemorySound
  <1>1. Inv => MemorySound
    <2> SUFFICES ASSUME Inv PROVE ActiveIsNewest
      BY DEF Inv, MemorySound
    <2>1. active \in Seq(Events) /\ logged \in Seq(Events)
      BY BatchIsSeq DEF Inv, TypeOK
    <2> QED BY <2>1, SuffixIsNewest DEF Inv, InOnePlace, ActiveIsNewest
  <1> QED BY <1>1, Invariance, PTL

(* No event the transport took disappears without a trace: it is buffered, *)
(* being sent, delivered or handed to handleDrop, once, and only a close   *)
(* that ran out of time forsakes a batch unreported.                       *)
THEOREM NothingUnreported == Spec => []AccountedOnce
  <1>1. Inv => AccountedOnce
    BY DEF Inv
  <1> QED BY <1>1, Invariance, PTL
=============================================================================
