--------------------------- MODULE ProviderProofs ---------------------------
(***************************************************************************)
(* Proofs about Provider, for every set of readings and paths, any number  *)
(* of restarts of bluetoothd and any length of the queues between the two. *)
(***************************************************************************)
EXTENDS Provider, SequenceTheorems, FiniteSetTheorems, TLAPS

USE ProviderAssumption

-----------------------------------------------------------------------------
(***************************************************************************)
(* The inductive invariant.                                                *)
(***************************************************************************)
\* Is x in the queue q, and is it there behind position i?
Has(q, x) == \E k \in 1..Len(q) : q[k] = x
Later(q, i, x) == \E k \in (i + 1)..Len(q) : q[k] = x

News == Has(fromBluez, "appeared") \/ Has(fromBluez, "vanished")

Registers == \E i \in 1..Len(toBluez) : toBluez[i].kind = "register"

\* Without bluetoothd there is nothing of it, and nobody shows a number to
\* whom no provider is known.
BluezInv ==
    /\ ~bluez.up => bluez = NoBluez /\ toBluez = <<>> /\ trouble = {}
    /\ ~bluez.client => bluez.shown = NoLevel

\* An "appeared" that is not the last news is followed by a "vanished".
NewsInv ==
    \A i \in 1..Len(fromBluez) :
        /\ fromBluez[i] = "appeared"
        /\ ~bluez.up \/ Later(fromBluez, i, "appeared")
        => Later(fromBluez, i, "vanished")

\* A provider that is registered with nobody, or will believe so, is going to
\* hear that bluetoothd vanished.
RegistrationInv ==
    ~bluez.client /\ "adapter" \notin trouble =>
        /\ registered => Has(fromBluez, "vanished")
        /\ \A i \in 1..Len(fromBluez) :
              fromBluez[i] = "registered" => Later(fromBluez, i, "vanished")

\* As long as bluetoothd's news have not been heard, nobody has registered with
\* it or is about to.
LifeQuiet == News => ~bluez.client /\ ~Registers

\* It answers nothing before they are.
LifeAnswers ==
    \A i \in 1..Len(fromBluez) : \A j \in (i + 1)..Len(fromBluez) :
        /\ fromBluez[i] = "appeared"
        /\ fromBluez[j] \in {"registered", "getObjects"}
        => Later(fromBluez, i, "vanished")

\* A call to register is the one call and the last message.
LifeCall ==
    \A i \in 1..Len(toBluez) :
        toBluez[i].kind = "register" =>
            /\ i = Len(toBluez)
            /\ ~registered /\ ~bluez.client
            /\ ~Has(fromBluez, "registered") /\ ~Has(fromBluez, "getObjects")

\* The life of one bluetoothd, whose news no registration has overtaken.
LifeInv == "overtaken" \notin trouble => LifeQuiet /\ LifeAnswers /\ LifeCall

\* device_ is the path this bluetoothd gave the device, or empty.
DeviceInv ==
    "overtaken" \notin trouble /\ ~Moved =>
        /\ ~Has(fromBluez, "vanished") =>
              (~bluez.up \/ Has(fromBluez, "appeared") => device = NoPath)
        /\ ~News => device \in {NoPath, bluez.dev}

\* What is announced now: every message carries what was announced when it was
\* sent.
Announced == IF exported THEN percentage ELSE NoLevel

\* bluetoothd shows v, or has missed it when the adapter or the device moved.
Shows(v) ==
    \/ bluez.shown = v
    \/ Moved /\ bluez.shown = NoLevel

\* m may follow an announcement of v.
Follows(v, m) ==
    /\ m.kind = "added" => v = NoLevel
    /\ m.kind = "changed" => v # NoLevel
    /\ m.kind = "objects" => v = m.pct

\* m may come next for what bluetoothd shows.
Fits(m) ==
    /\ m.kind = "added" => bluez.shown = NoLevel
    /\ m.kind = "changed" => bluez.shown # NoLevel \/ Moved
    /\ m.kind = "objects" => Shows(m.pct)

MessageOK(m) ==
    /\ m.kind \in {"added", "changed"} => m.pct # NoLevel
    /\ m.kind = "removed" => m.pct = NoLevel
    /\ m.pct # NoLevel => m.dev # NoPath
    /\ m.pct # NoLevel /\ ~Moved => m.dev = bluez.dev

\* From what bluetoothd shows, the messages on their way lead to what is
\* announced.
Chain ==
    /\ \A i \in 1..Len(toBluez) : MessageOK(toBluez[i])
    /\ \A i \in 1..(Len(toBluez) - 1) : Follows(toBluez[i].pct, toBluez[i + 1])
    /\ toBluez # <<>> => Fits(toBluez[1])
    /\ toBluez # <<>> => toBluez[Len(toBluez)].pct = Announced
    /\ toBluez = <<>> => Shows(Announced)

ChainInv == bluez.client /\ "overtaken" \notin trouble => Chain

\* As long as device_ is empty, nothing is shown or on its way to be: the device
\* may be removed without a trace.
Unknown ==
    /\ bluez.shown = NoLevel
    /\ \A i \in 1..Len(toBluez) : toBluez[i].pct = NoLevel

KnownInv ==
    bluez.client /\ "overtaken" \notin trouble /\ device = NoPath => Unknown

ObjectInv == OnlyLiveReadings /\ objectReg = exported

ProviderInv ==
    /\ ObjectInv
    /\ BluezInv
    /\ NewsInv
    /\ RegistrationInv
    /\ LifeInv
    /\ DeviceInv
    /\ KnownInv
    /\ ChainInv

-----------------------------------------------------------------------------
(***************************************************************************)
(* The operators of the model.                                             *)
(***************************************************************************)
\* The lower of two levels is one of them.
LEMMA MinOfPods ==
    ASSUME NEW S, S # {}, S \subseteq Nat, \E a, b : S = {a, b}
    PROVE  Min(S) \in S /\ \A y \in S : Min(S) <= y
<1>1. \E x \in S : \A y \in S : x <= y
  OBVIOUS
<1> QED BY <1>1, Zenon DEF Min

\* derive_percentage(): whenever a pod can be read, the lower one of them.
LEMMA DerivedIsLowerPod ==
    ASSUME NEW b \in Readings \cup {NoReading}
    PROVE  /\ DerivePercentage(b) = NoLevel <=> Readable(b, {"left", "right"}) = {}
           /\ DerivePercentage(b) # NoLevel =>
                 /\ b \in Readings
                 /\ IsLowerPod(DerivePercentage(b), b)
                 /\ DerivePercentage(b) \in Percentages
<1> DEFINE pods == Readable(b, {"left", "right"})
           levels == {b[c] : c \in pods}
<1>1. CASE pods = {}
  BY <1>1 DEF DerivePercentage
<1>2. CASE pods # {}
  <2>1. b # NoReading
    BY <1>2 DEF Readable, Components
  <2>2. b \in Readings /\ Components(b) = b
    BY <2>1 DEF Components
  <2>3. pods = {c \in {"left", "right"} \cap DOMAIN b : b[c] # NoLevel}
    BY <2>2 DEF Readable
  <2>4. levels # {} /\ levels \subseteq Nat
    BY <1>2, <2>2, <2>3
  <2>5. \E x, y : levels = {x, y}
    <3>1. CASE pods = {"left", "right"}
      <4>1. levels = {b["left"], b["right"]}
        BY <3>1
      <4> QED BY <4>1
    <3>2. CASE pods = {"left"}
      <4>1. levels = {b["left"], b["left"]}
        BY <3>2
      <4> QED BY <4>1
    <3>3. CASE pods = {"right"}
      <4>1. levels = {b["right"], b["right"]}
        BY <3>3
      <4> QED BY <4>1
    <3> QED BY <1>2, <2>3, <3>1, <3>2, <3>3
  <2>6. DerivePercentage(b) = Min(levels)
    BY <1>2 DEF DerivePercentage
  <2> HIDE DEF levels
  <2>7. /\ DerivePercentage(b) \in levels
        /\ \A y \in levels : DerivePercentage(b) <= y
    BY <2>4, <2>5, <2>6, MinOfPods
  <2>8. DerivePercentage(b) \in Nat
    BY <2>4, <2>7
  <2>9. DerivePercentage(b) # NoLevel
    BY <2>8
  <2>10. DerivePercentage(b) \in Percentages
    BY <2>2, <2>9 DEF Percentages
  <2>11. \E c \in {"left", "right"} \cap DOMAIN b : b[c] = DerivePercentage(b)
    BY <2>3, <2>7 DEF levels
  <2>12. \A c \in {"left", "right"} \cap DOMAIN b :
             b[c] # NoLevel => DerivePercentage(b) <= b[c]
    BY <2>3, <2>7 DEF levels
  <2>13. IsLowerPod(DerivePercentage(b), b)
    BY <2>2, <2>9, <2>11, <2>12 DEF IsLowerPod
  <2> QED BY <1>2, <2>2, <2>9, <2>10, <2>13
<1> QED BY <1>1, <1>2

\* The head leaves a queue.
LEMMA TailQueue ==
    ASSUME NEW S, NEW q \in Seq(S), q # <<>>
    PROVE  /\ Tail(q) \in Seq(S)
           /\ Len(q) \in Nat \ {0} /\ Len(Tail(q)) = Len(q) - 1
           /\ Head(q) = q[1] /\ Head(q) \in S
           /\ \A i \in 1..Len(Tail(q)) : Tail(q)[i] = q[i + 1]
           /\ \A x : Has(q, x) <=> Head(q) = x \/ Has(Tail(q), x)
           /\ \A x : Later(q, 1, x) <=> Has(Tail(q), x)
           /\ \A x : \A i \in 1..Len(Tail(q)) :
                 Later(q, i + 1, x) <=> Later(Tail(q), i, x)
<1>1. /\ Tail(q) \in Seq(S) /\ Head(q) \in S
      /\ Len(q) \in Nat \ {0} /\ Len(Tail(q)) = Len(q) - 1
      /\ \A i \in 1..Len(Tail(q)) : Tail(q)[i] = q[i + 1]
      /\ Head(q) = q[1]
  BY HeadTailProperties, EmptySeq
<1> DEFINE t == Tail(q)
           n == Len(q)
<1>2. n \in Nat \ {0} /\ Len(t) = n - 1 /\ \A i \in 1..(n - 1) : t[i] = q[i + 1]
  BY <1>1
<1> HIDE DEF t, n
<1>3. \A x : (\E k \in 1..n : q[k] = x) <=> q[1] = x \/ \E k \in 1..(n - 1) : t[k] = x
  <2>1. ASSUME NEW x, NEW k \in 1..n, q[k] = x
        PROVE  q[1] = x \/ \E j \in 1..(n - 1) : t[j] = x
    <3>1. CASE k = 1
      BY <2>1, <3>1
    <3>2. CASE k # 1
      <4>1. k - 1 \in 1..(n - 1) /\ t[k - 1] = q[k]
        BY <1>2, <3>2
      <4> QED BY <2>1, <4>1
    <3> QED BY <3>1, <3>2
  <2>2. ASSUME NEW x, q[1] = x \/ \E j \in 1..(n - 1) : t[j] = x
        PROVE  \E k \in 1..n : q[k] = x
    BY <1>2, <2>2
  <2> QED BY <2>1, <2>2
<1>4. \A x : \A i \in 0..(n - 1) :
          (\E k \in (i + 2)..n : q[k] = x) <=> \E k \in (i + 1)..(n - 1) : t[k] = x
  <2> SUFFICES ASSUME NEW x, NEW i \in 0..(n - 1)
               PROVE (\E k \in (i + 2)..n : q[k] = x) <=>
                        \E k \in (i + 1)..(n - 1) : t[k] = x
    OBVIOUS
  <2>1. ASSUME NEW k \in (i + 2)..n, q[k] = x
        PROVE  \E j \in (i + 1)..(n - 1) : t[j] = x
    <3>1. k - 1 \in (i + 1)..(n - 1) /\ t[k - 1] = q[k]
      BY <1>2
    <3> QED BY <2>1, <3>1
  <2>2. ASSUME NEW j \in (i + 1)..(n - 1), t[j] = x
        PROVE  \E k \in (i + 2)..n : q[k] = x
    <3>1. j + 1 \in (i + 2)..n /\ t[j] = q[j + 1]
      BY <1>2
    <3> QED BY <2>2, <3>1
  <2> QED BY <2>1, <2>2
<1>5. \A x : \A i \in 0..(n - 1) : Later(q, i + 1, x) <=> Later(t, i, x)
  <2> SUFFICES ASSUME NEW x, NEW i \in 0..(n - 1)
               PROVE  Later(q, i + 1, x) <=> Later(t, i, x)
    OBVIOUS
  <2>1. (i + 1) + 1 = i + 2
    OBVIOUS
  <2>2. Later(q, i + 1, x) <=> \E k \in (i + 2)..n : q[k] = x
    BY <2>1, Zenon DEF Later, n
  <2>3. Later(t, i, x) <=> \E k \in (i + 1)..(n - 1) : t[k] = x
    BY <1>2, Zenon DEF Later
  <2> QED BY <1>4, <2>2, <2>3
<1>6. \A x : Later(q, 1, x) <=> Has(t, x)
  <2>1. 0 \in 0..(n - 1) /\ 0 + 1 = 1
    BY <1>2
  <2>2. \A x : Later(q, 1, x) <=> Later(t, 0, x)
    BY <1>5, <2>1
  <2> QED BY <2>1, <2>2 DEF Later, Has
<1>7. \A x : Has(q, x) <=> Head(q) = x \/ Has(t, x)
  BY <1>1, <1>2, <1>3 DEF Has, n
<1>8. \A x : \A i \in 1..Len(t) : Later(q, i + 1, x) <=> Later(t, i, x)
  BY <1>2, <1>5
<1> QED BY <1>1, <1>6, <1>7, <1>8 DEF t

\* Messages join a queue.
LEMMA JoinQueue ==
    ASSUME NEW S, NEW q \in Seq(S), NEW s \in Seq(S)
    PROVE  /\ q \o s \in Seq(S)
           /\ Len(q) \in Nat /\ Len(s) \in Nat /\ Len(q \o s) = Len(q) + Len(s)
           /\ \A i \in 1..Len(q) : (q \o s)[i] = q[i]
           /\ \A i \in 1..Len(s) : (q \o s)[Len(q) + i] = s[i]
           /\ \A x : Has(q \o s, x) <=> Has(q, x) \/ Has(s, x)
           /\ \A x : \A i \in 1..Len(q) :
                 Later(q \o s, i, x) <=> Later(q, i, x) \/ Has(s, x)
<1> DEFINE r == q \o s
           m == Len(q)
           n == Len(s)
<1>1. r \in Seq(S) /\ m \in Nat /\ n \in Nat /\ Len(r) = m + n
  BY ConcatProperties, LenProperties
<1>2. /\ \A i \in 1..m : r[i] = q[i]
      /\ \A i \in 1..n : r[m + i] = s[i]
  BY <1>1, ConcatProperties
<1> HIDE DEF r, m, n
<1>3. \A x : \A i \in 0..m :
          (\E k \in (i + 1)..(m + n) : r[k] = x) <=>
              \/ \E k \in (i + 1)..m : q[k] = x
              \/ \E k \in 1..n : s[k] = x
  <2> SUFFICES ASSUME NEW x, NEW i \in 0..m
               PROVE  (\E k \in (i + 1)..(m + n) : r[k] = x) <=>
                        \/ \E k \in (i + 1)..m : q[k] = x
                        \/ \E k \in 1..n : s[k] = x
    OBVIOUS
  <2>1. ASSUME NEW k \in (i + 1)..(m + n), r[k] = x
        PROVE  \/ \E j \in (i + 1)..m : q[j] = x
               \/ \E j \in 1..n : s[j] = x
    <3>1. CASE k <= m
      BY <1>1, <1>2, <2>1, <3>1
    <3>2. CASE k > m
      <4>1. k - m \in 1..n /\ m + (k - m) = k
        BY <1>1, <3>2
      <4>2. s[k - m] = r[k]
        BY <1>2, <4>1
      <4> QED BY <2>1, <4>1, <4>2
    <3> QED BY <1>1, <3>1, <3>2
  <2>2. ASSUME NEW k \in (i + 1)..m, q[k] = x
        PROVE  \E j \in (i + 1)..(m + n) : r[j] = x
    <3>1. k \in (i + 1)..(m + n) /\ k \in 1..m
      BY <1>1
    <3>2. r[k] = q[k]
      BY <1>2, <3>1
    <3> QED BY <2>2, <3>1, <3>2
  <2>3. ASSUME NEW k \in 1..n, s[k] = x
        PROVE  \E j \in (i + 1)..(m + n) : r[j] = x
    <3>1. m + k \in (i + 1)..(m + n)
      BY <1>1
    <3>2. r[m + k] = s[k]
      BY <1>2
    <3> QED BY <2>3, <3>1, <3>2
  <2> QED BY <2>1, <2>2, <2>3
<1>4. \A x : \A i \in 0..m : Later(r, i, x) <=> Later(q, i, x) \/ Has(s, x)
  BY <1>1, <1>3 DEF Later, Has, m, n
<1>5. \A x : Has(r, x) <=> Has(q, x) \/ Has(s, x)
  <2>1. 0 \in 0..m /\ 0 + 1 = 1
    BY <1>1
  <2>2. \A x : Later(r, 0, x) <=> Later(q, 0, x) \/ Has(s, x)
    BY <1>4, <2>1
  <2> QED BY <2>1, <2>2 DEF Later, Has
<1>6. \A x : \A i \in 1..m : Later(r, i, x) <=> Later(q, i, x) \/ Has(s, x)
  BY <1>1, <1>4
<1> QED BY <1>1, <1>2, <1>5, <1>6 DEF r, m, n

\* One message joins a queue.
LEMMA AppendQueue ==
    ASSUME NEW S, NEW q \in Seq(S), NEW y \in S
    PROVE  /\ Append(q, y) \in Seq(S)
           /\ Len(q) \in Nat /\ Len(Append(q, y)) = Len(q) + 1
           /\ \A i \in 1..Len(q) : Append(q, y)[i] = q[i]
           /\ Append(q, y)[Len(q) + 1] = y
           /\ \A x : Has(Append(q, y), x) <=> Has(q, x) \/ y = x
           /\ \A x : \A i \in 1..Len(q) :
                 Later(Append(q, y), i, x) <=> Later(q, i, x) \/ y = x
<1>1. <<y>> \in Seq(S) /\ Len(<<y>>) = 1 /\ <<y>>[1] = y
  OBVIOUS
<1>2. Append(q, y) = q \o <<y>>
  BY AppendIsConcat
<1>3. \A x : Has(<<y>>, x) <=> y = x
  BY <1>1 DEF Has
<1> DEFINE s == <<y>>
<1>4. s \in Seq(S) /\ Len(s) = 1 /\ s[1] = y /\ 1 \in 1..Len(s)
  BY <1>1
<1> HIDE DEF s
<1>5. /\ Append(q, y) \in Seq(S)
      /\ Len(q) \in Nat /\ Len(Append(q, y)) = Len(q) + 1
      /\ \A i \in 1..Len(q) : Append(q, y)[i] = q[i]
      /\ Append(q, y)[Len(q) + 1] = y
  BY AppendProperties, LenProperties
<1>6. /\ \A x : Has(q \o s, x) <=> Has(q, x) \/ Has(s, x)
      /\ \A x : \A i \in 1..Len(q) :
            Later(q \o s, i, x) <=> Later(q, i, x) \/ Has(s, x)
  BY <1>4, JoinQueue
<1> QED BY <1>2, <1>3, <1>5, <1>6, Zenon DEF s

-----------------------------------------------------------------------------
(***************************************************************************)
(* Types.                                                                  *)
(***************************************************************************)
\* A message is sent within the types.
LEMMA SendType ==
    ASSUME TypeOK, NEW m \in ToBluez, Send(m)
    PROVE  toBluez' \in Seq(ToBluez)
BY DEF TypeOK, Send

\* The messages of publish() have the type of messages.
LEMMA MessageType ==
    ASSUME NEW d \in Paths \cup {NoPath}, NEW p \in Percentages \cup {NoLevel},
           NEW k \in {"register", "added", "changed", "removed", "objects"}
    PROVE  Msg(k, d, p) \in ToBluez
BY DEF Msg, ToBluez

\* What the feed may hold next.
LEMMA FeedType ==
    ASSUME TypeOK, FeedOpens \/ FeedCloses \/ FeedReports \/ FeedRepeats
    PROVE  feed' \in [open : BOOLEAN, battery : Readings \cup {NoReading}]
<1>1. /\ feed \in [open : BOOLEAN, battery : Readings \cup {NoReading}]
      /\ feed.battery \in Readings \cup {NoReading}
  BY DEF TypeOK
<1>2. \A b \in Readings \cup {NoReading}, o \in BOOLEAN :
          [open |-> o, battery |-> b]
              \in [open : BOOLEAN, battery : Readings \cup {NoReading}]
  OBVIOUS
<1>3. CASE FeedOpens
  BY <1>1, <1>2, <1>3 DEF FeedOpens
<1>4. CASE FeedCloses
  BY <1>1, <1>2, <1>4 DEF FeedCloses
<1>5. CASE FeedReports
  BY <1>1, <1>2, <1>5 DEF FeedReports
<1>6. CASE FeedRepeats
  BY <1>1, <1>6 DEF FeedRepeats
<1> QED BY <1>3, <1>4, <1>5, <1>6

\* The paths publish() works with.
LEMMA ResolvableType ==
    ASSUME TypeOK PROVE Resolvable \subseteq Paths \cup {NoPath}
BY DEF TypeOK, Resolvable

\* publish() by cases: it does nothing, it takes the object back, or it
\* announces the lower pod of what the feed holds.
LEMMA PublishCases ==
    ASSUME Publish
    PROVE  \/ ~registered /\ UNCHANGED <<providerVars, toBluez>>
           \/ /\ registered /\ registered' = registered
              /\ device' \in IF device = NoPath THEN Resolvable ELSE {device}
              /\ percentage' = percentage /\ source' = source
              /\ RemoveObject
              /\ \/ ~feed'.open
                 \/ DerivePercentage(feed'.battery) = NoLevel
                 \/ device' = NoPath
           \/ /\ registered /\ registered' = registered
              /\ device' \in IF device = NoPath THEN Resolvable ELSE {device}
              /\ device' # NoPath
              /\ feed'.open
              /\ DerivePercentage(feed'.battery) # NoLevel
              /\ percentage' = DerivePercentage(feed'.battery)
              /\ source' = DeriveSource(feed'.battery)
              /\ IF exported THEN EmitPropertiesChanged ELSE AddObject
BY DEF Publish

\* publish() keeps the types.
LEMMA PublishType ==
    ASSUME TypeOK, Publish,
           feed' \in [open : BOOLEAN, battery : Readings \cup {NoReading}]
    PROVE  /\ {registered', exported', objectReg'} \subseteq BOOLEAN
           /\ device' \in Paths \cup {NoPath}
           /\ percentage' \in Percentages
           /\ source' \in Readings \cup {<<>>}
           /\ toBluez' \in Seq(ToBluez)
<1>0. /\ registered \in BOOLEAN /\ exported \in BOOLEAN /\ objectReg \in BOOLEAN
      /\ device \in Paths \cup {NoPath} /\ percentage \in Percentages
      /\ source \in Readings \cup {<<>>} /\ toBluez \in Seq(ToBluez)
      /\ feed'.battery \in Readings \cup {NoReading}
  BY DEF TypeOK
<1>1. CASE ~registered /\ UNCHANGED <<providerVars, toBluez>>
  BY <1>0, <1>1 DEF providerVars, announced
<1>2. CASE /\ registered' = registered
           /\ device' \in IF device = NoPath THEN Resolvable ELSE {device}
           /\ percentage' = percentage /\ source' = source
           /\ RemoveObject
  <2>1. device' \in Paths \cup {NoPath}
    BY <1>0, <1>2, ResolvableType
  <2>2. exported' \in BOOLEAN /\ objectReg' \in BOOLEAN
    BY <1>0, <1>2 DEF RemoveObject
  <2>3. toBluez' \in Seq(ToBluez)
    <3>1. Msg("removed", NoPath, NoLevel) \in ToBluez
      BY MessageType
    <3> QED BY <1>0, <1>2, <3>1, SendType DEF RemoveObject
  <2> QED BY <1>0, <1>2, <2>1, <2>2, <2>3
<1>3. CASE /\ registered' = registered
           /\ device' \in IF device = NoPath THEN Resolvable ELSE {device}
           /\ DerivePercentage(feed'.battery) # NoLevel
           /\ percentage' = DerivePercentage(feed'.battery)
           /\ source' = DeriveSource(feed'.battery)
           /\ IF exported THEN EmitPropertiesChanged ELSE AddObject
  <2>1. device' \in Paths \cup {NoPath}
    BY <1>0, <1>3, ResolvableType
  <2>2. percentage' \in Percentages /\ source' \in Readings \cup {<<>>}
    BY <1>0, <1>3, DerivedIsLowerPod DEF DeriveSource, Components
  <2>3. exported' \in BOOLEAN /\ objectReg' \in BOOLEAN
    BY <1>0, <1>3 DEF EmitPropertiesChanged, AddObject
  <2>4. toBluez' \in Seq(ToBluez)
    <3>1. /\ Msg("added", device', percentage') \in ToBluez
          /\ Msg("changed", device', percentage') \in ToBluez
      BY <2>1, <2>2, MessageType
    <3> QED BY <1>0, <1>3, <3>1, SendType DEF EmitPropertiesChanged, AddObject
  <2> QED BY <1>0, <1>3, <2>1, <2>2, <2>3, <2>4
<1> QED BY <1>1, <1>2, <1>3, PublishCases

\* A dispatched message leaves the queue within its type.
LEMMA ReceiveType ==
    ASSUME TypeOK, NEW k, Receive(k)
    PROVE  /\ fromBluez' \in Seq(FromBluez)
           /\ UNCHANGED <<feed, fresh, bluez, events>>
BY HeadTailProperties DEF TypeOK, Receive, feedVars

\* A delivered message does.
LEMMA DeliveredType ==
    ASSUME TypeOK, NEW kinds, Delivered(kinds)
    PROVE  /\ toBluez' \in Seq(ToBluez)
           /\ Head(toBluez) \in ToBluez
           /\ UNCHANGED <<feed, fresh, registered, device, exported, objectReg,
                          percentage, source, events>>
BY HeadTailProperties
   DEF TypeOK, Delivered, feedVars, providerVars, announced

BluezType ==
    [up : BOOLEAN, mgr : BOOLEAN, dev : Paths \cup {NoPath},
     client : BOOLEAN, shown : Percentages \cup {NoLevel}]

\* What bluetoothd shows after a message is a percentage or nothing.
LEMMA ShownAfterType ==
    ASSUME bluez \in BluezType, NEW m \in ToBluez, m.kind # "register"
    PROVE  ShownAfter(m) \in Percentages \cup {NoLevel}
<1> DEFINE p == m.pct
<1>1. /\ m.kind \in {"added", "changed", "removed", "objects"}
      /\ m.pct \in Percentages \cup {NoLevel}
      /\ bluez.shown \in Percentages \cup {NoLevel}
  BY DEF ToBluez, BluezType
<1>2. CASE m.kind \in {"added", "objects"}
  BY <1>1, <1>2 DEF ShownAfter
<1>3. CASE m.kind = "changed"
  BY <1>1, <1>3 DEF ShownAfter
<1>4. CASE m.kind = "removed"
  BY <1>1, <1>4 DEF ShownAfter
<1> QED BY <1>1, <1>2, <1>3, <1>4

\* A bluetoothd that is gone, has started, or has changed in one thing.
LEMMA BluezTypes ==
    /\ NoBluez \in BluezType /\ [NoBluez EXCEPT !.up = TRUE] \in BluezType
    /\ NewBluez \subseteq BluezType
    /\ bluez \in BluezType =>
          /\ [bluez EXCEPT !.client = TRUE] \in BluezType
          /\ [bluez EXCEPT !.mgr = TRUE] \in BluezType
          /\ \A d \in Paths : [bluez EXCEPT !.dev = d] \in BluezType
          /\ [bluez EXCEPT !.dev = NoPath, !.shown = NoLevel] \in BluezType
          /\ \A v \in Percentages \cup {NoLevel} :
                [bluez EXCEPT !.shown = v] \in BluezType
BY DEF BluezType, NoBluez, NewBluez

\* Every step of the provider, its feed and bluetoothd keeps the types.
LEMMA TypeStep ==
    ASSUME TypeOK, [Next]_vars
    PROVE  TypeOK'
<1>0. /\ feed \in [open : BOOLEAN, battery : Readings \cup {NoReading}]
      /\ registered \in BOOLEAN /\ exported \in BOOLEAN /\ objectReg \in BOOLEAN
      /\ fresh \in BOOLEAN
      /\ device \in Paths \cup {NoPath} /\ percentage \in Percentages
      /\ source \in Readings \cup {<<>>}
      /\ bluez \in BluezType
      /\ toBluez \in Seq(ToBluez) /\ fromBluez \in Seq(FromBluez)
      /\ events \in 0..MaxEvents /\ trouble \subseteq Troubles
  BY DEF TypeOK, BluezType
<1>1. ASSUME /\ feed' \in [open : BOOLEAN, battery : Readings \cup {NoReading}]
             /\ registered' \in BOOLEAN /\ exported' \in BOOLEAN
             /\ objectReg' \in BOOLEAN /\ fresh' \in BOOLEAN
             /\ device' \in Paths \cup {NoPath} /\ percentage' \in Percentages
             /\ source' \in Readings \cup {<<>>}
             /\ bluez' \in BluezType
             /\ toBluez' \in Seq(ToBluez) /\ fromBluez' \in Seq(FromBluez)
             /\ events' \in 0..MaxEvents /\ trouble' \subseteq Troubles
      PROVE  TypeOK'
  BY <1>1 DEF TypeOK, BluezType
<1>2. ASSUME Fed PROVE TypeOK'
  <2>1. feed' \in [open : BOOLEAN, battery : Readings \cup {NoReading}]
    BY <1>2, FeedType DEF Fed, ChannelOpens, ChannelCloses, PodsReport, PumpRepeats
  <2>2. Publish /\ fresh' \in BOOLEAN /\ UNCHANGED <<bluez, fromBluez, events, trouble>>
    BY <1>0, <1>2
       DEF Fed, ChannelOpens, ChannelCloses, PodsReport, PumpRepeats, Published
  <2> QED BY <1>0, <1>1, <2>1, <2>2, PublishType
<1>3. ASSUME OnBluezAppeared PROVE TypeOK'
  <2>1. /\ fromBluez' \in Seq(FromBluez)
        /\ UNCHANGED <<feed, fresh, bluez, events>>
    BY <1>3, ReceiveType DEF OnBluezAppeared
  <2>2. /\ device' \in Paths \cup {NoPath} /\ toBluez' \in Seq(ToBluez)
        /\ trouble' \subseteq Troubles
    <3>1. CASE registered
      BY <1>0, <1>3, <3>1 DEF OnBluezAppeared
    <3>2. CASE ScanFails
      BY <1>0, <3>2 DEF ScanFails, Meets, Troubles
    <3>3. CASE ScanRegisters
      <4>1. Msg("register", NoPath, NoLevel) \in ToBluez
        BY MessageType
      <4>2. toBluez' \in Seq(ToBluez)
        BY <1>0, <3>3, <4>1, SendType DEF ScanRegisters
      <4>3. device' \in Paths \cup {NoPath}
        BY <1>0, <3>3 DEF ScanRegisters, BluezType
      <4>4. trouble' \subseteq Troubles
        BY <1>0, <3>3 DEF ScanRegisters, Meets, Troubles
      <4> QED BY <4>2, <4>3, <4>4
    <3> QED BY <1>3, <3>1, <3>2, <3>3 DEF OnBluezAppeared
  <2>3. UNCHANGED <<registered, exported, objectReg, percentage, source>>
    BY <1>3 DEF OnBluezAppeared, announced
  <2> QED BY <1>0, <1>1, <2>1, <2>2, <2>3
<1>4. ASSUME OnBluezVanished PROVE TypeOK'
  <2>1. /\ fromBluez' \in Seq(FromBluez)
        /\ UNCHANGED <<feed, fresh, bluez, events>>
    BY <1>4, ReceiveType DEF OnBluezVanished
  <2> QED BY <1>0, <1>1, <1>4, <2>1 DEF OnBluezVanished
<1>5. ASSUME OnRegisterDone PROVE TypeOK'
  <2>1. /\ fromBluez' \in Seq(FromBluez)
        /\ UNCHANGED <<feed, fresh, bluez, events>>
    BY <1>5, ReceiveType DEF OnRegisterDone
  <2>2. registered' \in BOOLEAN
    BY <1>0, <1>5 DEF OnRegisterDone
  <2> QED BY <1>0, <1>1, <1>5, <2>1, <2>2 DEF OnRegisterDone, announced
<1>6. ASSUME OmMethodCall PROVE TypeOK'
  <2>1. /\ fromBluez' \in Seq(FromBluez)
        /\ UNCHANGED <<feed, fresh, bluez, events>>
    BY <1>6, ReceiveType DEF OmMethodCall
  <2>2. Msg("objects", device, IF exported THEN percentage ELSE NoLevel) \in ToBluez
    BY <1>0, MessageType
  <2>3. toBluez' \in Seq(ToBluez)
    BY <1>0, <1>6, <2>2, SendType DEF OmMethodCall
  <2> QED BY <1>0, <1>1, <1>6, <2>1, <2>3 DEF OmMethodCall, providerVars, announced
<1>7. ASSUME BluezRegisters PROVE TypeOK'
  <2>1. /\ toBluez' \in Seq(ToBluez)
        /\ UNCHANGED <<feed, fresh, registered, device, exported, objectReg,
                       percentage, source, events>>
    BY <1>7, DeliveredType DEF BluezRegisters
  <2>2. /\ <<"registered", "getObjects">> \in Seq(FromBluez)
        /\ <<"refused", "getObjects">> \in Seq(FromBluez)
        /\ "refused" \in FromBluez
    BY DEF FromBluez
  <2>3. fromBluez' \in Seq(FromBluez)
    <3>1. \/ fromBluez' = fromBluez \o <<"registered", "getObjects">>
          \/ fromBluez' = fromBluez \o <<"refused", "getObjects">>
          \/ fromBluez' = Append(fromBluez, "refused")
      BY <1>7 DEF BluezRegisters
    <3>2. \A q \in Seq(FromBluez) : fromBluez \o q \in Seq(FromBluez)
      BY <1>0, ConcatProperties
    <3>3. Append(fromBluez, "refused") \in Seq(FromBluez)
      BY <1>0, <2>2, AppendProperties
    <3> QED BY <2>2, <3>1, <3>2, <3>3, Zenon
  <2>4. trouble' \subseteq Troubles
    BY <1>0, <1>7 DEF BluezRegisters, Meets, Troubles
  <2>5. bluez' \in BluezType
    BY <1>0, <1>7, BluezTypes DEF BluezRegisters
  <2> QED BY <1>0, <1>1, <2>1, <2>3, <2>4, <2>5
<1>8. ASSUME BluezLearns PROVE TypeOK'
  <2>1. /\ toBluez' \in Seq(ToBluez) /\ Head(toBluez) \in ToBluez
        /\ Head(toBluez).kind # "register"
        /\ UNCHANGED <<feed, fresh, registered, device, exported, objectReg,
                       percentage, source, events>>
    BY <1>8, DeliveredType DEF BluezLearns, Delivered
  <2>2. ShownAfter(Head(toBluez)) \in Percentages \cup {NoLevel}
    BY <1>0, <2>1, ShownAfterType
  <2>3. bluez' \in BluezType
    BY <1>0, <1>8, <2>2, BluezTypes DEF BluezLearns
  <2> QED BY <1>0, <1>1, <1>8, <2>1, <2>3 DEF BluezLearns
<1>9. ASSUME Happens, bluez' \in BluezType, toBluez' \in Seq(ToBluez),
             fromBluez' \in Seq(FromBluez), trouble' \subseteq Troubles
      PROVE  TypeOK'
  <2>1. /\ events' \in 0..MaxEvents
        /\ UNCHANGED <<feed, fresh, registered, device, exported, objectReg,
                       percentage, source>>
    BY <1>0, <1>9 DEF Happens, feedVars, providerVars, announced
  <2> QED BY <1>0, <1>1, <1>9, <2>1
<1>10. ASSUME BluezStops PROVE TypeOK'
  <2> DEFINE calls == {i \in DOMAIN toBluez : toBluez[i].kind = "register"}
             refusals == [i \in 1..Cardinality(calls) |-> "refused"]
  <2>1. Cardinality(calls) \in Nat
    <3>1. DOMAIN toBluez = 1..Len(toBluez) /\ Len(toBluez) \in Nat
      BY <1>0, LenProperties
    <3>2. IsFiniteSet(DOMAIN toBluez)
      BY <3>1, FS_Interval
    <3>3. IsFiniteSet(calls)
      BY <3>2, FS_Subset
    <3> QED BY <3>3, FS_CardinalityType
  <2>2. refusals \in Seq(FromBluez)
    BY <2>1 DEF FromBluez
  <2>3. <<"vanished">> \in Seq(FromBluez)
    BY DEF FromBluez
  <2>4. fromBluez' = fromBluez \o refusals \o <<"vanished">>
    BY <1>10 DEF BluezStops
  <2> HIDE DEF refusals
  <2>5. fromBluez' \in Seq(FromBluez)
    BY <1>0, <2>2, <2>3, <2>4, ConcatProperties
  <2>6. toBluez' \in Seq(ToBluez) /\ trouble' \subseteq Troubles
    BY <1>10 DEF BluezStops
  <2>7. bluez' \in BluezType /\ Happens
    BY <1>10, BluezTypes DEF BluezStops
  <2> QED BY <1>9, <2>5, <2>6, <2>7
<1>11. ASSUME BluezStarts PROVE TypeOK'
  <2>1. fromBluez' \in Seq(FromBluez)
    BY <1>0, <1>11, AppendProperties DEF BluezStarts, FromBluez
  <2> QED BY <1>0, <1>9, <1>11, <2>1, BluezTypes DEF BluezStarts
<1>12. ASSUME DevicePaired \/ DeviceRemoved \/ AdapterLeaves \/ AdapterArrives
       PROVE  TypeOK'
  <2>1. trouble' \subseteq Troubles
    BY <1>0, <1>12
       DEF DevicePaired, DeviceRemoved, AdapterLeaves, AdapterArrives, Meets, Troubles
  <2>2. bluez' \in BluezType
    BY <1>0, <1>12, BluezTypes
       DEF DevicePaired, DeviceRemoved, AdapterLeaves, AdapterArrives
  <2> QED BY <1>0, <1>9, <1>12, <2>1, <2>2
          DEF DevicePaired, DeviceRemoved, AdapterLeaves, AdapterArrives
<1>13. CASE UNCHANGED vars
  BY <1>0, <1>1, <1>13 DEF vars, feedVars, providerVars, announced, busVars
<1> QED
  BY <1>2, <1>3, <1>4, <1>5, <1>6, <1>7, <1>8, <1>10, <1>11, <1>12, <1>13
     DEF Next, Dispatched, Environment, BluezServes

\* BatteryProvider and its bus are well typed, through every restart.
THEOREM ProviderTypeCorrect == Spec => []TypeOK
<1>1. Init => TypeOK
  <2> SUFFICES ASSUME Init PROVE TypeOK
    OBVIOUS
  <2>1. feed \in [open : BOOLEAN, battery : Readings \cup {NoReading}]
    BY DEF Init, FeedInit, NoState
  <2>2. percentage \in Percentages
    BY DEF Init, Percentages
  <2>3. bluez \in BluezType
    BY BluezTypes DEF Init
  <2>4. fromBluez \in Seq(FromBluez)
    BY DEF Init, FromBluez
  <2>5. toBluez \in Seq(ToBluez) /\ source \in Readings \cup {<<>>}
    BY DEF Init
  <2>6. events \in 0..MaxEvents
    BY DEF Init
  <2> QED BY <2>1, <2>2, <2>3, <2>4, <2>5, <2>6 DEF Init, TypeOK, BluezType
<1> QED BY <1>1, TypeStep, PTL DEF Spec

-----------------------------------------------------------------------------
(***************************************************************************)
(* What is announced.                                                      *)
(***************************************************************************)
\* After publish() of a registered provider the object is there exactly when
\* there is something to announce, and then it is the lower pod.
LEMMA PublishObject ==
    ASSUME TypeOK, ObjectInv, Publish, registered,
           feed' \in [open : BOOLEAN, battery : Readings \cup {NoReading}]
    PROVE  /\ registered' /\ objectReg' = exported'
           /\ device # NoPath => device' = device
           /\ exported' <=> /\ feed'.open /\ device' # NoPath
                            /\ Readable(feed'.battery, {"left", "right"}) # {}
           /\ exported' => IsLowerPod(percentage', feed'.battery)
<1>1. objectReg = exported /\ exported \in BOOLEAN
      /\ feed'.battery \in Readings \cup {NoReading}
  BY DEF TypeOK, ObjectInv
<1>2. /\ DerivePercentage(feed'.battery) = NoLevel <=>
             Readable(feed'.battery, {"left", "right"}) = {}
      /\ DerivePercentage(feed'.battery) # NoLevel =>
             IsLowerPod(DerivePercentage(feed'.battery), feed'.battery)
  BY <1>1, DerivedIsLowerPod
<1>3. CASE /\ registered' = registered
           /\ device' \in IF device = NoPath THEN Resolvable ELSE {device}
           /\ RemoveObject
           /\ \/ ~feed'.open
              \/ DerivePercentage(feed'.battery) = NoLevel
              \/ device' = NoPath
  <2>1. exported' = FALSE /\ objectReg' = FALSE
    BY <1>1, <1>3 DEF RemoveObject
  <2> QED BY <1>2, <1>3, <2>1
<1>4. CASE /\ registered' = registered
           /\ device' \in IF device = NoPath THEN Resolvable ELSE {device}
           /\ device' # NoPath
           /\ feed'.open
           /\ DerivePercentage(feed'.battery) # NoLevel
           /\ percentage' = DerivePercentage(feed'.battery)
           /\ IF exported THEN EmitPropertiesChanged ELSE AddObject
  <2>1. exported' = TRUE /\ objectReg' = TRUE
    BY <1>1, <1>4 DEF EmitPropertiesChanged, AddObject
  <2> QED BY <1>2, <1>4, <2>1
<1> QED BY <1>3, <1>4, PublishCases

\* The pump's steps publish, and nothing else than the pump's steps does.
LEMMA FedPublishes ==
    ASSUME TypeOK, Fed
    PROVE  /\ Publish
           /\ feed' \in [open : BOOLEAN, battery : Readings \cup {NoReading}]
           /\ UNCHANGED <<bluez, fromBluez, events, trouble>>
BY FeedType
   DEF Fed, ChannelOpens, ChannelCloses, PodsReport, PumpRepeats, Published

\* The object is bus object and announcement at once, and live.
LEMMA ObjectStep ==
    ASSUME TypeOK, ObjectInv, [Next]_vars
    PROVE  ObjectInv'
<1>0. exported => registered /\ device # NoPath /\ feed.open
                  /\ IsLowerPod(percentage, feed.battery)
  BY DEF ObjectInv, OnlyLiveReadings
<1>1. CASE Fed
  <2>1. CASE registered
    BY <1>1, <2>1, FedPublishes, PublishObject DEF ObjectInv, OnlyLiveReadings
  <2>2. CASE ~registered
    <3>1. exported' = exported /\ objectReg' = objectReg
      BY <1>1, <2>2, FedPublishes DEF Publish, providerVars, announced
    <3> QED BY <1>0, <2>2, <3>1 DEF ObjectInv, OnlyLiveReadings, TypeOK
  <2> QED BY <2>1, <2>2
<1>2. CASE OnBluezAppeared
  <2>1. UNCHANGED <<registered, exported, objectReg, percentage, source, feed>>
    BY <1>2 DEF OnBluezAppeared, Receive, announced, feedVars
  <2>2. registered => device' = device
    BY <1>2 DEF OnBluezAppeared
  <2> QED BY <1>0, <2>1, <2>2 DEF ObjectInv, OnlyLiveReadings, IsLowerPod
<1>3. CASE OnBluezVanished
  BY <1>3 DEF OnBluezVanished, ObjectInv, OnlyLiveReadings
<1>4. CASE OnRegisterDone
  <2>1. UNCHANGED <<device, exported, objectReg, percentage, source, feed>>
    BY <1>4 DEF OnRegisterDone, Receive, announced, feedVars
  <2>2. registered => registered'
    BY <1>4 DEF OnRegisterDone
  <2> QED BY <1>0, <2>1, <2>2 DEF ObjectInv, OnlyLiveReadings, IsLowerPod
<1>5. CASE UNCHANGED <<registered, device, exported, objectReg, percentage, feed>>
  BY <1>0, <1>5 DEF ObjectInv, OnlyLiveReadings, IsLowerPod
<1>6. CASE OmMethodCall \/ Environment \/ UNCHANGED vars
  <2>1. UNCHANGED <<registered, device, exported, objectReg, percentage, feed>>
    BY <1>6 DEF OmMethodCall, Receive, Environment, BluezServes, BluezRegisters,
         BluezLearns, Delivered, BluezStops, BluezStarts, DevicePaired,
         DeviceRemoved, AdapterLeaves, AdapterArrives, Happens, providerVars, announced,
         feedVars, vars
  <2> QED BY <1>5, <2>1
<1> QED BY <1>1, <1>2, <1>3, <1>4, <1>6 DEF Next, Dispatched

\* battery_provider.cpp: what bluetoothd is told is derived from the cached
\* report of an open channel, for a device that is known, whatever the
\* registration has been through.
THEOREM LiveCorrect == Spec => []OnlyLiveReadings
<1>1. Init => ObjectInv
  BY DEF Init, ObjectInv, OnlyLiveReadings
<1>2. ObjectInv => OnlyLiveReadings
  BY DEF ObjectInv
<1> QED BY <1>1, <1>2, ObjectStep, ProviderTypeCorrect, PTL DEF Spec

\* publish(): a new reading of a registered provider is announced by the step
\* that brings it, the object that a restart of bluetoothd left included.
THEOREM AnnouncedCorrect == Spec => ReportsAreAnnounced
<1>1. Init => ObjectInv
  BY DEF Init, ObjectInv, OnlyLiveReadings
<1> DEFINE A == registered /\ device # NoPath /\ feed' # feed /\ feed'.open
                    /\ Readable(feed'.battery, {"left", "right"}) # {}
                 => exported' /\ IsLowerPod(percentage', feed'.battery)
<1>2. TypeOK /\ ObjectInv /\ [Next]_vars => [A]_vars
  <2> SUFFICES ASSUME TypeOK, ObjectInv, [Next]_vars, registered, device # NoPath,
                      feed' # feed, feed'.open,
                      Readable(feed'.battery, {"left", "right"}) # {}
               PROVE  exported' /\ IsLowerPod(percentage', feed'.battery)
    OBVIOUS
  <2>1. Fed
    BY DEF Next, Dispatched, OnBluezAppeared, OnBluezVanished, OnRegisterDone,
       OmMethodCall, Receive, Environment, BluezServes, BluezRegisters,
       BluezLearns, Delivered, BluezStops, BluezStarts, DevicePaired,
       DeviceRemoved, AdapterLeaves, AdapterArrives, Happens, feedVars, vars
  <2> QED BY <2>1, FedPublishes, PublishObject
<1> QED
  BY <1>1, <1>2, ObjectStep, ProviderTypeCorrect, PTL DEF Spec, ReportsAreAnnounced

-----------------------------------------------------------------------------
(***************************************************************************)
(* The registration.                                                       *)
(***************************************************************************)
\* What publish() sends to a bluetoothd that is up, by cases.
LEMMA PublishSends ==
    ASSUME TypeOK, ObjectInv, Publish,
           feed' \in [open : BOOLEAN, battery : Readings \cup {NoReading}]
    PROVE  /\ registered' = registered
           /\ device' \in {device, bluez.dev, NoPath}
           /\ device # NoPath \/ ~registered => device' = device
           /\ \/ toBluez' = toBluez /\ Announced' = Announced
              \/ /\ registered
                 /\ exported /\ ~exported'
                 /\ Send(Msg("removed", NoPath, NoLevel))
              \/ /\ registered /\ device' # NoPath
                 /\ exported /\ exported'
                 /\ Send(Msg("changed", device', percentage'))
              \/ /\ registered /\ device' # NoPath
                 /\ ~exported /\ exported'
                 /\ Send(Msg("added", device', percentage'))
<1>1. objectReg = exported /\ exported \in BOOLEAN /\ (exported => registered)
  BY DEF TypeOK, ObjectInv, OnlyLiveReadings
<1>2. CASE ~registered /\ UNCHANGED <<providerVars, toBluez>>
  BY <1>2 DEF providerVars, announced, Announced
<1>3. ASSUME device' \in IF device = NoPath THEN Resolvable ELSE {device}
      PROVE  /\ device' \in {device, bluez.dev, NoPath}
             /\ device # NoPath => device' = device
  BY <1>3 DEF Resolvable
<1>4. CASE /\ registered /\ registered' = registered
           /\ device' \in IF device = NoPath THEN Resolvable ELSE {device}
           /\ percentage' = percentage /\ RemoveObject
  <2>1. CASE exported
    BY <1>3, <1>4, <2>1 DEF RemoveObject
  <2>2. CASE ~exported
    BY <1>1, <1>3, <1>4, <2>2 DEF RemoveObject, Announced
  <2> QED BY <2>1, <2>2
<1>5. CASE /\ registered /\ registered' = registered
           /\ device' \in IF device = NoPath THEN Resolvable ELSE {device}
           /\ device' # NoPath
           /\ IF exported THEN EmitPropertiesChanged ELSE AddObject
  <2>1. CASE exported
    <3>1. exported' = exported
      BY <1>5, <2>1 DEF EmitPropertiesChanged
    <3>2. CASE percentage' # percentage \/ source' # source
      BY <1>3, <1>5, <2>1, <3>1, <3>2 DEF EmitPropertiesChanged
    <3>3. CASE ~(percentage' # percentage \/ source' # source)
      <4>1. toBluez' = toBluez
        BY <1>5, <2>1, <3>3 DEF EmitPropertiesChanged
      <4> QED BY <1>3, <1>5, <3>1, <3>3, <4>1 DEF Announced
    <3> QED BY <3>2, <3>3
  <2>2. CASE ~exported
    BY <1>1, <1>3, <1>5, <2>2 DEF AddObject
  <2> QED BY <2>1, <2>2
<1> QED BY <1>2, <1>4, <1>5, PublishCases

\* The queues and the record of bluetoothd, as the proofs below use them.
LEMMA BusTypes ==
    ASSUME TypeOK
    PROVE  /\ toBluez \in Seq(ToBluez) /\ fromBluez \in Seq(FromBluez)
           /\ Len(toBluez) \in Nat /\ Len(fromBluez) \in Nat
           /\ bluez \in BluezType
           /\ bluez.up \in BOOLEAN /\ bluez.client \in BOOLEAN
BY LenProperties DEF TypeOK, BluezType

\* What each step does to bluetoothd and the faults met.
LEMMA BluezStep ==
    ASSUME TypeOK, ObjectInv, BluezInv, [Next]_vars
    PROVE  BluezInv'
<1>0. /\ bluez \in BluezType
      /\ ~bluez.up => bluez = NoBluez /\ toBluez = <<>> /\ trouble = {}
      /\ ~bluez.client => bluez.shown = NoLevel
  BY BusTypes DEF BluezInv
<1>1. ASSUME bluez' = bluez, ~bluez.up => toBluez' = toBluez /\ trouble' = trouble
      PROVE  BluezInv'
  BY <1>0, <1>1 DEF BluezInv, NoBluez
<1>2. CASE Fed
  <2>1. ~bluez.up => toBluez' = toBluez
    BY <1>2, FedPublishes, PublishSends DEF Send
  <2> QED BY <1>1, <1>2, <2>1, FedPublishes
<1>3. CASE Dispatched
  <2>1. bluez' = bluez
    BY <1>3 DEF Dispatched, OnBluezAppeared, OnBluezVanished, OnRegisterDone,
       OmMethodCall, Receive
  <2>2. ~bluez.up => toBluez' = toBluez /\ trouble' = trouble
    BY <1>3 DEF Dispatched, OnBluezAppeared, ScanFails, ScanRegisters,
       OnBluezVanished, OnRegisterDone, OmMethodCall, Send
  <2> QED BY <1>1, <2>1, <2>2
<1>4. CASE BluezServes
  <2>1. toBluez # <<>>
    BY <1>4 DEF BluezServes, BluezRegisters, BluezLearns, Delivered
  <2>2. bluez.up
    BY <1>0, <2>1
  <2>3. bluez'.up /\ (~bluez'.client => bluez'.shown = NoLevel)
    BY <1>0, <1>4, <2>2 DEF BluezServes, BluezRegisters, BluezLearns, BluezType
  <2> QED BY <2>3 DEF BluezInv
<1>5. CASE BluezStops
  BY <1>5 DEF BluezStops, BluezInv, NoBluez
<1>6. CASE BluezStarts
  BY <1>6 DEF BluezStarts, BluezInv, NewBluez
<1>7. CASE DevicePaired \/ DeviceRemoved \/ AdapterLeaves \/ AdapterArrives
  <2>1. bluez'.up /\ (~bluez'.client => bluez'.shown = NoLevel)
    BY <1>0, <1>7 DEF DevicePaired, DeviceRemoved, AdapterLeaves, AdapterArrives,
       BluezType, NoBluez
  <2> QED BY <2>1 DEF BluezInv
<1>8. CASE UNCHANGED vars
  BY <1>1, <1>8 DEF vars, busVars
<1> QED BY <1>2, <1>3, <1>4, <1>5, <1>6, <1>7, <1>8 DEF Next, Environment

\* A dispatched message was the head of the queue.
LEMMA Dispatch ==
    ASSUME TypeOK, NEW k, Receive(k)
    PROVE  /\ fromBluez # <<>> /\ fromBluez[1] = k /\ fromBluez' = Tail(fromBluez)
           /\ Len(fromBluez) \in Nat \ {0} /\ Len(fromBluez') = Len(fromBluez) - 1
           /\ \A i \in 1..Len(fromBluez') : fromBluez'[i] = fromBluez[i + 1]
           /\ \A x : Has(fromBluez, x) <=> k = x \/ Has(fromBluez', x)
           /\ \A x : Later(fromBluez, 1, x) <=> Has(fromBluez', x)
           /\ \A x : \A i \in 1..Len(fromBluez') :
                 Later(fromBluez, i + 1, x) <=> Later(fromBluez', i, x)
           /\ bluez' = bluez
<1>1. fromBluez # <<>> /\ Head(fromBluez) = k /\ fromBluez' = Tail(fromBluez)
      /\ bluez' = bluez
  BY DEF Receive
<1> DEFINE t == Tail(fromBluez)
<1>2. /\ Len(fromBluez) \in Nat \ {0} /\ Len(t) = Len(fromBluez) - 1
      /\ Head(fromBluez) = fromBluez[1]
      /\ \A i \in 1..Len(t) : t[i] = fromBluez[i + 1]
      /\ \A x : Has(fromBluez, x) <=> Head(fromBluez) = x \/ Has(t, x)
      /\ \A x : Later(fromBluez, 1, x) <=> Has(t, x)
      /\ \A x : \A i \in 1..Len(t) :
            Later(fromBluez, i + 1, x) <=> Later(t, i, x)
  BY <1>1, BusTypes, TailQueue, Zenon
<1> HIDE DEF t
<1>3. fromBluez' = t
  BY <1>1 DEF t
<1> QED BY <1>1, <1>2, <1>3

\* bluetoothd or the bus sends.
LEMMA Joined ==
    ASSUME TypeOK, NEW s \in Seq(FromBluez), fromBluez' = fromBluez \o s
    PROVE  /\ Len(fromBluez) \in Nat /\ Len(s) \in Nat
           /\ Len(fromBluez') = Len(fromBluez) + Len(s)
           /\ \A i \in 1..Len(fromBluez) : fromBluez'[i] = fromBluez[i]
           /\ \A i \in 1..Len(s) : fromBluez'[Len(fromBluez) + i] = s[i]
           /\ \A x : Has(fromBluez', x) <=> Has(fromBluez, x) \/ Has(s, x)
           /\ \A x : \A i \in 1..Len(fromBluez) :
                 Later(fromBluez', i, x) <=> Later(fromBluez, i, x) \/ Has(s, x)
           /\ \A x : \A i \in 1..Len(fromBluez') :
                 fromBluez'[i] = x =>
                     \/ i \in 1..Len(fromBluez) /\ fromBluez[i] = x
                     \/ i > Len(fromBluez) /\ Has(s, x)
<1> DEFINE r == fromBluez \o s
<1>1. /\ Len(fromBluez) \in Nat /\ Len(s) \in Nat
      /\ Len(r) = Len(fromBluez) + Len(s)
      /\ \A i \in 1..Len(fromBluez) : r[i] = fromBluez[i]
      /\ \A i \in 1..Len(s) : r[Len(fromBluez) + i] = s[i]
      /\ \A x : Has(r, x) <=> Has(fromBluez, x) \/ Has(s, x)
      /\ \A x : \A i \in 1..Len(fromBluez) :
            Later(r, i, x) <=> Later(fromBluez, i, x) \/ Has(s, x)
  <2>1. fromBluez \in Seq(FromBluez)
    BY BusTypes
  <2>2. /\ Len(fromBluez) \in Nat /\ Len(s) \in Nat
        /\ Len(r) = Len(fromBluez) + Len(s)
        /\ \A i \in 1..Len(fromBluez) : r[i] = fromBluez[i]
        /\ \A i \in 1..Len(s) : r[Len(fromBluez) + i] = s[i]
    BY <2>1, ConcatProperties, LenProperties
  <2>3. /\ \A x : Has(r, x) <=> Has(fromBluez, x) \/ Has(s, x)
        /\ \A x : \A i \in 1..Len(fromBluez) :
              Later(r, i, x) <=> Later(fromBluez, i, x) \/ Has(s, x)
    BY <2>1, JoinQueue
  <2> QED BY <2>2, <2>3
<1> HIDE DEF r
<1>2. fromBluez' = r
  BY DEF r
<1>3. ASSUME NEW x, NEW i \in 1..Len(r), r[i] = x
      PROVE  \/ i \in 1..Len(fromBluez) /\ fromBluez[i] = x
             \/ i > Len(fromBluez) /\ Has(s, x)
  <2>1. CASE i <= Len(fromBluez)
    BY <1>1, <1>3, <2>1
  <2>2. CASE i > Len(fromBluez)
    <3>1. /\ i - Len(fromBluez) \in 1..Len(s)
          /\ Len(fromBluez) + (i - Len(fromBluez)) = i
      BY <1>1, <2>2
    <3>2. s[i - Len(fromBluez)] = x
      BY <1>1, <1>3, <3>1
    <3> QED BY <2>2, <3>1, <3>2 DEF Has
  <2> QED BY <1>1, <2>1, <2>2
<1> QED BY <1>1, <1>2, <1>3, Zenon

\* Whatever was on its way when bluetoothd stopped is followed by the news.
LEMMA StopFollows ==
    ASSUME TypeOK, BluezStops
    PROVE  /\ Has(fromBluez', "vanished")
           /\ \A i \in 1..Len(fromBluez') :
                 fromBluez'[i] \notin {"refused", "vanished"} =>
                     Later(fromBluez', i, "vanished")
<1> DEFINE calls == {i \in DOMAIN toBluez : toBluez[i].kind = "register"}
           n == Cardinality(calls)
           refusals == [i \in 1..n |-> "refused"]
           s == refusals \o <<"vanished">>
<1>1. n \in Nat
  <2>1. DOMAIN toBluez = 1..Len(toBluez) /\ Len(toBluez) \in Nat
    BY BusTypes, LenProperties
  <2>2. IsFiniteSet(DOMAIN toBluez)
    BY <2>1, FS_Interval
  <2>3. IsFiniteSet(calls)
    BY <2>2, FS_Subset
  <2> QED BY <2>3, FS_CardinalityType
<1> HIDE DEF n
<1>2. refusals \in Seq(FromBluez) /\ <<"vanished">> \in Seq(FromBluez)
  BY <1>1 DEF FromBluez
<1>3. fromBluez' = (fromBluez \o refusals) \o <<"vanished">>
  BY DEF BluezStops, n
<1>4. \A x : Has(refusals, x) => x = "refused"
  <2>1. Len(refusals) = n
    BY <1>1
  <2> QED BY <2>1 DEF Has
<1>5. \A x : Has(<<"vanished">>, x) <=> x = "vanished"
  BY DEF Has
<1> DEFINE v == <<"vanished">>
<1>6. refusals \in Seq(FromBluez) /\ v \in Seq(FromBluez)
  BY <1>2
<1>7. (\A x : Has(refusals, x) => x = "refused") /\ \A x : Has(v, x) <=> x = "vanished"
  BY <1>4, <1>5
<1>8. fromBluez' = (fromBluez \o refusals) \o v /\ s = refusals \o v
  BY <1>3
<1> HIDE DEF refusals, s, v
<1>9. s \in Seq(FromBluez) /\ \A x : Has(s, x) <=> Has(refusals, x) \/ Has(v, x)
  BY <1>6, <1>8, JoinQueue
<1>10. fromBluez' = fromBluez \o s
  BY <1>6, <1>8, BusTypes, ConcatAssociative
<1>11. Has(s, "vanished") /\ \A x : Has(s, x) => x \in {"refused", "vanished"}
  BY <1>7, <1>9
<1>12. Has(fromBluez', "vanished")
  BY <1>9, <1>10, <1>11, Joined
<1>13. ASSUME NEW i \in 1..Len(fromBluez'),
              fromBluez'[i] \notin {"refused", "vanished"}
       PROVE  Later(fromBluez', i, "vanished")
  <2>1. i \in 1..Len(fromBluez)
    BY <1>9, <1>10, <1>11, <1>13, Joined
  <2> QED BY <1>9, <1>10, <1>11, <2>1, Joined
<1> QED BY <1>12, <1>13

\* What bluetoothd answers to a call to register.
LEMMA RegisterAnswers ==
    ASSUME TypeOK, BluezRegisters
    PROVE  \E s \in Seq(FromBluez) :
              /\ fromBluez' = fromBluez \o s
              /\ ~Has(s, "appeared") /\ ~Has(s, "vanished")
              /\ Has(s, "registered") \/ Has(s, "getObjects") => bluez'.client
<1>0. bluez \in BluezType
  BY BusTypes
<1>1. CASE fromBluez' = Append(fromBluez, "refused")
  <2>1. <<"refused">> \in Seq(FromBluez) /\ "refused" \in FromBluez
    BY DEF FromBluez
  <2>2. Append(fromBluez, "refused") = fromBluez \o <<"refused">>
    BY <2>1, BusTypes, AppendIsConcat
  <2>3. \A x : Has(<<"refused">>, x) => x = "refused"
    BY DEF Has
  <2> QED BY <1>1, <2>1, <2>2, <2>3
<1>2. ASSUME NEW a \in {"registered", "refused"}, bluez'.client,
             fromBluez' = fromBluez \o <<a, "getObjects">>
      PROVE  \E s \in Seq(FromBluez) :
              /\ fromBluez' = fromBluez \o s
              /\ ~Has(s, "appeared") /\ ~Has(s, "vanished")
              /\ Has(s, "registered") \/ Has(s, "getObjects") => bluez'.client
  <2>1. <<a, "getObjects">> \in Seq(FromBluez)
    BY DEF FromBluez
  <2>2. \A x : Has(<<a, "getObjects">>, x) => x \in {a, "getObjects"}
    BY DEF Has
  <2>3. ~Has(<<a, "getObjects">>, "appeared") /\ ~Has(<<a, "getObjects">>, "vanished")
    BY <2>2
  <2> QED BY <1>2, <2>1, <2>3, Zenon
<1>3. \/ fromBluez' = Append(fromBluez, "refused")
      \/ /\ bluez' = [bluez EXCEPT !.client = TRUE]
         /\ \/ fromBluez' = fromBluez \o <<"registered", "getObjects">>
            \/ fromBluez' = fromBluez \o <<"refused", "getObjects">>
  BY DEF BluezRegisters
<1>4. bluez' = [bluez EXCEPT !.client = TRUE] => bluez'.client
  BY <1>0 DEF BluezType
<1> QED BY <1>1, <1>2, <1>3, <1>4

\* The steps that neither send to the provider nor dispatch a message of it,
\* nor start or stop bluetoothd.
Elsewhere ==
    Fed \/ BluezLearns \/ DevicePaired \/ DeviceRemoved
        \/ AdapterLeaves \/ AdapterArrives \/ UNCHANGED vars

LEMMA ElsewhereKeeps ==
    ASSUME TypeOK, BluezInv, Elsewhere
    PROVE  fromBluez' = fromBluez /\ bluez'.up = bluez.up
<1>1. bluez \in BluezType
  BY BusTypes
<1>2. CASE Fed \/ UNCHANGED vars
  BY <1>2, FedPublishes DEF vars, busVars
<1>3. CASE BluezLearns
  BY <1>1, <1>3 DEF BluezLearns, BluezType
<1>4. CASE DevicePaired \/ DeviceRemoved
  BY <1>1, <1>4 DEF DevicePaired, DeviceRemoved, BluezType
<1>5. CASE AdapterLeaves
  <2>1. bluez.up = TRUE
    BY <1>1, <1>5 DEF AdapterLeaves, BluezInv, NoBluez, BluezType
  <2> QED BY <1>5, <2>1 DEF AdapterLeaves, NoBluez
<1>6. CASE AdapterArrives
  BY <1>1, <1>6 DEF AdapterArrives, BluezType
<1> QED BY <1>2, <1>3, <1>4, <1>5, <1>6 DEF Elsewhere

\* Every step is one of these.
LEMMA StepCases ==
    ASSUME [Next]_vars
    PROVE  \/ Elsewhere
           \/ Dispatched
           \/ BluezRegisters
           \/ BluezStops
           \/ BluezStarts
BY DEF Next, Environment, BluezServes, Elsewhere

LEMMA DispatchedReceives ==
    ASSUME Dispatched
    PROVE  \E k : Receive(k)
BY DEF Dispatched, OnBluezAppeared, OnBluezVanished, OnRegisterDone, OmMethodCall

\* A bluetoothd that starts is news.
LEMMA StartJoins ==
    ASSUME TypeOK, BluezStarts
    PROVE  /\ Len(fromBluez') = Len(fromBluez) + 1
           /\ \A i \in 1..Len(fromBluez) : fromBluez'[i] = fromBluez[i]
           /\ fromBluez'[Len(fromBluez) + 1] = "appeared"
           /\ \A x : Has(fromBluez', x) <=> Has(fromBluez, x) \/ x = "appeared"
           /\ \A x : \A i \in 1..Len(fromBluez) :
                 Later(fromBluez', i, x) <=> Later(fromBluez, i, x) \/ x = "appeared"
           /\ bluez'.up /\ ~bluez'.client /\ bluez'.shown = NoLevel
           /\ ~bluez.up
<1>1. fromBluez' = Append(fromBluez, "appeared") /\ "appeared" \in FromBluez
  BY DEF BluezStarts, FromBluez
<1> DEFINE r == Append(fromBluez, "appeared")
<1>2. /\ Len(r) = Len(fromBluez) + 1
      /\ \A i \in 1..Len(fromBluez) : r[i] = fromBluez[i]
      /\ r[Len(fromBluez) + 1] = "appeared"
      /\ \A x : Has(r, x) <=> Has(fromBluez, x) \/ "appeared" = x
      /\ \A x : \A i \in 1..Len(fromBluez) :
            Later(r, i, x) <=> Later(fromBluez, i, x) \/ "appeared" = x
  <2>1. fromBluez \in Seq(FromBluez) /\ "appeared" \in FromBluez
    BY <1>1, BusTypes
  <2>2. /\ Len(r) = Len(fromBluez) + 1
        /\ \A i \in 1..Len(fromBluez) : r[i] = fromBluez[i]
        /\ r[Len(fromBluez) + 1] = "appeared"
    BY <2>1, AppendProperties
  <2>3. /\ \A x : Has(r, x) <=> Has(fromBluez, x) \/ "appeared" = x
        /\ \A x : \A i \in 1..Len(fromBluez) :
              Later(r, i, x) <=> Later(fromBluez, i, x) \/ "appeared" = x
    BY <2>1, AppendQueue
  <2> QED BY <2>2, <2>3
<1> HIDE DEF r
<1>3. fromBluez' = r
  BY <1>1 DEF r
<1>4. bluez'.up /\ ~bluez'.client /\ bluez'.shown = NoLevel /\ ~bluez.up
  BY DEF BluezStarts, NewBluez
<1> QED BY <1>2, <1>3, <1>4, Zenon

\* The news stay in order.
LEMMA NewsStep ==
    ASSUME TypeOK, BluezInv, NewsInv, [Next]_vars
    PROVE  NewsInv'
<1> SUFFICES ASSUME NEW i \in 1..Len(fromBluez'), fromBluez'[i] = "appeared",
                    ~bluez'.up \/ Later(fromBluez', i, "appeared")
             PROVE  Later(fromBluez', i, "vanished")
  BY DEF NewsInv
<1>1. CASE Elsewhere
  BY <1>1, ElsewhereKeeps DEF NewsInv
<1>2. CASE Dispatched
  <2>1. PICK k : Receive(k)
    BY <1>2, DispatchedReceives
  <2>2. i + 1 \in 1..Len(fromBluez) /\ fromBluez[i + 1] = "appeared"
        /\ (~bluez.up \/ Later(fromBluez, i + 1, "appeared"))
    BY <2>1, Dispatch
  <2>3. Later(fromBluez, i + 1, "vanished")
    BY <2>2 DEF NewsInv
  <2> QED BY <2>1, <2>3, Dispatch
<1>3. CASE BluezRegisters
  <2>1. PICK s \in Seq(FromBluez) :
              fromBluez' = fromBluez \o s /\ ~Has(s, "appeared") /\ ~Has(s, "vanished")
    BY <1>3, RegisterAnswers
  <2>2. bluez'.up = bluez.up
    BY <1>3, BusTypes DEF BluezRegisters, BluezType
  <2>3. i \in 1..Len(fromBluez) /\ fromBluez[i] = "appeared"
    BY <2>1, Joined
  <2>4. Later(fromBluez', i, "appeared") => Later(fromBluez, i, "appeared")
    BY <2>1, <2>3, Joined
  <2>5. Later(fromBluez, i, "vanished")
    BY <2>2, <2>3, <2>4 DEF NewsInv
  <2> QED BY <2>1, <2>3, <2>5, Joined
<1>4. CASE BluezStops
  BY <1>4, StopFollows
<1>5. CASE BluezStarts
  <2>1. /\ Len(fromBluez) \in Nat /\ Len(fromBluez') = Len(fromBluez) + 1
        /\ bluez'.up /\ ~bluez.up
    BY <1>5, StartJoins, BusTypes
  <2>2. CASE i = Len(fromBluez) + 1
    <3>1. Later(fromBluez', i, "appeared")
      BY <2>1
    <3> QED BY <2>1, <2>2, <3>1 DEF Later
  <2>3. CASE i \in 1..Len(fromBluez)
    <3>1. fromBluez[i] = "appeared"
      BY <1>5, <2>3, StartJoins
    <3>2. Later(fromBluez, i, "vanished")
      BY <2>1, <2>3, <3>1 DEF NewsInv
    <3> QED BY <1>5, <2>3, <3>2, StartJoins
  <2> QED BY <2>1, <2>2, <2>3
<1> QED BY <1>1, <1>2, <1>3, <1>4, <1>5, StepCases

\* Who has stopped being a client will hear of it.
LEMMA RegistrationStep ==
    ASSUME TypeOK, ObjectInv, BluezInv, RegistrationInv, [Next]_vars
    PROVE  RegistrationInv'
<1> SUFFICES ASSUME ~bluez'.client, "adapter" \notin trouble'
             PROVE  /\ registered' => Has(fromBluez', "vanished")
                    /\ \A i \in 1..Len(fromBluez') :
                          fromBluez'[i] = "registered" =>
                              Later(fromBluez', i, "vanished")
  BY DEF RegistrationInv
<1>0. bluez \in BluezType
  BY BusTypes
<1>1. CASE Elsewhere
  <2>1. ~AdapterLeaves /\ ~AdapterArrives
    BY DEF AdapterLeaves, AdapterArrives, Meets
  <2>2. registered' = registered /\ ~bluez.client /\ "adapter" \notin trouble
    <3>1. CASE Fed
      BY <3>1, FedPublishes, PublishSends
    <3>2. CASE BluezLearns
      BY <1>0, <3>2
         DEF BluezLearns, Delivered, providerVars, BluezType
    <3>3. CASE DevicePaired \/ DeviceRemoved
      BY <1>0, <3>3
         DEF DevicePaired, DeviceRemoved, Meets, Happens, providerVars, BluezType
    <3>4. CASE UNCHANGED vars
      BY <3>4 DEF vars, providerVars, busVars
    <3> QED BY <1>1, <2>1, <3>1, <3>2, <3>3, <3>4 DEF Elsewhere
  <2> QED BY <1>1, <2>2, ElsewhereKeeps DEF RegistrationInv
<1>2. CASE Dispatched
  <2>1. PICK k : Receive(k) /\ \/ k = "appeared" /\ OnBluezAppeared
                               \/ k = "vanished" /\ OnBluezVanished
                               \/ k = "registered" /\ registered' = TRUE
                               \/ k = "refused" /\ registered' = registered
                               \/ k = "getObjects" /\ OmMethodCall
    BY <1>2 DEF Dispatched, OnBluezAppeared, OnBluezVanished, OnRegisterDone,
       OmMethodCall
  <2>2. ~bluez.client /\ "adapter" \notin trouble
    <3>1. trouble \subseteq trouble'
      BY <1>2 DEF Dispatched, OnBluezAppeared, ScanFails, ScanRegisters, Meets,
         OnBluezVanished, OnRegisterDone, OmMethodCall
    <3> QED BY <2>1, <3>1, Dispatch
  <2>3. ASSUME NEW i \in 1..Len(fromBluez'), fromBluez'[i] = "registered"
        PROVE  Later(fromBluez', i, "vanished")
    <3>1. i + 1 \in 1..Len(fromBluez) /\ fromBluez[i + 1] = "registered"
      BY <2>1, <2>3, Dispatch
    <3>2. Later(fromBluez, i + 1, "vanished")
      BY <2>2, <3>1 DEF RegistrationInv
    <3> QED BY <2>1, <3>2, Dispatch
  <2>4. ASSUME registered' PROVE Has(fromBluez', "vanished")
    <3>1. CASE k = "registered"
      <4>1. 1 \in 1..Len(fromBluez) /\ fromBluez[1] = "registered"
        BY <2>1, <3>1, Dispatch
      <4>2. Later(fromBluez, 1, "vanished")
        BY <2>2, <4>1 DEF RegistrationInv
      <4> QED BY <2>1, <4>2, Dispatch
    <3>2. CASE k # "registered"
      <4>1. registered /\ k # "vanished"
        BY <2>1, <2>4, <3>2 DEF OnBluezAppeared, OnBluezVanished, OmMethodCall,
           providerVars
      <4>2. Has(fromBluez, "vanished")
        BY <2>2, <4>1 DEF RegistrationInv
      <4> QED BY <2>1, <4>1, <4>2, Dispatch
    <3> QED BY <3>1, <3>2
  <2> QED BY <2>3, <2>4
<1>3. CASE BluezRegisters
  <2>1. PICK s \in Seq(FromBluez) :
              /\ fromBluez' = fromBluez \o s
              /\ Has(s, "registered") => bluez'.client
    BY <1>3, RegisterAnswers
  <2>2. ~bluez.client /\ "adapter" \notin trouble /\ registered' = registered
    BY <1>0, <1>3
       DEF BluezRegisters, Delivered, providerVars, Meets, BluezType
  <2>3. ASSUME NEW i \in 1..Len(fromBluez'), fromBluez'[i] = "registered"
        PROVE  Later(fromBluez', i, "vanished")
    <3>1. i \in 1..Len(fromBluez) /\ fromBluez[i] = "registered"
      BY <2>1, <2>3, Joined
    <3>2. Later(fromBluez, i, "vanished")
      BY <2>2, <3>1 DEF RegistrationInv
    <3> QED BY <2>1, <3>1, <3>2, Joined
  <2>4. registered' => Has(fromBluez', "vanished")
    BY <2>1, <2>2, Joined DEF RegistrationInv
  <2> QED BY <2>3, <2>4
<1>4. CASE BluezStops
  BY <1>4, StopFollows
<1>5. CASE BluezStarts
  <2>1. ~bluez.client /\ "adapter" \notin trouble /\ registered' = registered
    BY <1>5 DEF BluezStarts, Happens, providerVars, BluezInv, NoBluez
  <2>2. ASSUME NEW i \in 1..Len(fromBluez'), fromBluez'[i] = "registered"
        PROVE  Later(fromBluez', i, "vanished")
    <3>1. i \in 1..Len(fromBluez) /\ fromBluez[i] = "registered"
      BY <1>5, <2>2, StartJoins, BusTypes
    <3>2. Later(fromBluez, i, "vanished")
      BY <2>1, <3>1 DEF RegistrationInv
    <3> QED BY <1>5, <3>1, <3>2, StartJoins
  <2>3. registered' => Has(fromBluez', "vanished")
    BY <1>5, <2>1, StartJoins DEF RegistrationInv
  <2> QED BY <2>2, <2>3
<1> QED BY <1>1, <1>2, <1>3, <1>4, <1>5, StepCases

-----------------------------------------------------------------------------
(***************************************************************************)
(* One life of bluetoothd.                                                 *)
(***************************************************************************)
\* A message is sent to a bluetoothd that is up.
LEMMA Sent ==
    ASSUME TypeOK, NEW m \in ToBluez, Send(m), bluez.up
    PROVE  /\ Len(toBluez) \in Nat /\ Len(toBluez') = Len(toBluez) + 1
           /\ \A i \in 1..Len(toBluez) : toBluez'[i] = toBluez[i]
           /\ toBluez'[Len(toBluez) + 1] = m
           /\ toBluez' # <<>>
<1>1. toBluez' = Append(toBluez, m) /\ toBluez \in Seq(ToBluez)
      /\ Len(toBluez) \in Nat
  BY BusTypes DEF Send
<1> QED BY <1>1, AppendProperties

\* bluetoothd takes a message.
LEMMA Taken ==
    ASSUME TypeOK, NEW kinds, Delivered(kinds)
    PROVE  /\ toBluez # <<>> /\ Len(toBluez) \in Nat \ {0}
           /\ Head(toBluez) = toBluez[1] /\ toBluez[1] \in ToBluez
           /\ toBluez[1].kind \in kinds
           /\ Len(toBluez') = Len(toBluez) - 1
           /\ \A i \in 1..Len(toBluez') : toBluez'[i] = toBluez[i + 1]
           /\ toBluez' \in Seq(ToBluez)
           /\ UNCHANGED <<registered, device, exported, percentage>>
<1>1. toBluez # <<>> /\ Head(toBluez).kind \in kinds /\ toBluez' = Tail(toBluez)
      /\ UNCHANGED <<registered, device, exported, percentage>>
  BY DEF Delivered, providerVars, announced
<1>2. toBluez \in Seq(ToBluez) /\ Len(toBluez) \in Nat \ {0}
  BY <1>1, BusTypes, EmptySeq
<1> QED BY <1>1, <1>2, HeadTailProperties

\* SenderGone is about the queue without its head.
LEMMA GoneIsLater ==
    ASSUME TypeOK, NEW k, Receive(k)
    PROVE  SenderGone <=> Has(fromBluez', "vanished")
<1>1. fromBluez' = Tail(fromBluez) /\ fromBluez' \in Seq(FromBluez)
  BY ReceiveType DEF Receive
<1>2. DOMAIN fromBluez' = 1..Len(fromBluez')
  BY <1>1, LenProperties
<1> QED BY <1>1, <1>2 DEF SenderGone, Has, Range

\* A registration that overtook nothing is the provider's answer to the last
\* news there are.
LEMMA NoMoreNews ==
    ASSUME TypeOK, NewsInv, Receive("appeared"), ~SenderGone
    PROVE  ~News' /\ ~Later(fromBluez, 1, "vanished")
<1>1. ~Has(fromBluez', "vanished") /\ ~Later(fromBluez, 1, "vanished")
  BY GoneIsLater, Dispatch
<1>2. 1 \in 1..Len(fromBluez) /\ fromBluez[1] = "appeared"
  BY Dispatch
<1>3. ~Later(fromBluez, 1, "appeared")
  BY <1>1, <1>2 DEF NewsInv
<1>4. ~Has(fromBluez', "appeared")
  BY <1>3, Dispatch
<1> QED BY <1>1, <1>4 DEF News

\* Where neither queue gets a register and no dispatch happens.
LEMMA LifeElsewhere ==
    ASSUME TypeOK, ObjectInv, BluezInv, LifeInv, Elsewhere, "overtaken" \notin trouble'
    PROVE  LifeQuiet' /\ LifeAnswers' /\ LifeCall'
<1>0. /\ fromBluez' = fromBluez /\ bluez \in BluezType
      /\ Len(toBluez) \in Nat
  BY ElsewhereKeeps, BusTypes
<1>1. "overtaken" \notin trouble
  BY FedPublishes DEF Elsewhere, BluezLearns, DevicePaired, DeviceRemoved,
     AdapterLeaves, AdapterArrives, Meets, vars, busVars
<1>2. LifeQuiet /\ LifeAnswers /\ LifeCall
  BY <1>1 DEF LifeInv
<1>3. registered' = registered /\ (~bluez.client => ~bluez'.client)
  <2>1. CASE Fed
    BY <2>1, FedPublishes, PublishSends
  <2>2. CASE BluezLearns
    BY <1>0, <2>2 DEF BluezLearns, Delivered, providerVars, BluezType
  <2>3. CASE DevicePaired \/ DeviceRemoved \/ AdapterLeaves \/ AdapterArrives
    BY <1>0, <2>3 DEF DevicePaired, DeviceRemoved, AdapterLeaves, AdapterArrives,
       Happens, providerVars, BluezType, NoBluez
  <2>4. CASE UNCHANGED vars
    BY <2>4 DEF vars, providerVars, busVars
  <2> QED BY <2>1, <2>2, <2>3, <2>4 DEF Elsewhere
<1>4. ASSUME NEW i \in 1..Len(toBluez'), toBluez'[i].kind = "register"
      PROVE  \E j \in 1..Len(toBluez) :
                /\ toBluez[j].kind = "register"
                /\ j = Len(toBluez) => i = Len(toBluez')
  <2>1. CASE toBluez' = toBluez
    BY <1>4, <2>1
  <2>2. CASE Fed /\ toBluez' # toBluez
    <3>1. PICK k \in {"added", "changed", "removed"},
               d \in Paths \cup {NoPath}, p \in Percentages \cup {NoLevel} :
              registered /\ Send(Msg(k, d, p))
      <4>1. device' \in Paths \cup {NoPath} /\ percentage' \in Percentages
        BY <2>2, FedPublishes, PublishType
      <4> QED BY <2>2, <4>1, FedPublishes, PublishSends
    <3>2. Msg(k, d, p) \in ToBluez /\ Msg(k, d, p).kind = k
      BY MessageType DEF Msg
    <3>3. bluez.up
      BY <2>2, <3>1 DEF Send
    <3>4. i \in 1..Len(toBluez) /\ toBluez[i].kind = "register"
      BY <1>4, <3>1, <3>2, <3>3, Sent
    <3> QED BY <1>2, <3>1, <3>4 DEF LifeCall
  <2>3. CASE BluezLearns
    <3>1. i + 1 \in 1..Len(toBluez) /\ toBluez[i + 1].kind = "register"
          /\ Len(toBluez') = Len(toBluez) - 1
      BY <1>4, <2>3, Taken DEF BluezLearns
    <3> QED BY <1>0, <3>1
  <2> QED
    BY <2>1, <2>2, <2>3 DEF Elsewhere, DevicePaired, DeviceRemoved, AdapterLeaves,
       AdapterArrives, vars, busVars
<1>5. LifeQuiet'
  BY <1>0, <1>2, <1>3, <1>4 DEF LifeQuiet, News, Registers
<1>6. LifeAnswers'
  BY <1>0, <1>2 DEF LifeAnswers
<1>7. LifeCall'
  BY <1>0, <1>2, <1>3, <1>4 DEF LifeCall
<1> QED BY <1>5, <1>6, <1>7

\* The main loop dispatches a message of bluetoothd.
LEMMA LifeDispatched ==
    ASSUME TypeOK, ObjectInv, BluezInv, NewsInv, LifeInv, Dispatched,
           "overtaken" \notin trouble'
    PROVE  LifeQuiet' /\ LifeAnswers' /\ LifeCall'
<1>0. bluez \in BluezType /\ Len(toBluez) \in Nat
  BY BusTypes
<1>1. "overtaken" \notin trouble
  BY DEF Dispatched, OnBluezAppeared, ScanFails, ScanRegisters, Meets,
     OnBluezVanished, OnRegisterDone, OmMethodCall
<1>2. LifeQuiet /\ LifeAnswers /\ LifeCall
  BY <1>1 DEF LifeInv
<1>3. PICK k : Receive(k)
  BY DispatchedReceives
<1>4. bluez' = bluez /\ (News' => News)
  BY <1>3, Dispatch DEF News
<1>5. LifeAnswers'
  <2> SUFFICES ASSUME NEW i \in 1..Len(fromBluez'), NEW j \in (i + 1)..Len(fromBluez'),
                      fromBluez'[i] = "appeared",
                      fromBluez'[j] \in {"registered", "getObjects"}
               PROVE  Later(fromBluez', i, "vanished")
    BY DEF LifeAnswers
  <2>1. /\ i + 1 \in 1..Len(fromBluez) /\ j + 1 \in ((i + 1) + 1)..Len(fromBluez)
        /\ j \in 1..Len(fromBluez')
    BY <1>3, Dispatch
  <2>2. fromBluez[i + 1] = "appeared" /\ fromBluez[j + 1] \in {"registered", "getObjects"}
    BY <1>3, <2>1, Dispatch
  <2>3. Later(fromBluez, i + 1, "vanished")
    BY <1>2, <2>1, <2>2 DEF LifeAnswers
  <2> QED BY <1>3, <2>3, Dispatch
<1>6. CASE /\ OnBluezAppeared /\ ~registered
           /\ ScanRegisters /\ bluez.mgr
  <2>1. Receive("appeared") /\ ~SenderGone /\ bluez.up
        /\ Send(Msg("register", NoPath, NoLevel)) /\ registered' = registered
    BY <1>6 DEF OnBluezAppeared, ScanRegisters, Meets
  <2>2. ~News' /\ ~Later(fromBluez, 1, "vanished")
    BY <2>1, NoMoreNews
  <2>3. 1 \in 1..Len(fromBluez) /\ fromBluez[1] = "appeared" /\ News
    BY <2>1, Dispatch DEF News, Has
  <2>4. ~bluez.client /\ ~Registers
    BY <1>2, <2>3 DEF LifeQuiet
  <2>5. ASSUME NEW x \in {"registered", "getObjects"}, Has(fromBluez', x) PROVE FALSE
    <3>1. Later(fromBluez, 1, x)
      BY <2>1, <2>5, Dispatch
    <3>2. PICK j \in (1 + 1)..Len(fromBluez) : fromBluez[j] = x
      BY <3>1 DEF Later
    <3> QED BY <1>2, <2>2, <2>3, <3>2 DEF LifeAnswers
  <2>6. Msg("register", NoPath, NoLevel) \in ToBluez
    BY MessageType
  <2>7. ASSUME NEW i \in 1..Len(toBluez'), toBluez'[i].kind = "register"
        PROVE  i = Len(toBluez')
    <3>1. i \notin 1..Len(toBluez)
      BY <2>1, <2>4, <2>6, <2>7, Sent DEF Registers
    <3> QED BY <2>1, <2>6, <3>1, Sent
  <2>8. LifeCall'
    BY <1>4, <1>6, <2>1, <2>4, <2>5, <2>7 DEF LifeCall
  <2>9. LifeQuiet'
    BY <2>2 DEF LifeQuiet
  <2> QED BY <1>5, <2>8, <2>9
<1>7. CASE toBluez' = toBluez /\ ~Registers
  <2>1. ~Registers'
    BY <1>7 DEF Registers
  <2> QED BY <1>2, <1>4, <1>5, <2>1 DEF LifeQuiet, LifeCall, Registers
<1>8. CASE OnBluezAppeared /\ toBluez' = toBluez
  <2>1. News
    BY <1>8, Dispatch DEF News, OnBluezAppeared
  <2> QED BY <1>2, <1>7, <1>8, <2>1 DEF LifeQuiet
<1>9. CASE OnBluezVanished
  <2>1. News /\ toBluez' = toBluez
    BY <1>9, Dispatch DEF News, OnBluezVanished
  <2> QED BY <1>2, <1>7, <2>1 DEF LifeQuiet
<1>10. CASE OnRegisterDone
  <2>1. toBluez' = toBluez
    BY <1>10 DEF OnRegisterDone
  <2>2. CASE Registers
    <3>1. PICK i \in 1..Len(toBluez) : toBluez[i].kind = "register"
      BY <2>2 DEF Registers
    <3>2. /\ ~registered /\ ~bluez.client
          /\ ~Has(fromBluez, "registered") /\ ~Has(fromBluez, "getObjects")
          /\ ~News
      BY <1>2, <2>2, <3>1 DEF LifeCall, LifeQuiet
    <3>3. ~Receive("registered")
      BY <3>2, Dispatch
    <3>4. registered' = registered
      BY <1>10, <3>3 DEF OnRegisterDone
    <3>5. ~Has(fromBluez', "registered") /\ ~Has(fromBluez', "getObjects")
      BY <1>3, <3>2, Dispatch
    <3>6. LifeCall'
      BY <1>2, <1>4, <2>1, <3>2, <3>4, <3>5 DEF LifeCall
    <3>7. LifeQuiet'
      BY <1>4, <3>2 DEF LifeQuiet
    <3> QED BY <1>5, <3>6, <3>7
  <2> QED BY <1>7, <2>1, <2>2
<1>11. CASE OmMethodCall
  <2>1. Has(fromBluez, "getObjects")
    BY <1>11, Dispatch DEF OmMethodCall
  <2>2. ~Registers
    BY <1>2, <2>1 DEF LifeCall, Registers
  <2>3. CASE toBluez' = toBluez
    BY <1>7, <2>2, <2>3
  <2>4. CASE toBluez' # toBluez
    <3> DEFINE m == Msg("objects", device, IF exported THEN percentage ELSE NoLevel)
    <3>1. m \in ToBluez /\ m.kind = "objects"
      <4>1. /\ device \in Paths \cup {NoPath}
            /\ (IF exported THEN percentage ELSE NoLevel) \in Percentages \cup {NoLevel}
        BY DEF TypeOK
      <4> QED BY <4>1, MessageType DEF Msg
    <3>2. Send(m) /\ bluez.up
      BY <1>11, <2>4 DEF OmMethodCall, Send
    <3> HIDE DEF m
    <3>3. ~Registers'
      BY <2>2, <3>1, <3>2, Sent DEF Registers
    <3> QED BY <1>2, <1>4, <1>5, <3>3 DEF LifeQuiet, LifeCall, Registers
  <2> QED BY <2>3, <2>4
<1> QED
  BY <1>6, <1>8, <1>9, <1>10, <1>11
     DEF Dispatched, OnBluezAppeared, ScanFails, ScanRegisters

\* bluetoothd takes a call to register, stops or starts.
LEMMA LifeBluez ==
    ASSUME TypeOK, BluezInv, LifeInv, BluezRegisters \/ BluezStops \/ BluezStarts,
           "overtaken" \notin trouble'
    PROVE  LifeQuiet' /\ LifeAnswers' /\ LifeCall'
<1>1. CASE BluezRegisters
  <2>1. "overtaken" \notin trouble
    BY <1>1 DEF BluezRegisters, Meets
  <2>2. LifeQuiet /\ LifeAnswers /\ LifeCall
    BY <2>1 DEF LifeInv
  <2>3. 1 \in 1..Len(toBluez) /\ toBluez[1].kind = "register"
        /\ Len(toBluez') = Len(toBluez) - 1
    BY <1>1, Taken DEF BluezRegisters
  <2>4. Len(toBluez') = 0
    BY <2>2, <2>3 DEF LifeCall
  <2>5. ~News
    BY <2>2, <2>3 DEF LifeQuiet, Registers
  <2>6. ~News'
    <3>1. PICK s \in Seq(FromBluez) :
              fromBluez' = fromBluez \o s /\ ~Has(s, "appeared") /\ ~Has(s, "vanished")
      BY <1>1, RegisterAnswers
    <3> QED BY <2>5, <3>1, Joined DEF News
  <2>7. LifeAnswers'
    <3> SUFFICES ASSUME NEW i \in 1..Len(fromBluez'), fromBluez'[i] = "appeared"
                 PROVE  FALSE
      BY DEF LifeAnswers
    <3> QED BY <2>6 DEF News, Has
  <2> QED BY <2>4, <2>6, <2>7 DEF LifeQuiet, LifeCall
<1>2. CASE BluezStops
  <2>1. toBluez' = <<>> /\ ~bluez'.client
    BY <1>2 DEF BluezStops, NoBluez
  <2>2. LifeAnswers'
    BY <1>2, StopFollows DEF LifeAnswers
  <2> QED BY <2>1, <2>2 DEF LifeQuiet, LifeCall, Registers
<1>3. CASE BluezStarts
  <2>1. toBluez' = <<>> /\ ~bluez'.client /\ "overtaken" \notin trouble
    BY <1>3, StartJoins DEF BluezStarts, BluezInv
  <2>2. LifeAnswers
    BY <2>1 DEF LifeInv
  <2>3. LifeAnswers'
    <3> SUFFICES ASSUME NEW i \in 1..Len(fromBluez'),
                        NEW j \in (i + 1)..Len(fromBluez'),
                        fromBluez'[i] = "appeared",
                        fromBluez'[j] \in {"registered", "getObjects"}
                 PROVE  Later(fromBluez', i, "vanished")
      BY DEF LifeAnswers
    <3>1. Len(fromBluez) \in Nat /\ Len(fromBluez') = Len(fromBluez) + 1
      BY <1>3, BusTypes, StartJoins
    <3>2. j # Len(fromBluez) + 1
      BY <1>3, StartJoins
    <3>3. i \in 1..Len(fromBluez) /\ j \in (i + 1)..Len(fromBluez)
          /\ j \in 1..Len(fromBluez)
      BY <3>1, <3>2
    <3>4. fromBluez[i] = fromBluez'[i] /\ fromBluez[j] = fromBluez'[j]
      BY <1>3, <3>3, StartJoins
    <3>5. Later(fromBluez, i, "vanished")
      BY <2>2, <3>3, <3>4 DEF LifeAnswers
    <3> QED BY <1>3, <3>3, <3>5, StartJoins
  <2> QED BY <2>1, <2>3 DEF LifeQuiet, LifeCall, Registers
<1> QED BY <1>1, <1>2, <1>3

LEMMA LifeStep ==
    ASSUME TypeOK, ObjectInv, BluezInv, NewsInv, LifeInv, [Next]_vars
    PROVE  LifeInv'
<1>1. ASSUME "overtaken" \notin trouble'
      PROVE  LifeQuiet' /\ LifeAnswers' /\ LifeCall'
  BY <1>1, StepCases, LifeElsewhere, LifeDispatched, LifeBluez
<1> QED BY <1>1 DEF LifeInv

\* device_ follows bluetoothd.
LEMMA DeviceStep ==
    ASSUME TypeOK, ObjectInv, BluezInv, NewsInv, RegistrationInv, LifeInv, DeviceInv,
           [Next]_vars
    PROVE  DeviceInv'
<1> SUFFICES ASSUME "overtaken" \notin trouble', ~Moved'
             PROVE  /\ ~Has(fromBluez', "vanished") =>
                          (~bluez'.up \/ Has(fromBluez', "appeared") => device' = NoPath)
                    /\ ~News' => device' \in {NoPath, bluez'.dev}
  BY DEF DeviceInv
<1>0. bluez \in BluezType
  BY BusTypes
<1>1. ASSUME "overtaken" \notin trouble, ~Moved
      PROVE  /\ ~Has(fromBluez, "vanished") =>
                    (~bluez.up \/ Has(fromBluez, "appeared") => device = NoPath)
             /\ ~News => device \in {NoPath, bluez.dev}
             /\ News /\ registered => Has(fromBluez, "vanished")
  BY <1>1 DEF DeviceInv, LifeInv, LifeQuiet, RegistrationInv, Moved
<1>2. CASE Fed
  <2>1. "overtaken" \notin trouble /\ ~Moved
        /\ bluez' = bluez /\ fromBluez' = fromBluez
    BY <1>2, FedPublishes DEF Moved
  <2>2. /\ device' \in {device, bluez.dev, NoPath}
        /\ device # NoPath \/ ~registered => device' = device
    BY <1>2, FedPublishes, PublishSends
  <2>3. ~bluez.up => bluez.dev = NoPath
    BY DEF BluezInv, NoBluez
  <2>4. Has(fromBluez, "appeared") => News
    BY DEF News
  <2>5. News' <=> News
    BY <2>1 DEF News
  <2> QED BY <1>1, <2>1, <2>2, <2>3, <2>4, <2>5
<1>3. CASE BluezLearns \/ DevicePaired \/ DeviceRemoved \/ UNCHANGED vars
  <2>1. /\ trouble' = trouble /\ fromBluez' = fromBluez /\ device' = device
        /\ bluez'.up = bluez.up
        /\ bluez'.dev = bluez.dev \/ bluez.dev = NoPath \/ device = NoPath
    BY <1>0, <1>3 DEF BluezLearns, Delivered, DevicePaired, DeviceRemoved, Meets,
       Moved, Happens, vars, busVars, providerVars, BluezType
  <2>2. (News' <=> News) /\ ~Moved
    BY <2>1 DEF News, Moved
  <2> QED BY <1>1, <2>1, <2>2
<1>4. CASE AdapterLeaves \/ AdapterArrives
  BY <1>4 DEF AdapterLeaves, AdapterArrives, Meets, Moved
<1>5. CASE OnBluezAppeared
  <2>1. Receive("appeared") /\ bluez' = bluez
        /\ "overtaken" \notin trouble /\ ~Moved
        /\ device' \in {device, bluez.dev}
    BY <1>5, Dispatch
       DEF OnBluezAppeared, ScanFails, ScanRegisters, Meets, Moved
  <2>2. ~Has(fromBluez', "vanished") => ~News' /\ ~Has(fromBluez, "vanished")
    BY <2>1, GoneIsLater, NoMoreNews, Dispatch
  <2>3. ~Has(fromBluez', "vanished") => bluez.up
    <3>1. 1 \in 1..Len(fromBluez) /\ fromBluez[1] = "appeared"
      BY <2>1, Dispatch
    <3>2. ~bluez.up => Later(fromBluez, 1, "vanished")
      BY <3>1 DEF NewsInv
    <3> QED BY <2>1, <3>2, Dispatch
  <2>4. Has(fromBluez, "appeared")
    BY <2>1, Dispatch
  <2>5. ~News' => ~Has(fromBluez', "vanished") /\ ~Has(fromBluez', "appeared")
    BY DEF News
  <2> QED BY <1>1, <2>1, <2>2, <2>3, <2>4, <2>5
<1>6. CASE OnBluezVanished
  BY <1>6 DEF OnBluezVanished
<1>7. CASE OnRegisterDone \/ OmMethodCall
  <2>1. PICK k \in {"registered", "refused", "getObjects"} : Receive(k)
    BY <1>7 DEF OnRegisterDone, OmMethodCall
  <2>2. /\ Has(fromBluez', "vanished") <=> Has(fromBluez, "vanished")
        /\ Has(fromBluez', "appeared") <=> Has(fromBluez, "appeared")
        /\ bluez' = bluez
    BY <2>1, Dispatch
  <2>3. device' = device /\ trouble' = trouble /\ ~Moved
    BY <1>7 DEF OnRegisterDone, OmMethodCall, providerVars, Moved
  <2>4. News' <=> News
    BY <2>2 DEF News
  <2> QED BY <1>1, <2>2, <2>3, <2>4
<1>8. CASE BluezRegisters
  <2>1. PICK s \in Seq(FromBluez) :
              fromBluez' = fromBluez \o s /\ ~Has(s, "appeared") /\ ~Has(s, "vanished")
    BY <1>8, RegisterAnswers
  <2>2. /\ Has(fromBluez', "vanished") <=> Has(fromBluez, "vanished")
        /\ Has(fromBluez', "appeared") <=> Has(fromBluez, "appeared")
    BY <2>1, Joined
  <2>3. /\ device' = device /\ "overtaken" \notin trouble /\ ~Moved
        /\ bluez'.up = bluez.up /\ bluez'.dev = bluez.dev
    BY <1>0, <1>8
       DEF BluezRegisters, Delivered, providerVars, Meets, Moved, BluezType
  <2>4. News' <=> News
    BY <2>2 DEF News
  <2> QED BY <1>1, <2>2, <2>3, <2>4
<1>9. CASE BluezStops
  BY <1>9, StopFollows DEF News
<1>10. CASE BluezStarts
  <2>1. /\ Has(fromBluez', "vanished") <=> Has(fromBluez, "vanished")
        /\ Has(fromBluez', "appeared") /\ ~bluez.up
    BY <1>10, StartJoins
  <2>2. device' = device /\ trouble' = trouble /\ ~Moved
    BY <1>10 DEF BluezStarts, Happens, providerVars, Moved
  <2> QED BY <1>1, <2>1, <2>2 DEF News
<1> QED
  BY <1>2, <1>3, <1>4, <1>5, <1>6, <1>7, <1>8, <1>9, <1>10
     DEF Next, Dispatched, Environment, BluezServes

-----------------------------------------------------------------------------
(***************************************************************************)
(* What is shown.                                                          *)
(***************************************************************************)
\* An empty queue is the one without messages.
LEMMA EmptyIsZero ==
    ASSUME NEW S, NEW q \in Seq(S)
    PROVE  q = <<>> <=> Len(q) = 0
BY EmptySeq

\* A message that says what is announced now extends the chain.
LEMMA ChainAppend ==
    ASSUME TypeOK, TypeOK', Chain, NEW m \in ToBluez, Send(m), bluez.up,
           bluez' = bluez, trouble' = trouble,
           MessageOK(m), Follows(Announced, m), m.pct = Announced'
    PROVE  Chain'
<1>1. /\ Len(toBluez) \in Nat /\ Len(toBluez') = Len(toBluez) + 1
      /\ \A i \in 1..Len(toBluez) : toBluez'[i] = toBluez[i]
      /\ toBluez'[Len(toBluez) + 1] = m
      /\ toBluez' # <<>>
  BY Sent
<1>2. \A i \in 1..Len(toBluez') : MessageOK(toBluez'[i])
  BY <1>1 DEF Chain
<1>3. \A i \in 1..Len(toBluez') : MessageOK(toBluez[i])'
  BY <1>2 DEF MessageOK, Moved
<1>4. Len(toBluez) # 0 => Follows(toBluez[Len(toBluez)].pct, m)
  BY BusTypes, EmptyIsZero DEF Chain
<1>5. ASSUME NEW i \in 1..(Len(toBluez') - 1)
      PROVE  Follows(toBluez'[i].pct, toBluez'[i + 1])
  <2>1. CASE i = Len(toBluez)
    BY <1>1, <1>4, <2>1
  <2>2. CASE i # Len(toBluez)
    <3>1. i \in 1..(Len(toBluez) - 1) /\ i \in 1..Len(toBluez) /\ i + 1 \in 1..Len(toBluez)
      BY <1>1, <2>2
    <3> QED BY <1>1, <3>1 DEF Chain
  <2> QED BY <2>1, <2>2
<1>6. Fits(toBluez'[1])
  <2>1. CASE toBluez = <<>>
    <3>1. Shows(Announced) /\ toBluez'[1] = m
      BY <1>1, <2>1 DEF Chain
    <3> QED BY <3>1 DEF Fits, Follows, Shows
  <2>2. CASE toBluez # <<>>
    <3>1. 1 \in 1..Len(toBluez)
      BY <1>1, <2>2, BusTypes, EmptyIsZero
    <3> QED BY <1>1, <2>2, <3>1 DEF Chain
  <2> QED BY <2>1, <2>2
<1>7. Fits(toBluez[1])'
  BY <1>6 DEF Fits, Shows, Moved
<1> QED BY <1>1, <1>3, <1>5, <1>7 DEF Chain

\* The head of the chain makes bluetoothd show what it carries.
LEMMA HeadIsShown ==
    ASSUME bluez \in BluezType, NEW m \in ToBluez, m.kind # "register",
           MessageOK(m), Fits(m)
    PROVE  \/ ShownAfter(m) = m.pct
           \/ Moved /\ ShownAfter(m) = NoLevel
<1>1. m.kind \in {"added", "changed", "removed", "objects"}
  BY DEF ToBluez
<1>2. CASE m.kind \in {"added", "objects"}
  BY <1>2 DEF ShownAfter, MessageOK, Fits, Shows
<1>3. CASE m.kind = "changed"
  BY <1>3 DEF ShownAfter, Fits
<1>4. CASE m.kind = "removed"
  BY <1>4 DEF ShownAfter, MessageOK
<1> QED BY <1>1, <1>2, <1>3, <1>4

\* bluetoothd takes the head of the chain.
LEMMA ChainTail ==
    ASSUME TypeOK, TypeOK', Chain, BluezLearns, bluez.client
    PROVE  Chain'
<1>0. bluez \in BluezType
  BY BusTypes
<1>1. /\ toBluez # <<>> /\ Len(toBluez) \in Nat \ {0}
      /\ Head(toBluez) = toBluez[1] /\ toBluez[1] \in ToBluez
      /\ toBluez[1].kind # "register"
      /\ Len(toBluez') = Len(toBluez) - 1
      /\ \A i \in 1..Len(toBluez') : toBluez'[i] = toBluez[i + 1]
      /\ toBluez' \in Seq(ToBluez)
      /\ Announced' = Announced
  <2>1. PICK kinds : Delivered(kinds) /\ "register" \notin kinds
    BY DEF BluezLearns
  <2>2. UNCHANGED <<exported, percentage>>
    BY <2>1, Taken
  <2> QED BY <2>1, <2>2, Taken DEF Announced
<1> DEFINE m == toBluez[1]
<1>2. /\ trouble' = trouble
      /\ bluez' = [bluez EXCEPT !.shown = ShownAfter(m)]
  BY <1>1 DEF BluezLearns
<1>3. bluez'.shown = ShownAfter(m) /\ bluez'.dev = bluez.dev
  BY <1>0, <1>2 DEF BluezType
<1>4. MessageOK(m) /\ Fits(m)
  BY <1>1 DEF Chain
<1>5. bluez'.shown = m.pct \/ (Moved' /\ bluez'.shown = NoLevel)
  <2>1. Moved' <=> Moved
    BY <1>2 DEF Moved
  <2> QED BY <1>0, <1>1, <1>2, <1>3, <1>4, <2>1, HeadIsShown
<1>6. \A i \in 1..Len(toBluez') : MessageOK(toBluez[i])'
  <2> SUFFICES ASSUME NEW i \in 1..Len(toBluez') PROVE MessageOK(toBluez[i])'
    OBVIOUS
  <2>1. i + 1 \in 1..Len(toBluez) /\ toBluez'[i] = toBluez[i + 1]
    BY <1>1
  <2>2. MessageOK(toBluez[i + 1])
    BY <2>1 DEF Chain
  <2> QED BY <1>2, <1>3, <2>1, <2>2 DEF MessageOK, Moved
<1>7. ASSUME NEW i \in 1..(Len(toBluez') - 1)
      PROVE  Follows(toBluez'[i].pct, toBluez'[i + 1])
  <2>1. /\ i + 1 \in 1..(Len(toBluez) - 1) /\ (i + 1) + 1 \in 1..Len(toBluez)
        /\ i \in 1..Len(toBluez') /\ i + 1 \in 1..Len(toBluez')
    BY <1>1
  <2>2. toBluez'[i] = toBluez[i + 1] /\ toBluez'[i + 1] = toBluez[(i + 1) + 1]
    BY <1>1, <2>1
  <2> QED BY <2>1, <2>2 DEF Chain
<1>8. CASE Len(toBluez') = 0
  <2>1. Len(toBluez) = 1
    BY <1>1, <1>8
  <2>2. toBluez' = <<>>
    BY <1>1, <1>8, EmptyIsZero
  <2>3. m.pct = Announced'
    BY <1>1, <2>1 DEF Chain
  <2>4. Shows(Announced)'
    BY <1>5, <2>3 DEF Shows
  <2> QED BY <1>6, <1>7, <2>2, <2>4 DEF Chain
<1>9. CASE Len(toBluez') # 0
  <2>1. /\ toBluez' # <<>> /\ 1 \in 1..(Len(toBluez) - 1)
        /\ 1 \in 1..Len(toBluez') /\ Len(toBluez') \in 1..Len(toBluez')
        /\ Len(toBluez') + 1 = Len(toBluez)
    BY <1>1, <1>9, EmptyIsZero
  <2>2. toBluez'[1] = toBluez[1 + 1] /\ toBluez'[Len(toBluez')] = toBluez[Len(toBluez)]
    BY <1>1, <2>1
  <2>3. Follows(m.pct, toBluez'[1])
    BY <2>1, <2>2 DEF Chain
  <2>4. Fits(toBluez[1])'
    BY <1>5, <2>3 DEF Fits, Shows, Follows
  <2>5. toBluez'[Len(toBluez')].pct = Announced'
    BY <1>1, <2>2 DEF Chain
  <2> QED BY <1>6, <1>7, <2>1, <2>4, <2>5 DEF Chain
<1> QED BY <1>8, <1>9

\* While it is a client's, no news of bluetoothd are on their way, and device_
\* is the path it gave.
LEMMA ClientHasNoNews ==
    ASSUME LifeInv, DeviceInv, bluez.client, "overtaken" \notin trouble
    PROVE  /\ ~News
           /\ ~Moved => device \in {NoPath, bluez.dev}
BY DEF LifeInv, LifeQuiet, DeviceInv

\* A provider that knows no device has said nothing of one.
LEMMA KnownStep ==
    ASSUME TypeOK, ObjectInv, BluezInv, LifeInv, KnownInv, [Next]_vars, TypeOK',
           ObjectInv'
    PROVE  KnownInv'
<1> SUFFICES ASSUME bluez'.client, "overtaken" \notin trouble', device' = NoPath
             PROVE  Unknown'
  BY DEF KnownInv
<1>0. bluez \in BluezType
  BY BusTypes
<1>1. ASSUME bluez.client, "overtaken" \notin trouble PROVE ~News /\ bluez.up
  BY <1>1 DEF LifeInv, LifeQuiet, BluezInv, NoBluez
<1>2. ~exported'
  BY DEF ObjectInv, OnlyLiveReadings
<1>3. CASE Fed
  <2>1. bluez' = bluez /\ trouble' = trouble
    BY <1>3, FedPublishes
  <2>2. device = NoPath
    BY <1>3, FedPublishes, PublishSends
  <2>3. Unknown /\ ~exported
    BY <2>1, <2>2 DEF KnownInv, ObjectInv, OnlyLiveReadings
  <2>4. toBluez' = toBluez
    BY <1>2, <1>3, <2>3, FedPublishes, PublishSends
  <2> QED BY <2>1, <2>3, <2>4 DEF Unknown
<1>4. CASE \/ DevicePaired \/ DeviceRemoved \/ AdapterArrives
           \/ OnRegisterDone \/ UNCHANGED vars
  <2>1. /\ bluez.client /\ "overtaken" \notin trouble /\ device = NoPath
        /\ toBluez' = toBluez /\ bluez'.shown \in {bluez.shown, NoLevel}
    BY <1>0, <1>4 DEF DevicePaired, DeviceRemoved, AdapterArrives, OnRegisterDone,
       Receive, Happens, Meets, providerVars, vars, busVars, BluezType
  <2> QED BY <2>1 DEF KnownInv, Unknown
<1>5. CASE AdapterLeaves \/ BluezStops \/ BluezStarts
  BY <1>5, StartJoins DEF AdapterLeaves, BluezStops, NoBluez
<1>6. CASE OnBluezAppeared \/ OnBluezVanished
  <2>1. News /\ bluez' = bluez /\ "overtaken" \notin trouble
    BY <1>6, Dispatch
       DEF OnBluezAppeared, ScanFails, ScanRegisters, Meets, OnBluezVanished, News
  <2> QED BY <1>1, <2>1
<1>7. CASE OmMethodCall
  <2>1. /\ bluez' = bluez /\ trouble' = trouble /\ device = NoPath /\ ~exported
    BY <1>2, <1>7 DEF OmMethodCall, Receive, providerVars, announced
  <2>2. Unknown /\ bluez.up
    BY <1>1, <2>1 DEF KnownInv
  <2> DEFINE m == Msg("objects", device, IF exported THEN percentage ELSE NoLevel)
  <2>3. m \in ToBluez /\ m.pct = NoLevel
    BY <2>1, MessageType DEF Msg
  <2>4. toBluez' = toBluez \/ Send(m)
    BY <1>7 DEF OmMethodCall
  <2>5. ASSUME NEW i \in 1..Len(toBluez') PROVE toBluez'[i].pct = NoLevel
    <3>1. CASE toBluez' = toBluez
      BY <2>2, <3>1 DEF Unknown
    <3>2. CASE Send(m)
      BY <2>2, <2>3, <3>2, Sent DEF Unknown
    <3> QED BY <2>4, <3>1, <3>2
  <2> QED BY <2>1, <2>2, <2>5 DEF Unknown
<1>8. CASE BluezLearns
  <2>1. /\ bluez.client /\ "overtaken" \notin trouble /\ device = NoPath
        /\ bluez' = [bluez EXCEPT !.shown = ShownAfter(Head(toBluez))]
    BY <1>0, <1>8 DEF BluezLearns, Delivered, providerVars, BluezType
  <2>2. Unknown
    BY <2>1 DEF KnownInv
  <2>3. PICK kinds : Delivered(kinds) /\ "register" \notin kinds
    BY <1>8 DEF BluezLearns
  <2>4. /\ 1 \in 1..Len(toBluez) /\ Head(toBluez) = toBluez[1]
        /\ toBluez[1] \in ToBluez /\ toBluez[1].kind # "register"
        /\ \A i \in 1..Len(toBluez') :
              i + 1 \in 1..Len(toBluez) /\ toBluez'[i] = toBluez[i + 1]
    BY <2>3, Taken
  <2>5. ShownAfter(toBluez[1]) = NoLevel
    BY <2>2, <2>4 DEF ShownAfter, Unknown, ToBluez
  <2>6. bluez'.shown = NoLevel
    BY <1>0, <2>1, <2>4, <2>5 DEF BluezType
  <2> QED BY <2>2, <2>4, <2>6 DEF Unknown
<1>9. CASE BluezRegisters
  <2>1. "overtaken" \notin trouble
    BY <1>9 DEF BluezRegisters, Meets
  <2>2. /\ 1 \in 1..Len(toBluez) /\ toBluez[1].kind = "register"
        /\ Len(toBluez') = Len(toBluez) - 1
    BY <1>9, Taken DEF BluezRegisters
  <2>3. 1 = Len(toBluez) /\ ~bluez.client
    BY <2>1, <2>2 DEF LifeInv, LifeCall
  <2>4. bluez'.shown = NoLevel
    BY <1>0, <1>9, <2>3 DEF BluezRegisters, BluezInv, BluezType
  <2> QED BY <2>2, <2>3, <2>4 DEF Unknown
<1> QED
  BY <1>3, <1>4, <1>5, <1>6, <1>7, <1>8, <1>9
     DEF Next, Dispatched, Environment, BluezServes

\* Every step keeps the chain between what is shown and what is announced.
LEMMA ChainStep ==
    ASSUME TypeOK, ObjectInv, BluezInv, LifeInv, DeviceInv, KnownInv, ChainInv,
           [Next]_vars, TypeOK', ObjectInv', LifeInv', DeviceInv'
    PROVE  ChainInv'
<1> SUFFICES ASSUME bluez'.client, "overtaken" \notin trouble'
             PROVE  Chain'
  BY DEF ChainInv
<1>0. bluez \in BluezType /\ NoLevel \notin Percentages
  BY BusTypes DEF Percentages
<1>1. ASSUME bluez.client, "overtaken" \notin trouble
      PROVE  /\ Chain /\ bluez.up /\ ~News
             /\ exported => registered /\ device # NoPath
  BY <1>1, ClientHasNoNews
     DEF ChainInv, BluezInv, NoBluez, ObjectInv, OnlyLiveReadings
<1>2. ASSUME bluez' = bluez, trouble' = trouble, toBluez' = toBluez,
             Announced' = Announced
      PROVE  Chain'
  <2>1. Chain
    BY <1>1, <1>2
  <2> QED BY <1>2, <2>1 DEF Chain, MessageOK, Fits, Shows, Follows, Moved
<1>3. CASE Fed
  <2>1. bluez' = bluez /\ trouble' = trouble
    BY <1>3, FedPublishes
  <2>2. Chain /\ bluez.up
    BY <1>1, <2>1
  <2>3. /\ device' \in Paths \cup {NoPath} /\ percentage' \in Percentages
        /\ percentage \in Percentages
        /\ ~Moved => device' \in {NoPath, bluez.dev}
    BY <2>1, ClientHasNoNews DEF TypeOK, LifeInv, LifeQuiet, DeviceInv, Moved
  <2>4. CASE toBluez' = toBluez /\ Announced' = Announced
    BY <1>2, <2>1, <2>4
  <2>5. CASE exported /\ ~exported' /\ Send(Msg("removed", NoPath, NoLevel))
    <3> DEFINE m == Msg("removed", NoPath, NoLevel)
    <3>1. m \in ToBluez /\ MessageOK(m) /\ Follows(Announced, m) /\ m.pct = Announced'
      BY <2>5, MessageType DEF Msg, MessageOK, Follows, Announced
    <3> QED BY <2>1, <2>2, <2>5, <3>1, ChainAppend
  <2>6. CASE /\ device' # NoPath /\ exported /\ exported'
             /\ Send(Msg("changed", device', percentage'))
    <3> DEFINE m == Msg("changed", device', percentage')
    <3>1. m \in ToBluez
      BY <2>3, MessageType
    <3>2. MessageOK(m)
      BY <1>0, <2>3, <2>6 DEF Msg, MessageOK
    <3>3. Follows(Announced, m) /\ m.pct = Announced'
      BY <1>0, <2>3, <2>6 DEF Msg, Follows, Announced
    <3> QED BY <2>1, <2>2, <2>6, <3>1, <3>2, <3>3, ChainAppend
  <2>7. CASE /\ device' # NoPath /\ ~exported /\ exported'
             /\ Send(Msg("added", device', percentage'))
    <3> DEFINE m == Msg("added", device', percentage')
    <3>1. m \in ToBluez
      BY <2>3, MessageType
    <3>2. MessageOK(m)
      BY <1>0, <2>3, <2>7 DEF Msg, MessageOK
    <3>3. Follows(Announced, m) /\ m.pct = Announced'
      BY <1>0, <2>3, <2>7 DEF Msg, Follows, Announced
    <3> QED BY <2>1, <2>2, <2>7, <3>1, <3>2, <3>3, ChainAppend
  <2> QED BY <1>3, <2>4, <2>5, <2>6, <2>7, FedPublishes, PublishSends
<1>4. CASE BluezLearns
  <2>1. bluez.client /\ "overtaken" \notin trouble
    BY <1>0, <1>4 DEF BluezLearns, BluezType
  <2> QED BY <1>1, <1>4, <2>1, ChainTail
<1>5. CASE DevicePaired \/ AdapterArrives
  <2>1. /\ bluez.client /\ "overtaken" \notin trouble
        /\ bluez'.shown = bluez.shown
        /\ bluez'.dev = bluez.dev \/ bluez.dev = NoPath
        /\ trouble \subseteq trouble'
        /\ toBluez' = toBluez /\ Announced' = Announced
    BY <1>0, <1>5 DEF DevicePaired, AdapterArrives, Happens, Meets, providerVars,
       announced, Announced, BluezType
  <2>2. Chain
    BY <1>1, <2>1
  <2>3. \A i \in 1..Len(toBluez') : MessageOK(toBluez[i])'
    BY <2>1, <2>2 DEF Chain, MessageOK, Moved
  <2>4. toBluez' # <<>> => Fits(toBluez[1])'
    BY <2>1, <2>2 DEF Chain, Fits, Shows, Moved
  <2>5. toBluez' = <<>> => Shows(Announced)'
    BY <2>1, <2>2 DEF Chain, Shows, Moved
  <2> QED BY <2>1, <2>2, <2>3, <2>4, <2>5 DEF Chain
<1>6. CASE AdapterLeaves \/ BluezStops \/ BluezStarts
  BY <1>6, StartJoins DEF AdapterLeaves, BluezStops, NoBluez
<1>7. CASE OnBluezAppeared \/ OnBluezVanished
  <2>1. News /\ bluez' = bluez /\ "overtaken" \notin trouble
    BY <1>7, Dispatch
       DEF OnBluezAppeared, ScanFails, ScanRegisters, Meets, OnBluezVanished, News
  <2> QED BY <1>1, <2>1
<1>8. CASE OnRegisterDone
  <2>1. bluez' = bluez /\ trouble' = trouble /\ toBluez' = toBluez
        /\ Announced' = Announced
    BY <1>8 DEF OnRegisterDone, Receive, announced, Announced
  <2> QED BY <1>2, <2>1
<1>9. CASE OmMethodCall
  <2>1. /\ bluez' = bluez /\ trouble' = trouble
        /\ Announced' = Announced
        /\ Receive("getObjects")
    BY <1>9 DEF OmMethodCall, Receive, providerVars, announced, Announced
  <2>2. Chain /\ bluez.up /\ ~News
    BY <1>1, <2>1
  <2>3. ~SenderGone
    BY <2>1, <2>2, GoneIsLater, Dispatch DEF News
  <2> DEFINE m == Msg("objects", device, IF exported THEN percentage ELSE NoLevel)
  <2>4. Send(m)
    BY <1>9, <2>3 DEF OmMethodCall
  <2>5. /\ device \in Paths \cup {NoPath}
        /\ (IF exported THEN percentage ELSE NoLevel) \in Percentages \cup {NoLevel}
    BY DEF TypeOK
  <2>6. m \in ToBluez
    BY <2>5, MessageType
  <2>7. Follows(Announced, m) /\ m.pct = Announced'
    BY <2>1 DEF Msg, Follows, Announced
  <2>8. MessageOK(m)
    <3>1. m.pct # NoLevel => exported
      BY DEF Msg
    <3>2. exported => device # NoPath
      BY <1>1, <2>1
    <3>3. ~Moved => device \in {NoPath, bluez.dev}
      BY <2>1, ClientHasNoNews
    <3> QED BY <3>1, <3>2, <3>3 DEF Msg, MessageOK
  <2> QED BY <2>1, <2>2, <2>4, <2>6, <2>7, <2>8, ChainAppend
<1>10. CASE BluezRegisters
  <2>1. "overtaken" \notin trouble
    BY <1>10 DEF BluezRegisters, Meets
  <2>2. /\ 1 \in 1..Len(toBluez) /\ toBluez[1].kind = "register"
        /\ Len(toBluez') = Len(toBluez) - 1 /\ toBluez' \in Seq(ToBluez)
        /\ UNCHANGED <<registered, exported>>
    BY <1>10, Taken DEF BluezRegisters
  <2>3. 1 = Len(toBluez) /\ ~registered /\ ~bluez.client
    BY <2>1, <2>2 DEF LifeInv, LifeCall
  <2>4. Len(toBluez') = 0 /\ toBluez' = <<>>
    <3>1. Len(toBluez') = Len(toBluez) - 1 /\ Len(toBluez) = 1
      BY <2>2, <2>3, Zenon
    <3>2. toBluez' \in Seq(ToBluez)
      BY <2>2
    <3>3. Len(toBluez') = 0
      BY <3>1
    <3> QED BY <3>2, <3>3, EmptyIsZero, Zenon
  <2>5. bluez'.shown = NoLevel
    BY <1>0, <1>10, <2>3 DEF BluezRegisters, BluezInv, BluezType
  <2>6. ~exported'
    BY <2>2, <2>3 DEF ObjectInv, OnlyLiveReadings
  <2>7. Shows(Announced)'
    BY <2>5, <2>6 DEF Shows, Announced
  <2> QED BY <2>4, <2>7 DEF Chain
<1>11. CASE UNCHANGED vars
  <2>1. bluez' = bluez /\ trouble' = trouble /\ toBluez' = toBluez
        /\ Announced' = Announced
    BY <1>11 DEF vars, busVars, providerVars, announced, Announced
  <2> QED BY <1>2, <2>1
<1>12. CASE DeviceRemoved
  <2>1. /\ bluez.client /\ "overtaken" \notin trouble
        /\ bluez'.shown = NoLevel
        /\ trouble \subseteq trouble' /\ (device # NoPath => Moved')
        /\ toBluez' = toBluez /\ Announced' = Announced
    BY <1>0, <1>12 DEF DeviceRemoved, Happens, Meets, Moved, providerVars,
       announced, Announced, BluezType
  <2>2. Chain /\ (exported => device # NoPath)
    BY <1>1, <2>1
  <2>3. device = NoPath => Unknown
    BY <2>1 DEF KnownInv
  <2>4. ASSUME NEW i \in 1..Len(toBluez) PROVE MessageOK(toBluez[i])'
    BY <2>1, <2>2, <2>3 DEF Chain, MessageOK, Unknown
  <2>5. toBluez' # <<>> => Fits(toBluez[1])'
    <3> SUFFICES ASSUME toBluez # <<>> PROVE Fits(toBluez[1])'
      BY <2>1
    <3>1. 1 \in 1..Len(toBluez)
      BY BusTypes, EmptyIsZero
    <3>2. MessageOK(toBluez[1]) /\ Fits(toBluez[1])
      BY <2>2, <3>1 DEF Chain
    <3> QED BY <2>1, <2>3, <3>1, <3>2 DEF Fits, Shows, MessageOK, Unknown
  <2>6. toBluez' = <<>> => Shows(Announced)'
    BY <2>1, <2>2 DEF Shows, Announced
  <2> QED BY <2>1, <2>2, <2>4, <2>5, <2>6 DEF Chain
<1> QED
  BY <1>3, <1>4, <1>5, <1>6, <1>7, <1>8, <1>9, <1>10, <1>11, <1>12
     DEF Next, Dispatched, Environment, BluezServes

\* The whole invariant is inductive.
LEMMA ProviderStep ==
    ASSUME TypeOK, ProviderInv, [Next]_vars
    PROVE  ProviderInv'
<1>1. TypeOK' /\ ObjectInv'
  BY TypeStep, ObjectStep DEF ProviderInv
<1>2. BluezInv' /\ NewsInv' /\ RegistrationInv' /\ LifeInv' /\ DeviceInv'
  BY BluezStep, NewsStep, RegistrationStep, LifeStep, DeviceStep DEF ProviderInv
<1>3. KnownInv'
  BY <1>1, KnownStep DEF ProviderInv
<1>4. ChainInv'
  BY <1>1, <1>2, ChainStep DEF ProviderInv
<1> QED BY <1>1, <1>2, <1>3, <1>4 DEF ProviderInv

\* It holds before anything has happened.
LEMMA ProviderStart ==
    ASSUME Init PROVE ProviderInv
<1>1. ObjectInv
  BY DEF Init, ObjectInv, OnlyLiveReadings
<1>2. BluezInv /\ ~bluez.client
  <2>1. CASE bluez \in NewBluez
    BY <2>1 DEF BluezInv, NewBluez
  <2>2. CASE bluez = NoBluez
    BY <2>2 DEF Init, BluezInv, NoBluez
  <2> QED BY <2>1, <2>2 DEF Init
<1>3. /\ Len(fromBluez) = 1 /\ Len(toBluez) = 0
      /\ fromBluez[1] = IF bluez.up THEN "appeared" ELSE "vanished"
      /\ ~registered /\ device = NoPath
  BY DEF Init
<1>4. NewsInv
  BY <1>3 DEF NewsInv, Later
<1>5. RegistrationInv
  BY <1>3 DEF RegistrationInv
<1>6. LifeInv
  BY <1>2, <1>3 DEF LifeInv, LifeQuiet, LifeAnswers, LifeCall, Registers
<1>7. DeviceInv
  BY <1>3 DEF DeviceInv
<1>8. KnownInv /\ ChainInv
  BY <1>2 DEF KnownInv, ChainInv
<1> QED BY <1>1, <1>2, <1>4, <1>5, <1>6, <1>7, <1>8 DEF ProviderInv

\* publish(), om_method_call(): once the bus is quiet, bluetoothd shows what the
\* provider announces and nothing else, in whatever order question, announcement,
\* change and withdrawal crossed.
THEOREM ShownCorrect == Spec => []ShownIsExported
<1>1. TypeOK /\ ProviderInv => ShownIsExported
  <2> SUFFICES ASSUME ProviderInv, Settled, bluez.client, "overtaken" \notin trouble
               PROVE  \/ bluez.shown = Announced
                      \/ Moved /\ bluez.shown = NoLevel
    BY DEF ShownIsExported, Announced
  <2> QED BY DEF ProviderInv, ChainInv, Chain, Settled, Shows
<1>2. Init => ProviderInv
  BY ProviderStart
<1>3. TypeOK /\ ProviderInv /\ [Next]_vars => ProviderInv'
  BY ProviderStep
<1> QED BY <1>1, <1>2, <1>3, ProviderTypeCorrect, PTL DEF Spec

\* on_register_done(), on_bluez_vanished(): once the bus is quiet, a provider
\* that believes it is registered is, however replies and restarts crossed.
THEOREM RegistrationCorrect == Spec => []RegistrationAgrees
<1>1. ProviderInv => RegistrationAgrees
  <2> SUFFICES ASSUME RegistrationInv, Settled, registered, "adapter" \notin trouble
               PROVE  bluez.client
    BY DEF RegistrationAgrees, ProviderInv
  <2>1. ~Has(fromBluez, "vanished")
    BY DEF Settled, Has
  <2> QED BY <2>1 DEF RegistrationInv
<1>2. Init => ProviderInv
  BY ProviderStart
<1>3. TypeOK /\ ProviderInv /\ [Next]_vars => ProviderInv'
  BY ProviderStep
<1> QED BY <1>1, <1>2, <1>3, ProviderTypeCorrect, PTL DEF Spec
=============================================================================
