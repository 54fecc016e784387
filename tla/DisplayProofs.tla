--------------------------- MODULE DisplayProofs ---------------------------
(***************************************************************************)
(* What the tile says of a reading, for every report and every age: the    *)
(* numbers are the pods', the age is honest and is never cut off, and the  *)
(* places that tell of it agree.                                           *)
(***************************************************************************)
EXTENDS Display, BatteryProofs, WellFoundedInduction

\* Math.round(a / b) of the code: off by half at most, and never less for more.
LEMMA RoundSixtieths ==
    ASSUME NEW a \in Nat
    PROVE  /\ Round(a, 60) \in Nat
           /\ 120 * Round(a, 60) <= 2 * a + 60
           /\ 2 * a < 120 * Round(a, 60) + 60
BY DEF Round

LEMMA RoundDays ==
    ASSUME NEW a \in Nat
    PROVE  /\ Round(a, 24) \in Nat
           /\ 48 * Round(a, 24) <= 2 * a + 24
           /\ 2 * a < 48 * Round(a, 24) + 24
BY DEF Round

\* The arithmetic of it: minutes, hours and days that were rounded one from the
\* other are off by half of each.
LEMMA RoundingAddsUp ==
    ASSUME NEW s \in Nat, NEW m \in Nat, NEW h \in Nat, NEW d \in Nat,
           120 * m <= 2 * s + 60, 2 * s < 120 * m + 60,
           120 * h <= 2 * m + 60, 2 * m < 120 * h + 60,
           48 * d <= 2 * h + 24, 2 * h < 48 * d + 24
    PROVE  /\ s >= 45 => m >= 1
           /\ m * 60 <= s + 30 /\ s <= m * 60 + 30
           /\ m >= 60 => h >= 1
           /\ h * 3600 <= s + 1830 /\ s <= h * 3600 + 1830
           /\ h >= 24 => d >= 1
           /\ d * 86400 <= s + 45030 /\ s <= d * 86400 + 45030
OBVIOUS

\* formatAge(): every age of a cached reading is named in the unit that fits it
\* and off by no more than the rounding of that unit and of those below it.
LEMMA FormatAgeHonest ==
    ASSUME NEW ms \in Nat
    PROVE  HonestWord(FormatAge(ms), ms \div 1000)
<1> DEFINE s == ms \div 1000
           m == Round(s, 60)
           h == Round(m, 60)
           d == Round(h, 24)
<1>1. s \in Nat
  OBVIOUS
<1>2. m \in Nat /\ 120 * m <= 2 * s + 60 /\ 2 * s < 120 * m + 60
  <2> HIDE DEF s
  <2> QED BY <1>1, RoundSixtieths
<1>3. h \in Nat /\ 120 * h <= 2 * m + 60 /\ 2 * m < 120 * h + 60
  <2> HIDE DEF m
  <2> QED BY <1>2, RoundSixtieths
<1>4. d \in Nat /\ 48 * d <= 2 * h + 24 /\ 2 * h < 48 * d + 24
  <2> HIDE DEF h
  <2> QED BY <1>3, RoundDays
<1>5. FormatAge(ms) = IF s < 45 THEN Word("just now", 0)
                      ELSE IF m < 60 THEN Word("min ago", m)
                      ELSE IF h < 24 THEN Word("hr ago", h)
                      ELSE Word("days ago", d)
  <2>1. ~(ms < 0)
    OBVIOUS
  <2> QED BY <2>1 DEF FormatAge
<1> HIDE DEF s, m, h, d
<1>6. /\ s >= 45 => m >= 1
      /\ m * 60 <= s + 30 /\ s <= m * 60 + 30
      /\ m >= 60 => h >= 1
      /\ h * 3600 <= s + 1830 /\ s <= h * 3600 + 1830
      /\ h >= 24 => d >= 1
      /\ d * 86400 <= s + 45030 /\ s <= d * 86400 + 45030
  BY <1>1, <1>2, <1>3, <1>4, RoundingAddsUp
<1>7. HonestWord(FormatAge(ms), s)
  <2>1. CASE s < 45
    <3>1. FormatAge(ms) = Word("just now", 0)
      BY <1>5, <2>1, Zenon
    <3>2. HonestWord(Word("just now", 0), s)
      BY <1>1, <2>1 DEF HonestWord, Word
    <3> QED BY <3>1, <3>2, Zenon
  <2>2. CASE s >= 45 /\ m < 60
    <3>1. m \in 1..59
      BY <1>2, <1>6, <2>2
    <3>2. ~(s < 45) /\ m < 60
      BY <1>1, <2>2
    <3>3. FormatAge(ms) = Word("min ago", m)
      BY <1>5, <3>2, Zenon
    <3>4. HonestWord(Word("min ago", m), s)
      <4>1. m * 60 <= s + 30 /\ s <= m * 60 + 30
        BY <1>6
      <4> QED BY <1>1, <3>1, <4>1
               DEF HonestWord, Word, Seconds, RoundingError
    <3> QED BY <3>3, <3>4, Zenon
  <2>3. CASE s >= 45 /\ m >= 60 /\ h < 24
    <3>1. h \in 1..23
      BY <1>3, <1>6, <2>3
    <3>2. ~(s < 45) /\ ~(m < 60) /\ h < 24
      BY <1>1, <1>2, <2>3
    <3>3. FormatAge(ms) = Word("hr ago", h)
      BY <1>5, <3>2, Zenon
    <3>4. HonestWord(Word("hr ago", h), s)
      <4>1. h * 3600 <= s + 1830 /\ s <= h * 3600 + 1830
        BY <1>6
      <4> QED BY <1>1, <3>1, <4>1
               DEF HonestWord, Word, Seconds, RoundingError
    <3> QED BY <3>3, <3>4, Zenon
  <2>4. CASE s >= 45 /\ m >= 60 /\ h >= 24
    <3>1. ~(s < 45) /\ ~(m < 60) /\ ~(h < 24)
      BY <1>1, <1>2, <1>3, <2>4
    <3>2. FormatAge(ms) = Word("days ago", d)
      BY <1>5, <3>1, Zenon
    <3>3. HonestWord(Word("days ago", d), s)
      <4>1. d * 86400 <= s + 45030 /\ s <= d * 86400 + 45030
        BY <1>6
      <4>2. d >= 1
        BY <1>3, <1>6, <2>4
      <4> QED BY <1>1, <1>4, <4>2, <4>1
               DEF HonestWord, Word, Seconds, RoundingError
    <3> QED BY <3>2, <3>3, Zenon
  <2> QED BY <1>1, <1>2, <1>3, <2>1, <2>2, <2>3, <2>4
<1> QED BY <1>7 DEF s

LEMMA DisplayTypes == DisplaySpec => []DisplayTypeOK
<1>1. DisplayInit => DisplayTypeOK
  <2> SUFFICES ASSUME DisplayInit PROVE DisplayTypeOK
    OBVIOUS
  <2>1. {present, arrived, open, listening} \subseteq BOOLEAN
    BY DEF DisplayInit
  <2>2. refusals \in Nat /\ ageMs \in Nat \cup {-1} /\ ageMs = -1
    BY DEF DisplayInit
  <2> QED BY <2>1, <2>2, Zenon DEF DisplayTypeOK
<1>2. DisplayTypeOK /\ [DisplayNext]_allVars => DisplayTypeOK'
  <2> SUFFICES ASSUME DisplayTypeOK, [DisplayNext]_allVars PROVE DisplayTypeOK'
    OBVIOUS
  <2> USE DisplayAssumption DEF DisplayTypeOK
  <2>1. CASE DaemonStarts
    BY <2>1 DEF DaemonStarts
  <2>2. CASE DaemonStops
    BY <2>2 DEF DaemonStops
  <2>3. CASE ChannelOpens
    BY <2>3 DEF ChannelOpens
  <2>4. CASE HandshakeEnds
    BY <2>4 DEF HandshakeEnds
  <2>5. CASE ChannelCloses
    BY <2>5 DEF ChannelCloses
  <2>6. CASE PacketTravels
    BY <2>6 DEF PacketTravels, displayVars
  <2>7. CASE PacketAccepted
    BY <2>7 DEF PacketAccepted
  <2>8. CASE PacketRefused
    BY <2>8 DEF PacketRefused
  <2>9. CASE AgeRead
    BY <2>9 DEF AgeRead
  <2>10. CASE PacketIgnored \/ UNCHANGED allVars
    BY <2>10 DEF PacketIgnored, allVars, displayVars
  <2> QED
    BY <2>1, <2>2, <2>3, <2>4, <2>5, <2>6, <2>7, <2>8, <2>9, <2>10
       DEF DisplayNext
<1> QED BY <1>1, <1>2, PTL DEF DisplaySpec

\* Whatever age is read for a reading, what the tile says of it is honest: not
\* only at the ages the runs draw it at.
THEOREM AgesAreHonest == DisplaySpec => []AgeIsHonest
<1>1. DisplayTypeOK => AgeIsHonest
  <2> SUFFICES ASSUME DisplayTypeOK, ageMs >= 0
               PROVE  HonestWord(FormatAge(ageMs), ageMs \div 1000)
    BY DEF AgeIsHonest
  <2>1. ageMs \in Nat
    BY DEF DisplayTypeOK
  <2> QED BY <2>1, FormatAgeHonest
<1> QED BY <1>1, DisplayTypes, PTL
-----------------------------------------------------------------------------
\* Whatever the age, and whether it is known, formatAge() says one of the words
\* that cast doubt.
LEMMA FormatAgeIsDoubt ==
    ASSUME NEW ms
    PROVE  FormatAge(ms).say \in AgeWords
BY DEF FormatAge, Word, AgeWords

\* levelText(): a pod has a number or a dash, never an age.
LEMMA LevelTextIsNoDoubt ==
    ASSUME NEW components, NEW c \in {Left, Right}
    PROVE  LevelText(components, c).say \in {"left", "right", "dash"}
BY DEF LevelText, ComponentName, Word, Left, Right, Case

\* What render() makes of a view, line by line.
LEMMA SubtitleCases ==
    ASSUME NEW v
    PROVE  /\ ~v.daemonPresent =>
                  Subtitle(v) = <<Word("airprobed not running", 0)>>
           /\ v.daemonPresent /\ v.channelOpen =>
                  \/ Subtitle(v) = Pods(v)
                  \/ \E w \in {"connecting", "no pod reading", "waiting"} :
                         Subtitle(v) = <<Word(w, 0)>>
           /\ v.daemonPresent /\ ~v.channelOpen /\ v.haveBattery =>
                  \/ Subtitle(v) = <<FormatAge(v.ageMs)>> \o Pods(v)
                  \/ Subtitle(v) = <<FormatAge(v.ageMs), Word("no pod reading", 0)>>
           /\ v.daemonPresent /\ ~v.channelOpen /\ ~v.haveBattery =>
                  Subtitle(v) = <<Word("not connected", 0)>>
<1>1. ~v.daemonPresent => Subtitle(v) = <<Word("airprobed not running", 0)>>
  BY DEF Subtitle
<1>2. ASSUME v.daemonPresent, v.channelOpen
      PROVE  \/ Subtitle(v) = Pods(v)
             \/ \E w \in {"connecting", "no pod reading", "waiting"} :
                    Subtitle(v) = <<Word(w, 0)>>
  <2>1. CASE v.haveBattery /\ AnyPodReading(v.components)
    <3>1. Subtitle(v) = <<>> \o Pods(v)
      BY <1>2, <2>1 DEF Subtitle
    <3>2. <<>> \o Pods(v) = Pods(v)
      BY DEF Pods
    <3> QED BY <3>1, <3>2
  <2>2. CASE ~(v.haveBattery /\ AnyPodReading(v.components))
    <3> DEFINE w == CASE v.phase # "listening"                   -> "connecting"
                      [] v.phase = "listening" /\ v.haveBattery  -> "no pod reading"
                      [] v.phase = "listening" /\ ~v.haveBattery -> "waiting"
    <3>1. Subtitle(v) = <<Word(w, 0)>>
      BY <1>2, <2>2 DEF Subtitle
    <3>2. w \in {"connecting", "no pod reading", "waiting"}
      OBVIOUS
    <3> HIDE DEF w
    <3> QED BY <3>1, <3>2
  <2> QED BY <2>1, <2>2
<1>3. ASSUME v.daemonPresent, ~v.channelOpen, v.haveBattery
      PROVE  \/ Subtitle(v) = <<FormatAge(v.ageMs)>> \o Pods(v)
             \/ Subtitle(v) = <<FormatAge(v.ageMs), Word("no pod reading", 0)>>
  BY <1>3 DEF Subtitle
<1>4. ASSUME v.daemonPresent, ~v.channelOpen, ~v.haveBattery
      PROVE  Subtitle(v) = <<Word("not connected", 0)>>
  BY <1>4 DEF Subtitle
<1> QED BY <1>1, <1>2, <1>3, <1>4

\* A line that begins with an age keeps it however short it is cut, unless
\* nothing is left of it.
LEMMA CutKeepsFirst ==
    ASSUME NEW S, NEW line \in Seq(S), NEW n \in 0..Len(line),
           line[1].say \in AgeWords,
           NEW what, Says(SubSeq(line, 1, n), what)
    PROVE  Says(SubSeq(line, 1, n), AgeWords)
<1> DEFINE kept == SubSeq(line, 1, n)
<1>1. DOMAIN kept = 1..n /\ \A i \in 1..n : kept[i] = line[i]
  OBVIOUS
<1> HIDE DEF kept
<1>2. PICK i \in DOMAIN kept : kept[i].say \in what
  BY Zenon DEF Says, kept
<1>3. 1 \in DOMAIN kept /\ kept[1] = line[1]
  BY <1>1, <1>2
<1>4. \E j \in DOMAIN kept : kept[j].say \in AgeWords
  BY <1>3
<1> QED BY <1>4, Zenon DEF Says, kept

\* A line of one word says what that word says, or nothing.
LEMMA OneWordSays ==
    ASSUME NEW word, NEW what, word.say \notin what, NEW n \in 0..Len(<<word>>)
    PROVE  ~Says(SubSeq(<<word>>, 1, n), what)
<1>1. n \in 0..1
  OBVIOUS
<1>2. \A i \in DOMAIN SubSeq(<<word>>, 1, n) : SubSeq(<<word>>, 1, n)[i] = word
  <2>1. CASE n = 0
    BY <2>1
  <2>2. CASE n = 1
    BY <2>2
  <2> QED BY <1>1, <2>1, <2>2
<1> QED BY <1>2, Zenon DEF Says

\* The tile's line: however short it is cut, a number of a closed channel is never
\* left without its age, whatever the numbers and the age are.
THEOREM DoubtIsFirst == DisplaySpec => []DoubtComesFirst
<1>1. DoubtComesFirst
  <2> SUFFICES ASSUME ~open,
                      NEW n \in 0..Len(Subtitle(View)),
                      Says(SubSeq(Subtitle(View), 1, n), {"left", "right"})
               PROVE  Says(SubSeq(Subtitle(View), 1, n), AgeWords)
    BY DEF DoubtComesFirst
  <2> DEFINE v == View
             line == Subtitle(v)
  <2>1. ~v.channelOpen
    BY DEF View
  <2> HIDE DEF v
  <2>2. CASE v.daemonPresent /\ v.haveBattery
    <3>1. \/ line = <<FormatAge(v.ageMs)>> \o Pods(v)
          \/ line = <<FormatAge(v.ageMs), Word("no pod reading", 0)>>
      BY <2>1, <2>2, SubtitleCases
    <3> HIDE DEF line
    <3> DEFINE age == FormatAge(v.ageMs)
               l == LevelText(v.components, Left)
               r == LevelText(v.components, Right)
               d == Word("no pod reading", 0)
    <3>2. Pods(v) = <<l, r>>
      BY DEF Pods
    <3>3. age.say \in AgeWords
      BY FormatAgeIsDoubt
    <3> HIDE DEF age, l, r, d
    <3>4. line = <<age>> \o <<l, r>> \/ line = <<age, d>>
      BY <3>1, <3>2, Zenon DEF age, d
    <3>5. line \in Seq({age, l, r, d}) /\ line[1] = age
      <4>1. CASE line = <<age>> \o <<l, r>>
        BY <4>1
      <4>2. CASE line = <<age, d>>
        BY <4>2
      <4> QED BY <3>4, <4>1, <4>2
    <3>6. n \in 0..Len(line) /\ Says(SubSeq(line, 1, n), {"left", "right"})
      BY DEF line, v
    <3>7. Says(SubSeq(line, 1, n), AgeWords)
      BY <3>3, <3>5, <3>6, CutKeepsFirst
    <3> QED BY <3>7 DEF line, v
  <2>3. CASE ~(v.daemonPresent /\ v.haveBattery)
    <3>1. \E w \in {"airprobed not running", "not connected"} :
              line = <<Word(w, 0)>>
      BY <2>1, <2>3, SubtitleCases
    <3> HIDE DEF line
    <3>2. PICK w \in {"airprobed not running", "not connected"} :
              line = <<Word(w, 0)>>
      BY <3>1
    <3> DEFINE word == Word(w, 0)
    <3>3. word.say \notin {"left", "right"}
      BY DEF Word
    <3> HIDE DEF word
    <3>4. line = <<word>>
      BY <3>2 DEF word
    <3>5. n \in 0..Len(line) /\ Says(SubSeq(line, 1, n), {"left", "right"})
      BY DEF line, v
    <3>6. n \in 0..Len(<<word>>) /\ Says(SubSeq(<<word>>, 1, n), {"left", "right"})
      BY <3>4, <3>5, Zenon
    <3>7. FALSE
      BY <3>3, <3>6, OneWordSays
    <3> QED BY <3>7
  <2> QED BY <2>2, <2>3
<1> QED BY <1>1, PTL

\* A reading ages on the tile's line exactly when the daemon is there, holds it,
\* and has no channel.
LEMMA TileAges ==
    ASSUME NEW v, v.daemonPresent \in BOOLEAN, v.channelOpen \in BOOLEAN,
           v.haveBattery \in BOOLEAN
    PROVE  Says(Subtitle(v), AgeWords)
               <=> v.daemonPresent /\ v.haveBattery /\ ~v.channelOpen
<1> DEFINE line == Subtitle(v)
           age == FormatAge(v.ageMs)
           l == LevelText(v.components, Left)
           r == LevelText(v.components, Right)
           d == Word("no pod reading", 0)
<1>1. Pods(v) = <<l, r>>
  BY DEF Pods
<1>2. /\ age.say \in AgeWords /\ d.say \notin AgeWords
      /\ l.say \notin AgeWords /\ r.say \notin AgeWords
  BY FormatAgeIsDoubt, LevelTextIsNoDoubt DEF Word, AgeWords
<1>3. \A w \in {"airprobed not running", "connecting", "no pod reading", "waiting",
                "not connected"} : ~Says(<<Word(w, 0)>>, AgeWords)
  <2>1. \A w : w \notin AgeWords => ~Says(<<Word(w, 0)>>, AgeWords)
    BY DEF Says, Word
  <2> QED BY <2>1 DEF AgeWords
<1>4. CASE ~v.daemonPresent
  BY <1>3, <1>4, SubtitleCases
<1>5. CASE v.daemonPresent /\ v.channelOpen
  <2>1. CASE line = Pods(v)
    <3> HIDE DEF l, r, age, d
    <3>1. ~Says(<<l, r>>, AgeWords)
      BY <1>2 DEF Says
    <3> QED BY <1>1, <1>5, <2>1, <3>1
  <2>2. CASE \E w \in {"connecting", "no pod reading", "waiting"} :
                 line = <<Word(w, 0)>>
    <3>1. PICK w \in {"connecting", "no pod reading", "waiting"} :
                 line = <<Word(w, 0)>>
      BY <2>2
    <3>2. ~Says(<<Word(w, 0)>>, AgeWords)
      BY <1>3
    <3> QED BY <1>5, <3>1, <3>2
  <2> QED BY <1>5, <2>1, <2>2, SubtitleCases
<1>6. CASE v.daemonPresent /\ ~v.channelOpen /\ v.haveBattery
  <2>1. line = <<age>> \o <<l, r>> \/ line = <<age, d>>
    <3>1. line = <<age>> \o Pods(v) \/ line = <<age, d>>
      BY <1>6, SubtitleCases
    <3> QED BY <1>1, <3>1, Zenon
  <2> HIDE DEF line, age, l, r, d
  <2>2. 1 \in DOMAIN line /\ line[1] = age
    <3>1. CASE line = <<age>> \o <<l, r>>
      BY <3>1
    <3>2. CASE line = <<age, d>>
      BY <3>2
    <3> QED BY <2>1, <3>1, <3>2
  <2>3. Says(line, AgeWords)
    BY <1>2, <2>2, Zenon DEF Says
  <2> QED BY <1>6, <2>3 DEF line
<1>7. CASE v.daemonPresent /\ ~v.channelOpen /\ ~v.haveBattery
  BY <1>3, <1>7, SubtitleCases
<1> QED BY <1>4, <1>5, <1>6, <1>7

\* The menu's line says so in the same states.
LEMMA HeaderAges ==
    ASSUME NEW v, v.daemonPresent \in BOOLEAN, v.channelOpen \in BOOLEAN,
           v.haveBattery \in BOOLEAN
    PROVE  Says(HeaderSubtitle(v), AgeWords)
               <=> v.daemonPresent /\ v.haveBattery /\ ~v.channelOpen
<1> DEFINE age == FormatAge(v.ageMs)
           status == Word("status", 0)
           reading == Word("last reading", 0)
           absent == Word("not on the bus", 0)
<1>1. /\ age.say \in AgeWords /\ status.say \notin AgeWords
      /\ reading.say \notin AgeWords /\ absent.say \notin AgeWords
  BY FormatAgeIsDoubt DEF Word, AgeWords
<1>2. HeaderSubtitle(v) =
          IF ~v.daemonPresent THEN <<absent>>
          ELSE (IF v.haveBattery /\ ~v.channelOpen THEN <<reading, age>> ELSE <<>>)
               \o <<status>>
  BY DEF HeaderSubtitle
<1> HIDE DEF age, status, reading, absent
<1>3. CASE ~v.daemonPresent
  <2>1. ~Says(<<absent>>, AgeWords)
    BY <1>1 DEF Says
  <2> QED BY <1>2, <1>3, <2>1
<1>4. CASE v.daemonPresent /\ v.haveBattery /\ ~v.channelOpen
  <2>1. HeaderSubtitle(v) = <<reading, age>> \o <<status>>
    BY <1>2, <1>4
  <2> DEFINE line == <<reading, age>> \o <<status>>
  <2>2. 2 \in DOMAIN line /\ line[2] = age
    OBVIOUS
  <2> HIDE DEF line
  <2>3. Says(line, AgeWords)
    BY <1>1, <2>2, Zenon DEF Says
  <2> QED BY <1>4, <2>1, <2>3 DEF line
<1>5. CASE v.daemonPresent /\ ~(v.haveBattery /\ ~v.channelOpen)
  <2>1. HeaderSubtitle(v) = <<>> \o <<status>>
    BY <1>2, <1>5
  <2>2. <<>> \o <<status>> = <<status>>
    OBVIOUS
  <2>3. ~Says(<<status>>, AgeWords)
    BY <1>1 DEF Says
  <2> QED BY <1>5, <2>1, <2>2, <2>3
<1> QED BY <1>3, <1>4, <1>5

\* The words of a warning are there exactly when there is something to warn of.
LEMMA WarningHasWords ==
    ASSUME NEW v
    PROVE  WarningText(v) # <<>> <=> (v.parseRefusals > 0 \/ Odd(v) # {})
<1> DEFINE a == Word("refused", v.parseRefusals)
           b == Word("unexpected framing", Odd(v))
           P == v.parseRefusals > 0
           Q == Odd(v) # {}
<1>1. WarningText(v) = (IF P THEN <<a>> ELSE <<>>) \o (IF Q THEN <<b>> ELSE <<>>)
  BY DEF WarningText
<1> HIDE DEF a, b, P, Q
<1>2. /\ <<a>> \o <<b>> # <<>> /\ <<a>> \o <<>> # <<>>
      /\ <<>> \o <<b>> # <<>> /\ <<>> \o <<>> = <<>>
  OBVIOUS
<1>3. WarningText(v) # <<>> <=> (P \/ Q)
  BY <1>1, <1>2
<1> QED BY <1>3 DEF P, Q

\* The four places that decide whether the reading is ageing agree in every state,
\* for every report, age and number of refusals, and so do the two that decide
\* whether there is a warning.
THEOREM AgreeingPlaces == DisplaySpec => []PlacesAgree
<1>1. DisplayTypeOK => PlacesAgree
  <2> SUFFICES ASSUME DisplayTypeOK PROVE PlacesAgree
    OBVIOUS
  <2> DEFINE v == View
  <2>1. /\ v.daemonPresent = present /\ v.channelOpen = open
        /\ v.haveBattery = (last # Refused)
    BY DEF View
  <2>2. v.daemonPresent \in BOOLEAN /\ v.channelOpen \in BOOLEAN
        /\ v.haveBattery \in BOOLEAN
    BY <2>1 DEF DisplayTypeOK
  <2> HIDE DEF v
  <2>3. Says(Subtitle(v), AgeWords)
            <=> v.daemonPresent /\ v.haveBattery /\ ~v.channelOpen
    BY <2>2, TileAges
  <2>4. Says(HeaderSubtitle(v), AgeWords)
            <=> v.daemonPresent /\ v.haveBattery /\ ~v.channelOpen
    BY <2>2, HeaderAges
  <2>5. HasWarning(v) <=> present /\ WarningText(v) # <<>>
    BY <2>1, WarningHasWords, Zenon DEF HasWarning
  <2>6. NeedsTimer(v) <=> v.daemonPresent /\ v.haveBattery /\ ~v.channelOpen
    BY DEF NeedsTimer
  <2>7. Says(Subtitle(v), AgeWords) => ~Checked(v)
    BY <2>3, Zenon DEF Checked
  <2> QED BY <2>3, <2>4, <2>5, <2>6, <2>7, Zenon DEF PlacesAgree, v
<1> QED BY <1>1, DisplayTypes, PTL

-----------------------------------------------------------------------------
\* The inductive invariant of the numbers.  A channel and a reading need a daemon,
\* and the reading is what the parser made of the packet that arrived, which does
\* not change any more.
ReadingInv ==
    /\ PacketInv
    /\ {present, arrived, open} \subseteq BOOLEAN
    /\ open => present
    /\ last # Refused => present /\ arrived /\ last = ParseBattery(packet)

LEMMA ReadingInvariant == DisplaySpec => []ReadingInv
<1>1. DisplayInit => ReadingInv
  <2> SUFFICES ASSUME DisplayInit PROVE ReadingInv
    OBVIOUS
  <2>1. PacketInv
    BY PacketInit DEF DisplayInit
  <2> QED BY <2>1 DEF DisplayInit, ReadingInv
<1>2. ReadingInv /\ [DisplayNext]_allVars => ReadingInv'
  <2> SUFFICES ASSUME ReadingInv, [DisplayNext]_allVars PROVE ReadingInv'
    OBVIOUS
  <2>1. ASSUME UNCHANGED vars PROVE PacketInv'
    BY <2>1, PacketStep DEF ReadingInv
  <2>2. ASSUME UNCHANGED vars PROVE ParseBattery(packet)' = ParseBattery(packet)
    BY <2>2, Zenon DEF vars
  <2>3. CASE DaemonStarts
    BY <2>1, <2>2, <2>3, Zenon DEF DaemonStarts, ReadingInv
  <2>4. CASE DaemonStops
    BY <2>1, <2>2, <2>4, Zenon DEF DaemonStops, ReadingInv
  <2>5. CASE ChannelOpens
    BY <2>1, <2>2, <2>5, Zenon DEF ChannelOpens, ReadingInv
  <2>6. CASE HandshakeEnds
    BY <2>1, <2>2, <2>6, Zenon DEF HandshakeEnds, ReadingInv
  <2>7. CASE ChannelCloses
    BY <2>1, <2>2, <2>7, Zenon DEF ChannelCloses, ReadingInv
  <2>8. CASE PacketTravels
    <3>1. ~arrived /\ UNCHANGED displayVars /\ Next
      BY <2>8 DEF PacketTravels
    <3>2. PacketInv'
      BY <3>1, PacketStep DEF ReadingInv
    <3>3. last = Refused
      BY <3>1 DEF ReadingInv
    <3> QED BY <3>1, <3>2, <3>3, Zenon DEF displayVars, ReadingInv
  <2>9. CASE PacketAccepted
    BY <2>1, <2>2, <2>9, Zenon DEF PacketAccepted, ReadingInv
  <2>10. CASE PacketRefused \/ PacketIgnored
    <3>0. UNCHANGED <<present, arrived, open, last>>
      BY <2>10 DEF PacketRefused, PacketIgnored, displayVars
    <3>1. CASE UNCHANGED vars
      BY <2>1, <2>2, <3>0, <3>1, Zenon DEF ReadingInv
    <3>2. CASE ~arrived /\ Dropped
      <4>1. PacketInv'
        BY <3>2, EmptyComposed, Bounds DEF PacketInv, Dropped
      <4>2. last = Refused
        BY <3>2 DEF ReadingInv
      <4> QED BY <3>0, <4>1, <4>2, Zenon DEF ReadingInv
    <3> QED BY <2>10, <3>1, <3>2 DEF PacketRefused, PacketIgnored
  <2>11. CASE AgeRead
    BY <2>1, <2>2, <2>11, Zenon DEF AgeRead, ReadingInv
  <2>12. CASE UNCHANGED allVars
    BY <2>1, <2>2, <2>12, Zenon DEF allVars, displayVars, ReadingInv
  <2> QED
    BY <2>3, <2>4, <2>5, <2>6, <2>7, <2>8, <2>9, <2>10, <2>11, <2>12
       DEF DisplayNext
<1> QED BY <1>1, <1>2, PTL DEF DisplaySpec

\* parse_battery() under the daemon: an intact packet gives all of the components
\* that were sent or nothing.
THEOREM ReportsAreWhole == DisplaySpec => []WholeReportOrNone
<1>1. ReadingInv => WholeReportOrNone
  BY PacketReport DEF ReadingInv
<1> QED BY <1>1, ReadingInvariant, PTL

\* parse_battery() under the daemon: a packet whose length, count or header was
\* changed is refused.
THEOREM DamageRefused == DisplaySpec => []DamageIsRefused
<1>1. ReadingInv => DamageIsRefused
  BY PacketReport DEF ReadingInv
<1> QED BY <1>1, ReadingInvariant, PTL

-----------------------------------------------------------------------------
\* Of the blocks of a report that name a component, one is the last.
LEMMA LastOfThem ==
    ASSUME NEW n \in Nat, NEW T, T \subseteq 1..n, T # {}
    PROVE  \E i \in T : \A j \in T : j <= i
<1> DEFINE Back == {n - i : i \in T}
           R == OpToRel(<, Nat)
<1>1. Back \subseteq Nat /\ Back # {}
  <2>1. \A i \in T : n - i \in Nat
    OBVIOUS
  <2>2. PICK i \in T : TRUE
    OBVIOUS
  <2>3. n - i \in Back
    BY <2>2, Zenon
  <2> QED BY <2>1, <2>3
<1>2. PICK x \in Back : \A y \in Back : ~(<<y, x>> \in R)
  <2> HIDE DEF Back, R
  <2>1. IsWellFoundedOn(R, Nat)
    BY NatLessThanWellFounded DEF R
  <2> QED BY <1>1, <2>1, WFMin
<1>3. \A y \in Back : ~(y < x)
  <2> TAKE y \in Back
  <2>1. x \in Nat /\ y \in Nat
    BY <1>1
  <2>2. ~(<<y, x>> \in R)
    BY <1>2
  <2> HIDE DEF Back
  <2> QED BY <2>1, <2>2 DEF OpToRel
<1>4. PICK i \in T : x = n - i
  OBVIOUS
<1>5. \A j \in T : ~(n - j < n - i)
  BY <1>3, <1>4
<1> QED BY <1>5

\* The level of a component crosses the bus as it is, and a level that is not
\* known has no key and comes back as none.
LEMMA LevelCrosses ==
    ASSUME NEW B, NEW c
    PROVE  LET C == ComponentsFromDbus(ComponentsVariant(B))
           IN  /\ HasLevel(C, c) <=> c \in DOMAIN B /\ B[c].level # NoLevel
               /\ c \in DOMAIN B => C[c].level = B[c].level
<1> DEFINE C == ComponentsFromDbus(ComponentsVariant(B))
<1>1. DOMAIN C = DOMAIN B
  BY DEF ComponentsFromDbus, ComponentsVariant
<1>2. ASSUME c \in DOMAIN B
      PROVE  C[c].level = B[c].level
  <2> DEFINE d == Dictionary(B[c])
  <2>1. C[c] = FromDictionary(d)
    BY <1>2 DEF ComponentsFromDbus, ComponentsVariant
  <2> HIDE DEF C
  <2>2. C[c].level = IF "Level" \in DOMAIN d THEN d["Level"] ELSE NoLevel
    BY <2>1 DEF FromDictionary
  <2>3. "Level" \in DOMAIN d <=> B[c].level # NoLevel
    BY DEF Dictionary, Restrict
  <2>4. B[c].level # NoLevel => d["Level"] = B[c].level
    BY DEF Dictionary, Restrict
  <2> HIDE DEF d
  <2> QED BY <2>2, <2>3, <2>4
<1> HIDE DEF C
<1>3. HasLevel(C, c) <=> c \in DOMAIN B /\ B[c].level # NoLevel
  BY <1>1, <1>2, Zenon DEF HasLevel
<1> QED BY <1>2, <1>3 DEF C

\* The last block of report s that names component c is believable, and says n.
LastSays(s, c, n) ==
    \E i \in DOMAIN s :
        /\ s[i][1] = c /\ s[i][3] = n
        /\ s[i][3] <= 100 /\ s[i][4] # Disconnected
        /\ \A j \in DOMAIN s : s[j][1] = c => j <= i

\* snapshot(): the level of a component on the bus is that of the last block that
\* names it.
LEMMA LevelOnBus ==
    ASSUME NEW s \in Seq(Blocks), NEW c, NEW n \in Byte,
           NEW r, DOMAIN r = 1..Len(s), \A i \in 1..Len(s) : r[i] = ComponentOf(s[i]),
           NEW B, B = BusComponents(r)
    PROVE  (c \in DOMAIN B /\ B[c].level # NoLevel /\ B[c].level = n)
               <=> LastSays(s, c, n)
<1> DEFINE IsLast(i) == i \in 1..Len(s) /\ s[i][1] = c
                        /\ \A j \in 1..Len(s) : s[j][1] = c => j <= i
           k == CHOOSE i \in DOMAIN r :
                    /\ r[i].component = c
                    /\ \A j \in DOMAIN r : r[j].component = c => j <= i
<1>1. Len(s) \in Nat /\ DOMAIN s = 1..Len(s)
  OBVIOUS
<1>2. DOMAIN r = 1..Len(s) /\ \A i \in 1..Len(s) : r[i] = ComponentOf(s[i])
  BY Zenon
<1>3. \A i \in 1..Len(s) : /\ r[i].component = s[i][1]
                           /\ r[i].level = LevelOf(s[i][3], s[i][4])
  <2> TAKE i \in 1..Len(s)
  <2>1. r[i] = ComponentOf(s[i])
    BY <1>2
  <2>2. \A b : /\ ComponentOf(b).component = b[1]
               /\ ComponentOf(b).level = LevelOf(b[3], b[4])
    BY DEF ComponentOf
  <2> QED BY <2>1, <2>2, Zenon
<1>4. DOMAIN B = {r[i].component : i \in DOMAIN r}
  BY Zenon DEF BusComponents
<1>5. ASSUME c \in DOMAIN B PROVE B[c].level = r[k].level
  BY <1>5 DEF BusComponents
<1>6. c \in DOMAIN B <=> \E i \in 1..Len(s) : s[i][1] = c
  <2>1. ASSUME c \in DOMAIN B PROVE \E i \in 1..Len(s) : s[i][1] = c
    <3>1. PICK i \in DOMAIN r : c = r[i].component
      BY <1>4, <2>1, Zenon
    <3> QED BY <1>2, <1>3, <3>1, Zenon
  <2>2. ASSUME NEW i \in 1..Len(s), s[i][1] = c PROVE c \in DOMAIN B
    <3>1. i \in DOMAIN r /\ r[i].component = c
      BY <1>2, <1>3, <2>2, Zenon
    <3> QED BY <1>4, <3>1, Zenon
  <2> QED BY <2>1, <2>2, Zenon
<1>7. ASSUME NEW i, IsLast(i) PROVE k = i
  <2>1. \A j : (j \in DOMAIN r /\ r[j].component = c
                /\ \A l \in DOMAIN r : r[l].component = c => l <= j) <=> IsLast(j)
    BY <1>2, <1>3, Zenon
  <2>2. IsLast(k)
    BY <1>7, <2>1, Zenon
  <2> HIDE DEF k
  <2>3. k <= i /\ i <= k /\ k \in Nat /\ i \in Nat
    BY <1>1, <1>7, <2>2
  <2> QED BY <2>3
<1>8. ASSUME c \in DOMAIN B PROVE \E i : IsLast(i)
  <2> DEFINE T == {i \in 1..Len(s) : s[i][1] = c}
  <2>1. T # {} /\ T \subseteq 1..Len(s)
    BY <1>6, <1>8
  <2>2. PICK i \in T : \A j \in T : j <= i
    <3> HIDE DEF T
    <3> QED BY <1>1, <2>1, LastOfThem
  <2> QED BY <2>2
<1>9. ASSUME NEW i, IsLast(i)
      PROVE  c \in DOMAIN B /\ B[c].level = LevelOf(s[i][3], s[i][4])
  BY <1>3, <1>5, <1>6, <1>7, <1>9, Zenon
<1>10. \A i \in 1..Len(s) :
           (LevelOf(s[i][3], s[i][4]) # NoLevel /\ LevelOf(s[i][3], s[i][4]) = n)
               <=> s[i][3] = n /\ s[i][3] <= 100 /\ s[i][4] # Disconnected
  <2> TAKE i \in 1..Len(s)
  <2>1. n # NoLevel
    BY BatteryAssumption, Zenon
  <2> QED BY <2>1, Zenon DEF LevelOf
<1>11. ASSUME c \in DOMAIN B, B[c].level # NoLevel, B[c].level = n
       PROVE  LastSays(s, c, n)
  <2>1. PICK i : IsLast(i)
    BY <1>8, <1>11
  <2> QED BY <1>1, <1>9, <1>10, <1>11, <2>1, Zenon DEF LastSays
<1>12. ASSUME NEW i \in DOMAIN s, s[i][1] = c, s[i][3] = n,
              s[i][3] <= 100, s[i][4] # Disconnected,
              \A j \in DOMAIN s : s[j][1] = c => j <= i
       PROVE  c \in DOMAIN B /\ B[c].level # NoLevel /\ B[c].level = n
  <2>1. IsLast(i)
    BY <1>1, <1>12, Zenon
  <2> QED BY <1>9, <1>10, <1>12, <2>1, Zenon
<1> QED BY <1>11, <1>12, Zenon DEF LastSays

\* A number beside a pod's name is in the line of a reading exactly when it is the
\* level that the tile holds of that pod.
LEMMA NumberInLine ==
    ASSUME NEW v, v.daemonPresent, v.haveBattery, AnyPodReading(v.components),
           NEW c \in {Left, Right}, NEW n
    PROVE  Word(ComponentName(c), n) \in Range(Subtitle(v))
               <=> HasLevel(v.components, c) /\ v.components[c].level = n
<1> DEFINE l == LevelText(v.components, Left)
           r == LevelText(v.components, Right)
           age == FormatAge(v.ageMs)
           word == Word(ComponentName(c), n)
<1>1. Subtitle(v) = (IF v.channelOpen THEN <<>> ELSE <<age>>) \o <<l, r>>
  BY DEF Subtitle, Pods
<1>2. word # age
  <2>1. age.say \in AgeWords
    BY FormatAgeIsDoubt
  <2>2. word.say \in {"left", "right"}
    BY DEF Word, ComponentName, Left, Right, Case
  <2> HIDE DEF age, word
  <2> QED BY <2>1, <2>2 DEF AgeWords
<1>3. (word = l \/ word = r) <=> HasLevel(v.components, c) /\ v.components[c].level = n
  <2> DEFINE C == v.components
  <2> HIDE DEF C
  <2>1. \A d \in {Left, Right} : \A m : Word(ComponentName(d), m) # Word("dash", 0)
    BY DEF Word, ComponentName, Left, Right, Case
  <2>2. \A d \in {Left, Right}, e \in {Left, Right} : \A m, k :
            Word(ComponentName(d), m) = Word(ComponentName(e), k) <=> d = e /\ m = k
    BY DEF Word, ComponentName, Left, Right, Case
  <2>3. \A d \in {Left, Right} :
            word = LevelText(C, d) <=> c = d /\ HasLevel(C, d) /\ n = C[d].level
    BY <2>1, <2>2 DEF LevelText
  <2> QED BY <2>3, Zenon DEF C
<1> HIDE DEF l, r, age, word
<1>4. Range(<<>> \o <<l, r>>) = {l, r}
  BY DEF Range
<1>5. Range(<<age>> \o <<l, r>>) = {age, l, r}
  BY DEF Range
<1>6. word \in Range(Subtitle(v)) <=> (word = l \/ word = r)
  <2>1. CASE v.channelOpen
    <3>1. Subtitle(v) = <<>> \o <<l, r>>
      BY <1>1, <2>1
    <3> QED BY <1>4, <3>1
  <2>2. CASE ~v.channelOpen
    <3>1. Subtitle(v) = <<age>> \o <<l, r>>
      BY <1>1, <2>2
    <3> QED BY <1>2, <1>5, <3>1
  <2> QED BY <2>1, <2>2
<1> QED BY <1>3, <1>6 DEF word

\* From the bytes to the words, for every report and every byte: a number beside a
\* pod is what the last block naming that pod says, and a pod without a number is
\* one the report says nothing believable of.
THEOREM NumbersAreTrue == DisplaySpec => []NumbersAreThePods
<1>1. ReadingInv => NumbersAreThePods
  <2> SUFFICES ASSUME ReadingInv, last # Refused, AnyPodReading(View.components),
                      NEW c \in {Left, Right}, NEW n \in LevelBytes
               PROVE  Word(ComponentName(c), n) \in Range(Subtitle(View))
                          <=> PodsSaid(c, n)
    BY DEF NumbersAreThePods
  <2> DEFINE v == View
             B == BusComponents(last)
  <2>1. /\ v.daemonPresent /\ v.haveBattery
        /\ v.components = ComponentsFromDbus(ComponentsVariant(B))
    BY DEF View, ReadingInv
  <2>2. AnyPodReading(v.components)
    OBVIOUS
  <2>3. n \in Byte
    BY BatteryAssumption, Zenon
  <2>4. /\ intact /\ sent \in Seq(Blocks) /\ Len(sent) <= MaxBlocks
        /\ packet \in Seq(Nat) /\ Composed(packet, sent)
    BY DEF ReadingInv, PacketInv
  <2>5. last = [i \in 1..Len(sent) |-> ComponentOf(sent[i])]
    <3>1. last = ParseBattery(packet)
      BY DEF ReadingInv
    <3> QED BY <2>4, <3>1, ParseComposed
  <2> HIDE DEF v
  <2>6. Word(ComponentName(c), n) \in Range(Subtitle(v))
            <=> HasLevel(v.components, c) /\ v.components[c].level = n
    BY <2>1, <2>2, NumberInLine
  <2>7. (HasLevel(v.components, c) /\ v.components[c].level = n)
            <=> c \in DOMAIN B /\ B[c].level # NoLevel /\ B[c].level = n
    <3> HIDE DEF B
    <3> DEFINE C == ComponentsFromDbus(ComponentsVariant(B))
    <3>1. /\ HasLevel(C, c) <=> c \in DOMAIN B /\ B[c].level # NoLevel
          /\ c \in DOMAIN B => C[c].level = B[c].level
      BY LevelCrosses
    <3>2. v.components = C
      BY <2>1
    <3> HIDE DEF C
    <3> QED BY <3>1, <3>2, Zenon
  <2>8. (c \in DOMAIN B /\ B[c].level # NoLevel /\ B[c].level = n) <=> PodsSaid(c, n)
    <3>1. (c \in DOMAIN B /\ B[c].level # NoLevel /\ B[c].level = n)
              <=> LastSays(sent, c, n)
      <4>1. B = BusComponents(last)
        OBVIOUS
      <4>2. /\ DOMAIN last = 1..Len(sent)
            /\ \A i \in 1..Len(sent) : last[i] = ComponentOf(sent[i])
        BY <2>5, Zenon
      <4> HIDE DEF B
      <4> QED BY <2>3, <2>4, <4>1, <4>2, LevelOnBus
    <3> QED BY <3>1, Zenon DEF PodsSaid, LastSays
  <2> QED BY <2>6, <2>7, <2>8, Zenon DEF v
<1> QED BY <1>1, ReadingInvariant, PTL

=============================================================================
