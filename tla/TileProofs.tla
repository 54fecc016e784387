----------------------------- MODULE TileProofs -----------------------------
(***************************************************************************)
(* What the tile draws and what destroy() leaves behind, for every set of  *)
(* readings, any number of restarts of the daemon, any length of the bus   *)
(* and any number of calls under way.                                      *)
(***************************************************************************)
EXTENDS Tile, SequenceTheorems, TLAPS

USE ServiceAssumption, TileAssumption

-----------------------------------------------------------------------------
(***************************************************************************)
(* The inductive invariant.                                                *)
(***************************************************************************)
Messages ==
    [kind : {"appeared", "vanished"}]
        \cup [kind : {"changed", "proxy", "reload", "reloadLost"}, props : Partial]
        \cup [kind : {"age"}, ageOf : Readings \cup {NoReading}]

\* The daemon owns the name only with its object exported and its state
\* published, and what it serves is what the pump published last.
ServiceInv ==
    /\ owned => exported
    /\ exported => running
    /\ running => published
    /\ state.open = feed.open /\ state.battery = feed.battery

\* Does m replace property f of the proxy, or, for the battery, clear it?
Sets(m, f) ==
    m.kind \in {"proxy", "reload"} \/ (m.kind = "changed" /\ f \in DOMAIN m.props)
Clears(m) == m.kind = "vanished" \/ Sets(m, "battery")

\* The reading that m brings, and the one that a proxy q has.
Brought(m) ==
    IF m.kind # "vanished" /\ "battery" \in DOMAIN m.props
    THEN m.props["battery"] ELSE NoReading
Kept(q) ==
    IF q # NoProxy /\ "battery" \in DOMAIN q THEN q["battery"] ELSE NoReading

\* When the messages of b before the i-th have been received, a proxy that is
\* now q shows no reading or a.
ShowsAt(q, b, i, a) ==
    /\ (\A k \in 1..(i - 1) : ~Clears(b[k])) => Kept(q) \in {NoReading, a}
    /\ \A j \in 1..(i - 1) :
          Clears(b[j]) /\ (\A k \in (j + 1)..(i - 1) : ~Clears(b[k]))
            => Brought(b[j]) \in {NoReading, a}

\* The answer to a Get finds the proxy with the reading it is the age of; and
\* so would the answer to the next one.
AgesInv ==
    ~destroyed =>
        /\ \A i \in 1..Len(bus) :
              bus[i].kind = "age" /\ bus[i].ageOf # NoReading
                => ShowsAt(proxy, bus, i, bus[i].ageOf)
        /\ ShowsAt(proxy, bus, Len(bus) + 1,
                   IF owned THEN feed.battery ELSE NoReading)

Has(b, k) == \E i \in 1..Len(b) : b[i].kind = k
Asked(c, x) == \E i \in 1..Len(c) : c[i] = x

\* The name that is owned has been announced after the last time it vanished.
NameInv ==
    owned => \A i \in 1..Len(bus) :
                bus[i].kind = "vanished" =>
                    \E j \in (i + 1)..Len(bus) : bus[j].kind = "appeared"

\* A proxy q follows the messages of b, or will when they are received.
Alive(q, b) == q # NoProxy \/ Has(b, "proxy")

\* The last message of b that sets f brings v to a proxy, or there is none and
\* the proxy has it.
Brings(q, b, f, v) ==
    \/ \E i \in 1..Len(b) :
          /\ Sets(b[i], f) /\ f \in DOMAIN b[i].props /\ b[i].props[f] = v
          /\ \A k \in (i + 1)..Len(b) : ~Sets(b[k], f)
          /\ q # NoProxy \/ \E j \in 1..i : b[j].kind = "proxy"
    \/ /\ \A k \in 1..Len(b) : ~Sets(b[k], f)
       /\ q # NoProxy /\ f \in DOMAIN q /\ q[f] = v

Drawn == {"open", "battery"}

\* Once the name's appearance has been received there is a call that will fetch
\* the state, or the messages on their way lead to it.
ProxyInv ==
    owned /\ ~destroyed /\ ~Has(bus, "appeared") =>
        \/ Asked(calls, "new")
        \/ Alive(proxy, bus) /\ Asked(calls, "reload")
        \/ Alive(proxy, bus) /\ \A f \in Drawn : Brings(proxy, bus, f, state[f])

\* Whatever the proxy has is drawn, or a Get whose answer will draw it is under
\* way.
CachedNow(name) ==
    IF proxy # NoProxy /\ name \in DOMAIN proxy THEN proxy[name] ELSE Fallback[name]

ViewInv ==
    ~destroyed /\ proxy # NoProxy =>
        \/ Asked(calls, "get") \/ held > 0 \/ Has(bus, "age")
        \/ /\ view.present
           /\ view.open = CachedNow("open")
           /\ view.battery = CachedNow("battery")

-----------------------------------------------------------------------------
(***************************************************************************)
(* Parts of a State.                                                       *)
(***************************************************************************)
LEMMA PropertyNames == Properties = {"open", "battery", "words"}
BY DEF Properties, DefaultState

LEMMA PartialIs ==
    ASSUME NEW q
    PROVE  q \in Partial <=> \E S \in SUBSET Properties, s \in States :
                                q = [p \in S |-> s[p]]
BY DEF Partial

\* What is in a part has the type it has in a State.
LEMMA PartialFields ==
    ASSUME NEW q \in Partial
    PROVE  /\ DOMAIN q \subseteq Properties
           /\ q = [p \in DOMAIN q |-> q[p]]
           /\ "open" \in DOMAIN q => q["open"] \in BOOLEAN
           /\ "battery" \in DOMAIN q => q["battery"] \in Readings \cup {NoReading}
           /\ "words" \in DOMAIN q => q["words"] \in Words
<1>1. PICK S \in SUBSET Properties, s \in States : q = [p \in S |-> s[p]]
  BY PartialIs
<1>2. s["open"] \in BOOLEAN /\ s["battery"] \in Readings \cup {NoReading}
      /\ s["words"] \in Words
  BY DEF States
<1> QED BY <1>1, <1>2

\* A well typed function of some of the properties is a part of a State.
LEMMA PartialIntro ==
    ASSUME NEW q, q = [p \in DOMAIN q |-> q[p]],
           DOMAIN q \subseteq Properties,
           "open" \in DOMAIN q => q["open"] \in BOOLEAN,
           "battery" \in DOMAIN q => q["battery"] \in Readings \cup {NoReading},
           "words" \in DOMAIN q => q["words"] \in Words
    PROVE  q \in Partial
<1> DEFINE s == [open |-> IF "open" \in DOMAIN q THEN q["open"] ELSE FALSE,
                 battery |-> IF "battery" \in DOMAIN q THEN q["battery"] ELSE NoReading,
                 words |-> IF "words" \in DOMAIN q THEN q["words"] ELSE "later"]
<1>1. s \in States
  BY DEF States, Words
<1>2. \A p \in DOMAIN q : s[p] = q[p]
  <2>1. /\ "open" \in DOMAIN q => s["open"] = q["open"]
        /\ "battery" \in DOMAIN q => s["battery"] = q["battery"]
        /\ "words" \in DOMAIN q => s["words"] = q["words"]
    OBVIOUS
  <2> HIDE DEF s
  <2> QED BY <2>1, PropertyNames
<1> HIDE DEF s
<1>3. q = [p \in DOMAIN q |-> s[p]]
  BY <1>2
<1> QED BY <1>1, <1>3, PartialIs

LEMMA StatePartial ==
    ASSUME NEW s \in States
    PROVE  /\ s \in Partial
           /\ DOMAIN s = Properties
<1>1. DOMAIN s = Properties
  BY PropertyNames DEF States
<1>2. s = [p \in DOMAIN s |-> s[p]]
  BY DEF States
<1> QED BY <1>1, <1>2, PartialIs

LEMMA NoPropertiesPartial == NoProperties \in Partial /\ DOMAIN NoProperties = {}
<1>1. PICK s : s = DefaultState
  OBVIOUS
<1>2. s \in States
  BY <1>1 DEF DefaultState, States, Words
<1>3. NoProperties = [p \in {} |-> s[p]]
  BY DEF NoProperties
<1>4. NoProperties \in Partial
  BY <1>2, <1>3, PartialIs
<1> QED BY <1>3, <1>4

\* Merging what changed into what is cached.
LEMMA MergePartial ==
    ASSUME NEW q \in Partial, NEW r \in Partial
    PROVE  /\ Merge(q, r) \in Partial
           /\ DOMAIN Merge(q, r) = DOMAIN q \cup DOMAIN r
           /\ \A p \in DOMAIN q : Merge(q, r)[p] = q[p]
           /\ \A p \in DOMAIN r : p \notin DOMAIN q => Merge(q, r)[p] = r[p]
<1> DEFINE t == Merge(q, r)
<1>1. t = [p \in DOMAIN q \cup DOMAIN r |-> IF p \in DOMAIN q THEN q[p] ELSE r[p]]
  BY DEF Merge
<1> HIDE DEF t
<1>2. DOMAIN t = DOMAIN q \cup DOMAIN r
  BY <1>1
<1>3. /\ \A p \in DOMAIN q : t[p] = q[p]
      /\ \A p \in DOMAIN r : p \notin DOMAIN q => t[p] = r[p]
  BY <1>1
<1>4. t = [p \in DOMAIN t |-> t[p]]
  BY <1>1
<1>5. t \in Partial
  BY <1>2, <1>3, <1>4, PartialFields, PartialIntro
<1> QED BY <1>2, <1>3, <1>5 DEF t

\* What a signal carries.
LEMMA ChangedType ==
    ASSUME NEW prev \in States, NEW next \in States
    PROVE  /\ Changed(prev, next).kind = "changed"
           /\ Changed(prev, next).props \in Partial
           /\ Changed(prev, next) \in Messages
           /\ \A f \in Properties :
                 /\ f \in DOMAIN Changed(prev, next).props <=> prev[f] # next[f]
                 /\ prev[f] # next[f] => Changed(prev, next).props[f] = next[f]
<1> DEFINE S == {q \in Properties : prev[q] # next[q]}
           r == [p \in S |-> next[p]]
<1>1. r \in Partial
  <2>1. S \in SUBSET Properties
    OBVIOUS
  <2> QED BY <2>1, PartialIs
<1>2. Changed(prev, next) = [kind |-> "changed", props |-> r]
  BY DEF Changed
<1>3. \A f \in Properties : /\ f \in DOMAIN r <=> prev[f] # next[f]
                            /\ prev[f] # next[f] => r[f] = next[f]
  OBVIOUS
<1> HIDE DEF r
<1> QED BY <1>1, <1>2, <1>3 DEF Messages

-----------------------------------------------------------------------------
(***************************************************************************)
(* Types, and the daemon's side.                                           *)
(***************************************************************************)
TileType == TypeOK /\ bus \in Seq(Messages)

Calls == {"new", "get", "reload", "reloadLost"}

Values == Readings \cup {NoReading}

\* publish() keeps what it is given, and tells an owner's clients what changed.
LEMMA PublishedCases ==
    ASSUME TileType, ServiceInv, Published,
           feed' \in [open : BOOLEAN, battery : Values]
    PROVE  /\ state' \in States
           /\ state'.open = feed'.open /\ state'.battery = feed'.battery
           /\ published'
           /\ UNCHANGED <<running, exported, owned, events>>
           /\ \/ UNCHANGED bus /\ (owned => state' = state)
              \/ owned /\ bus' = Append(bus, Changed(state, state'))
<1>1. PICK w \in Words :
         Publish([open |-> feed'.open, battery |-> feed'.battery, words |-> w])
  BY DEF Published
<1> DEFINE s == [open |-> feed'.open, battery |-> feed'.battery, words |-> w]
<1>2. s \in States /\ s.open = feed'.open /\ s.battery = feed'.battery
  BY DEF States, Values
<1> HIDE DEF s
<1>3. Publish(s)
  BY <1>1 DEF s
<1>4. running /\ (owned => exported /\ published)
  BY DEF Published, ServiceInv
<1>5. state' = s /\ published'
  BY <1>3 DEF Publish
<1>6. \/ UNCHANGED bus /\ (owned => s = state)
      \/ owned /\ bus' = Append(bus, Changed(state, s))
  BY <1>3, <1>4 DEF Publish, Signal
<1> QED BY <1>2, <1>5, <1>6 DEF Published

\* What the daemon can do to the bus.
LEMMA ServiceCases ==
    ASSUME TileType, ServiceInv, ServiceNext
    PROVE  /\ ServiceInv'
           /\ {running', exported', owned', published'} \subseteq BOOLEAN
           /\ feed' \in [open : BOOLEAN, battery : Values]
           /\ state' \in States
           /\ events' \in 0..MaxEvents
           /\ bus' \in Seq(Messages)
           /\ \/ UNCHANGED <<bus, owned>> /\ (owned => state' = state)
              \/ /\ owned /\ owned'
                 /\ bus' = Append(bus, Changed(state, state'))
              \/ /\ ~owned /\ owned' /\ UNCHANGED <<state, feed>>
                 /\ bus' = Append(bus, [kind |-> "appeared"])
              \/ /\ owned /\ ~owned'
                 /\ bus' = Append(bus, [kind |-> "vanished"])
<1> USE DEF TileType
<1>1. feed \in [open : BOOLEAN, battery : Values] /\ state \in States
      /\ running \in BOOLEAN /\ exported \in BOOLEAN /\ owned \in BOOLEAN
      /\ published \in BOOLEAN /\ events \in 0..MaxEvents /\ bus \in Seq(Messages)
  BY DEF TypeOK, Values
<1>2. [kind |-> "appeared"] \in Messages /\ [kind |-> "vanished"] \in Messages
  BY DEF Messages
<1>3. /\ NoState \in [open : BOOLEAN, battery : Values]
      /\ DefaultState \in States
      /\ \A w \in Words : [DefaultState EXCEPT !.words = w] \in States
      /\ \A w \in Words : [DefaultState EXCEPT !.words = w].open = NoState.open
      /\ \A w \in Words : [DefaultState EXCEPT !.words = w].battery = NoState.battery
      /\ DefaultState.open = NoState.open /\ DefaultState.battery = NoState.battery
  BY DEF NoState, DefaultState, States, Values, Words
<1>4. ASSUME FeedOpens \/ FeedCloses \/ FeedReports \/ FeedRepeats
      PROVE  feed' \in [open : BOOLEAN, battery : Values]
  <2>1. feed.battery \in Values /\ Readings \subseteq Values
    BY <1>1 DEF Values
  <2>2. ASSUME NEW o \in BOOLEAN, NEW b \in Values, feed' = [open |-> o, battery |-> b]
        PROVE  feed' \in [open : BOOLEAN, battery : Values]
    BY <2>2
  <2>3. CASE FeedReports
    BY <2>1, <2>2, <2>3 DEF FeedReports
  <2> QED BY <1>1, <1>4, <2>1, <2>2, <2>3 DEF FeedOpens, FeedCloses, FeedRepeats
<1>5. CASE ChannelOpens \/ ChannelCloses \/ PodsReport \/ PumpRepeats
  <2>1. Published /\ feed' \in [open : BOOLEAN, battery : Values]
    BY <1>4, <1>5 DEF ChannelOpens, ChannelCloses, PodsReport, PumpRepeats
  <2>2. running
    BY <2>1 DEF Published
  <2>3. /\ state' \in States
        /\ state'.open = feed'.open /\ state'.battery = feed'.battery
        /\ published' /\ UNCHANGED <<running, exported, owned, events>>
        /\ \/ UNCHANGED bus /\ (owned => state' = state)
           \/ owned /\ bus' = Append(bus, Changed(state, state'))
    BY <2>1, PublishedCases
  <2>4. published' = TRUE
    BY <2>1 DEF Published, Publish
  <2>5. bus' \in Seq(Messages)
    BY <1>1, <2>3, ChangedType, AppendProperties
  <2>6. ServiceInv'
    BY <2>2, <2>3 DEF ServiceInv
  <2>7. {running', exported', owned', published'} \subseteq BOOLEAN
    BY <1>1, <2>3, <2>4
  <2> QED BY <1>1, <2>1, <2>3, <2>5, <2>6, <2>7
<1>6. CASE DaemonStarts
  <2>1. /\ running' = TRUE /\ published' = TRUE /\ feed' = NoState /\ ~owned
        /\ events' = events + 1 /\ events < MaxEvents
        /\ UNCHANGED <<exported, owned, bus>>
    BY <1>1, <1>6 DEF DaemonStarts, ServiceInv
  <2>2. PICK w \in Words : state' = [DefaultState EXCEPT !.words = w]
    BY <1>6 DEF DaemonStarts
  <2>3. ServiceInv'
    BY <1>3, <2>1, <2>2 DEF ServiceInv
  <2>4. events' \in 0..MaxEvents
    BY <1>1, <2>1
  <2> QED BY <1>1, <1>3, <2>1, <2>2, <2>3, <2>4
<1>7. CASE OnBusAcquired
  BY <1>1, <1>7 DEF OnBusAcquired, ServiceInv
<1>8. CASE NameAcquired
  <2>1. bus' \in Seq(Messages)
    BY <1>1, <1>2, <1>8, AppendProperties DEF NameAcquired
  <2> QED BY <1>1, <1>8, <2>1 DEF NameAcquired, ServiceInv
<1>9. CASE DaemonStops
  <2>1. bus' \in Seq(Messages)
    BY <1>1, <1>2, <1>9, AppendProperties DEF DaemonStops
  <2>2. events' \in 0..MaxEvents
    BY <1>1, <1>9 DEF DaemonStops
  <2>3. /\ running' = FALSE /\ exported' = FALSE /\ owned' = FALSE /\ published' = FALSE
        /\ state' = DefaultState /\ feed' = NoState
        /\ bus' = IF owned THEN Append(bus, [kind |-> "vanished"]) ELSE bus
    BY <1>9 DEF DaemonStops
  <2>4. ServiceInv'
    <3>1. state'.open = feed'.open /\ state'.battery = feed'.battery
      BY <2>3 DEF DefaultState, NoState
    <3>2. ~running' /\ ~exported' /\ ~owned'
      BY <2>3
    <3> QED BY <3>1, <3>2 DEF ServiceInv
  <2>5. {running', exported', owned', published'} \subseteq BOOLEAN
    BY <2>3
  <2>6. \/ UNCHANGED <<bus, owned>> /\ (owned => state' = state)
        \/ /\ owned /\ ~owned'
           /\ bus' = Append(bus, [kind |-> "vanished"])
    BY <1>1, <2>3
  <2> QED BY <1>3, <2>1, <2>2, <2>3, <2>4, <2>5, <2>6
<1> QED BY <1>5, <1>6, <1>7, <1>8, <1>9 DEF ServiceNext

\* What is drawn has the type of what is cached, with the fallbacks.
LEMMA RenderType ==
    ASSUME proxy' \in Partial \cup {NoProxy}, ageOf' \in Values,
           NEW present \in BOOLEAN, Render(present)
    PROVE  /\ view' \in [present : BOOLEAN, open : BOOLEAN, battery : Values,
                         ageOf : Values]
           /\ staleTimer' \in BOOLEAN
           /\ view'.present = present
           /\ view'.open = Cached("open")
           /\ view'.battery = Cached("battery")
           /\ view'.ageOf = ageOf'
<1>1. Cached("open") \in BOOLEAN /\ Cached("battery") \in Values
  <2>1. Fallback["open"] = FALSE /\ Fallback["battery"] = NoReading
    BY DEF Fallback
  <2>2. /\ proxy' # NoProxy /\ "open" \in DOMAIN proxy' => proxy'["open"] \in BOOLEAN
        /\ proxy' # NoProxy /\ "battery" \in DOMAIN proxy' => proxy'["battery"] \in Values
    BY PartialFields DEF Values
  <2> QED BY <2>1, <2>2 DEF Cached, Values
<1> QED BY <1>1 DEF Render

LEMMA TimesType ==
    ASSUME NEW n \in Nat, NEW C, NEW c \in C
    PROVE  /\ Times(n, c) \in Seq(C)
           /\ Len(Times(n, c)) = n
           /\ \A i \in 1..n : Times(n, c)[i] = c
BY DEF Times

LEMMA RefreshType ==
    ASSUME TileType, proxy' \in Partial \cup {NoProxy}, ageOf' \in Values,
           NEW n \in Nat, Refresh(n)
    PROVE  /\ view' \in [present : BOOLEAN, open : BOOLEAN, battery : Values,
                         ageOf : Values]
           /\ staleTimer' \in BOOLEAN
           /\ calls' \in Seq(Calls)
<1>1. /\ view \in [present : BOOLEAN, open : BOOLEAN, battery : Values, ageOf : Values]
      /\ staleTimer \in BOOLEAN /\ calls \in Seq(Calls)
  BY DEF TileType, TypeOK, Values, Calls
<1>2. Times(n, "get") \in Seq(Calls)
  BY TimesType DEF Calls
<1>3. calls \o Times(n, "get") \in Seq(Calls)
  BY <1>1, <1>2, ConcatProperties
<1> QED BY <1>1, <1>3, RenderType DEF Refresh

\* A message is what its kind says.
LEMMA MessageFields ==
    ASSUME NEW m \in Messages
    PROVE  /\ m.kind \in {"changed", "proxy", "reload", "reloadLost"} =>
                 m.props \in Partial
           /\ m.kind = "age" => m.ageOf \in Values
BY DEF Messages, Values

LEMMA ReceiveType ==
    ASSUME TileType, NEW k, Receive(k)
    PROVE  /\ bus # <<>> /\ Head(bus) \in Messages /\ Head(bus).kind = k
           /\ Head(bus) = bus[1] /\ Len(bus) > 0
           /\ bus' = Tail(bus) /\ bus' \in Seq(Messages)
           /\ UNCHANGED <<feed, serviceVars, events, held>>
BY HeadTailProperties DEF Receive, TileType

\* Every answer is a message: the state of an owner, nothing without one.
LEMMA AnswerType ==
    ASSUME TileType, NEW c \in Calls
    PROVE  /\ Answer(c) \in Messages
           /\ Answer(c).kind = (CASE c = "get" -> "age" [] c = "new" -> "proxy"
                                  [] c \notin {"get", "new"} -> c)
           /\ c = "get" => Answer(c).ageOf = IF owned THEN feed.battery ELSE NoReading
           /\ c # "get" => Answer(c).props = IF owned THEN state ELSE NoProperties
<1>1. state \in Partial /\ NoProperties \in Partial /\ feed.battery \in Values
  BY StatePartial, NoPropertiesPartial DEF TileType, TypeOK, Values
<1>2. CASE c = "get"
  <2>1. Answer(c) = [kind |-> "age", ageOf |-> IF owned THEN feed.battery ELSE NoReading]
    BY <1>2 DEF Answer
  <2> QED BY <1>1, <1>2, <2>1 DEF Messages, Values
<1>3. CASE c # "get"
  <2>1. Answer(c) = [kind |-> IF c = "new" THEN "proxy" ELSE c,
                     props |-> IF owned THEN state ELSE NoProperties]
    BY <1>3 DEF Answer
  <2> QED BY <1>1, <1>3, <2>1 DEF Messages, Calls
<1> QED BY <1>2, <1>3

\* What _onAppeared() asks for.
LEMMA AppearedAsks ==
    ASSUME TileType, OnAppeared
    PROVE  \E x \in Seq(Calls) :
              /\ calls' = (calls \o Times(lost, "reloadLost")) \o x
              /\ calls' \in Seq(Calls)
              /\ ~destroyed /\ proxy = NoProxy => x = <<"new">>
              /\ ~destroyed /\ proxy # NoProxy => x = <<"reload">>
<1>1. calls \in Seq(Calls) /\ Times(lost, "reloadLost") \in Seq(Calls)
  <2>1. lost \in Nat /\ "reloadLost" \in Calls /\ calls \in Seq(Calls)
    BY DEF TileType, TypeOK, Calls
  <2> QED BY <2>1, TimesType
<1>2. calls \o Times(lost, "reloadLost") \in Seq(Calls)
  BY <1>1, ConcatProperties
<1>3. <<>> \in Seq(Calls) /\ <<"new">> \in Seq(Calls) /\ <<"reload">> \in Seq(Calls)
  BY DEF Calls
<1>4. CASE destroyed
  <2>1. calls' = (calls \o Times(lost, "reloadLost")) \o <<>>
    BY <1>4 DEF OnAppeared
  <2>2. calls' \in Seq(Calls)
    BY <1>2, <1>3, <2>1, ConcatProperties
  <2> QED BY <1>3, <1>4, <2>1, <2>2
<1>5. CASE ~destroyed /\ proxy = NoProxy
  <2>1. calls' = (calls \o Times(lost, "reloadLost")) \o <<"new">>
    BY <1>5 DEF OnAppeared
  <2>2. calls' \in Seq(Calls)
    BY <1>2, <1>3, <2>1, ConcatProperties
  <2> QED BY <1>3, <1>5, <2>1, <2>2
<1>6. CASE ~destroyed /\ proxy # NoProxy
  <2>1. calls' = (calls \o Times(lost, "reloadLost")) \o <<"reload">>
    BY <1>6 DEF OnAppeared
  <2>2. calls' \in Seq(Calls)
    BY <1>2, <1>3, <2>1, ConcatProperties
  <2> QED BY <1>3, <1>6, <2>1, <2>2
<1> QED BY <1>4, <1>5, <1>6

LEMMA TileTypeStep ==
    ASSUME TileType, ServiceInv, [Next]_vars
    PROVE  TileType' /\ ServiceInv'
<1> DEFINE Views == [present : BOOLEAN, open : BOOLEAN, battery : Values,
                     ageOf : Values]
<1>0. /\ bus \in Seq(Messages)
      /\ running \in BOOLEAN /\ exported \in BOOLEAN /\ owned \in BOOLEAN
      /\ published \in BOOLEAN
      /\ proxy \in Partial \cup {NoProxy} /\ lost \in Nat /\ ageOf \in Values
      /\ view \in Views /\ staleTimer \in BOOLEAN /\ destroyed \in BOOLEAN
      /\ calls \in Seq(Calls) /\ held \in Nat
      /\ NoReading \in Values
  BY DEF TileType, TypeOK, Calls, Values
<1>1. ASSUME UNCHANGED <<feed, serviceVars, events>>, held' \in Nat,
             bus' \in Seq(Messages), proxy' \in Partial \cup {NoProxy},
             lost' \in Nat, ageOf' \in Values, view' \in Views,
             staleTimer' \in BOOLEAN, destroyed' \in BOOLEAN, calls' \in Seq(Calls)
      PROVE  TileType' /\ ServiceInv'
  <2>1. ServiceInv'
    BY <1>1 DEF ServiceInv, serviceVars
  <2>2. feed' = feed /\ state' = state /\ events' = events
        /\ running' = running /\ exported' = exported /\ owned' = owned
        /\ published' = published
    BY <1>1 DEF serviceVars
  <2>3. TypeOK'
    BY <1>1, <2>2 DEF TileType, TypeOK, Values, Calls
  <2> QED BY <1>1, <2>1, <2>3 DEF TileType
<1> HIDE DEF Views
<1>2. ASSUME NEW present \in BOOLEAN, Render(present),
             proxy' \in Partial \cup {NoProxy}, ageOf' \in Values
      PROVE  view' \in Views /\ staleTimer' \in BOOLEAN
  BY <1>2, RenderType DEF Views
<1>3. ASSUME NEW n \in Nat, Refresh(n),
             proxy' \in Partial \cup {NoProxy}, ageOf' \in Values
      PROVE  view' \in Views /\ staleTimer' \in BOOLEAN /\ calls' \in Seq(Calls)
  BY <1>3, RefreshType DEF Views
<1>4. ASSUME NEW k, Receive(k)
      PROVE  /\ UNCHANGED <<feed, serviceVars, events, held>>
             /\ bus' \in Seq(Messages) /\ Head(bus) \in Messages /\ Head(bus).kind = k
             /\ k \in {"changed", "proxy", "reload", "reloadLost"} =>
                   Head(bus).props \in Partial
             /\ k = "age" => Head(bus).ageOf \in Values
  BY <1>4, ReceiveType, MessageFields
<1>5. CASE Daemon
  <2>1. ServiceNext /\ UNCHANGED <<tileVars, calls, held>>
    BY <1>5 DEF Daemon
  <2>2. /\ ServiceInv'
        /\ {running', exported', owned', published'} \subseteq BOOLEAN
        /\ feed' \in [open : BOOLEAN, battery : Values] /\ state' \in States
        /\ events' \in 0..MaxEvents /\ bus' \in Seq(Messages)
    BY <2>1, ServiceCases
  <2>3. TypeOK'
    BY <1>0, <2>1, <2>2 DEF TypeOK, tileVars, Values, Calls, Views
  <2> QED BY <2>2, <2>3 DEF TileType
<1>6. CASE Cancelled
  BY <1>0, <1>1, <1>4, <1>6 DEF Cancelled, tileVars
<1>7. CASE OnAppeared
  <2>1. calls' \in Seq(Calls)
    BY <1>7, AppearedAsks
  <2> QED BY <1>0, <1>1, <1>4, <1>7, <2>1 DEF OnAppeared, tileVars
<1>8. CASE OnProxy
  <2>1. proxy' \in Partial \cup {NoProxy} /\ ageOf' \in Values /\ destroyed' \in BOOLEAN
    BY <1>0, <1>4, <1>8 DEF OnProxy
  <2>2. lost' \in Nat
    BY <1>0, <1>8 DEF OnProxy
  <2> QED BY <1>0, <1>1, <1>3, <1>4, <1>8, <2>1, <2>2 DEF OnProxy
<1>9. CASE OnVanished
  BY <1>0, <1>1, <1>2, <1>4, <1>9 DEF OnVanished
<1>10. CASE LostProxyVanishes
  BY <1>0, <1>1, <1>2, <1>4, <1>10 DEF LostProxyVanishes
<1>11. CASE OnPropertiesChanged
  <2>1. proxy' \in Partial \cup {NoProxy} /\ ageOf' \in Values /\ destroyed' \in BOOLEAN
    BY <1>0, <1>4, <1>11, MergePartial DEF OnPropertiesChanged
  <2>2. lost' \in Nat /\ (IF proxy = NoProxy THEN lost ELSE lost + 1) \in Nat
    BY <1>0, <1>11 DEF OnPropertiesChanged
  <2> QED BY <1>0, <1>1, <1>3, <1>4, <1>11, <2>1, <2>2 DEF OnPropertiesChanged
<1>12. CASE OnReloaded
  <2>1. proxy' \in Partial \cup {NoProxy} /\ ageOf' \in Values /\ destroyed' \in BOOLEAN
    BY <1>0, <1>4, <1>12 DEF OnReloaded
  <2>2. lost' \in Nat /\ (IF proxy = NoProxy THEN 0 ELSE 1) \in Nat
    BY <1>0, <1>12 DEF OnReloaded
  <2> QED BY <1>0, <1>1, <1>3, <1>4, <1>12, <2>1, <2>2 DEF OnReloaded
<1>13. CASE OnLostReloaded
  <2>1. proxy' = proxy /\ ageOf' = ageOf /\ destroyed' = destroyed /\ lost' = lost
    BY <1>13 DEF OnLostReloaded
  <2>2. (IF lost = 0 THEN 0 ELSE 1) \in Nat
    OBVIOUS
  <2> QED BY <1>0, <1>1, <1>3, <1>4, <1>13, <2>1, <2>2 DEF OnLostReloaded
<1>14. CASE OnAge
  BY <1>0, <1>1, <1>2, <1>4, <1>14 DEF OnAge
<1>15. CASE StaleTimerFires
  BY <1>0, <1>1, <1>3, <1>15 DEF StaleTimerFires
<1>16. CASE Destroy
  BY <1>0, <1>1, <1>16 DEF Destroy
<1>17. CASE LostProxyCollected
  <2>1. lost' \in Nat
    BY <1>0, <1>17 DEF LostProxyCollected
  <2> QED BY <1>0, <1>1, <1>17, <2>1 DEF LostProxyCollected
<1>18. ASSUME calls # <<>>
       PROVE  /\ Head(calls) \in Calls /\ Tail(calls) \in Seq(Calls)
              /\ Append(bus, Answer(Head(calls))) \in Seq(Messages)
  <2>1. Head(calls) \in Calls /\ Tail(calls) \in Seq(Calls)
    BY <1>0, <1>18, HeadTailProperties
  <2> QED BY <1>0, <2>1, AnswerType, AppendProperties
<1>19. Append(bus, Answer("get")) \in Seq(Messages)
  BY <1>0, AnswerType, AppendProperties DEF Calls
<1>20. CASE Answered
  BY <1>0, <1>1, <1>18, <1>20 DEF Answered, tileVars
<1>21. CASE Activates
  <2>1. calls' \in Seq(Calls) /\ UNCHANGED tileVars
    BY <1>18, <1>21 DEF Activates
  <2>2. CASE DaemonStarts /\ held' = held + 1
    <3>1. held' \in Nat
      BY <1>0, <2>2
    <3>2. /\ ServiceInv'
          /\ {running', exported', owned', published'} \subseteq BOOLEAN
          /\ feed' \in [open : BOOLEAN, battery : Values] /\ state' \in States
          /\ events' \in 0..MaxEvents /\ bus' \in Seq(Messages)
      BY <2>2, ServiceCases DEF ServiceNext
    <3>3. TypeOK'
      BY <1>0, <2>1, <3>1, <3>2 DEF TypeOK, tileVars, Values, Calls, Views
    <3> QED BY <3>2, <3>3 DEF TileType
  <2>3. CASE held' = held + 1 /\ UNCHANGED <<feed, serviceVars, bus, events>>
    <3>1. held' \in Nat
      BY <1>0, <2>3
    <3> QED BY <1>0, <1>1, <2>1, <2>3, <3>1 DEF tileVars
  <2>4. CASE bus' = Append(bus, Answer("get")) /\ UNCHANGED <<feed, serviceVars, events, held>>
    BY <1>0, <1>1, <1>19, <2>1, <2>4 DEF tileVars
  <2> QED BY <1>21, <2>2, <2>3, <2>4 DEF Activates
<1>22. CASE HeldAnswered
  <2>1. held' \in Nat
    BY <1>0, <1>22 DEF HeldAnswered
  <2> QED BY <1>0, <1>1, <1>19, <1>22, <2>1 DEF HeldAnswered, tileVars
<1>23. CASE UNCHANGED vars
  BY <1>0, <1>1, <1>23 DEF vars, tileVars
<1> QED
  BY <1>5, <1>6, <1>7, <1>8, <1>9, <1>10, <1>11, <1>12, <1>13, <1>14, <1>15,
     <1>16, <1>17, <1>20, <1>21, <1>22, <1>23 DEF Next, Shell, SessionBus

LEMMA TileTypeStart == Init => TileType /\ ServiceInv
<1> SUFFICES ASSUME Init PROVE TileType /\ ServiceInv
  OBVIOUS
<1>1. bus \in Seq(Messages)
  BY DEF Init, Messages
<1>2. feed = NoState /\ state = DefaultState
  BY DEF Init, FeedInit
<1>3. feed \in [open : BOOLEAN, battery : Values] /\ state \in States
      /\ state.open = feed.open /\ state.battery = feed.battery
  BY <1>2 DEF NoState, DefaultState, States, Values, Words
<1>4. view \in [present : BOOLEAN, open : BOOLEAN, battery : Values, ageOf : Values]
      /\ calls \in Seq(Calls)
  BY DEF Init, Values
<1>5. /\ {running, exported, owned, published, staleTimer, destroyed} \subseteq BOOLEAN
      /\ (owned => exported) /\ (exported => running) /\ (running => published)
  BY DEF Init
<1>6. events \in 0..MaxEvents /\ held \in Nat /\ lost \in Nat
      /\ proxy \in Partial \cup {NoProxy} /\ ageOf \in Values
  BY DEF Init, Values
<1>7. TypeOK
  BY <1>3, <1>4, <1>5, <1>6 DEF TypeOK, Values, Calls
<1> QED BY <1>1, <1>3, <1>5, <1>7 DEF TileType, ServiceInv

LEMMA TileTypeInvariant == Spec => [](TileType /\ ServiceInv)
<1> QED BY TileTypeStart, TileTypeStep, PTL DEF Spec

\* The types hold in every state of the tile, the daemon and the bus.
THEOREM TileTypeCorrect == Spec => []TypeOK
<1>1. TileType => TypeOK
  BY DEF TileType
<1> QED BY <1>1, TileTypeInvariant, PTL

-----------------------------------------------------------------------------
(***************************************************************************)
(* destroy()                                                               *)
(***************************************************************************)
\* A tile without a proxy draws without a timer: _refresh() of a handler that
\* was left connected finds nobody to ask.
LEMMA RefreshWithoutProxy ==
    ASSUME NEW n, proxy' = NoProxy, ~staleTimer, Refresh(n)
    PROVE  ~staleTimer'
BY DEF Refresh, Render

\* extension.js: everything the tile holds itself is released in destroy(), and
\* no answer that was in flight and no handler left connected brings it back.
THEOREM DestroyReleases == Spec => []NoTimerNoProxyAfterDestroy
<1>1. Init => NoTimerNoProxyAfterDestroy
  BY DEF Init, NoTimerNoProxyAfterDestroy
<1>2. NoTimerNoProxyAfterDestroy /\ [Next]_vars => NoTimerNoProxyAfterDestroy'
  <2> SUFFICES ASSUME NoTimerNoProxyAfterDestroy, [Next]_vars, destroyed'
               PROVE  ~staleTimer' /\ proxy' = NoProxy
    BY DEF NoTimerNoProxyAfterDestroy
  <2> USE DEF NoTimerNoProxyAfterDestroy
  <2>1. CASE Daemon
    BY <2>1 DEF Daemon, tileVars
  <2>2. CASE Cancelled
    BY <2>2 DEF Cancelled, tileVars
  <2>3. CASE OnAppeared
    BY <2>3 DEF OnAppeared, tileVars
  <2>4. CASE OnProxy
    BY <2>4 DEF OnProxy
  <2>5. CASE OnVanished
    BY <2>5 DEF OnVanished
  <2>6. CASE LostProxyVanishes
    BY <2>6 DEF LostProxyVanishes, Render
  <2>7. CASE OnPropertiesChanged
    <3>1. destroyed /\ ~staleTimer /\ proxy' = NoProxy
      BY <2>7 DEF OnPropertiesChanged
    <3> QED
      BY <2>7, <3>1, RefreshWithoutProxy DEF OnPropertiesChanged
  <2>8. CASE OnReloaded
    <3>1. destroyed /\ ~staleTimer /\ proxy' = NoProxy
      BY <2>8 DEF OnReloaded
    <3> QED
      BY <2>8, <3>1, RefreshWithoutProxy DEF OnReloaded
  <2>9. CASE OnLostReloaded
    <3>1. destroyed /\ ~staleTimer /\ proxy' = NoProxy
      BY <2>9 DEF OnLostReloaded
    <3> QED
      BY <2>9, <3>1, RefreshWithoutProxy DEF OnLostReloaded
  <2>10. CASE OnAge
    BY <2>10 DEF OnAge
  <2>11. CASE StaleTimerFires
    BY <2>11 DEF StaleTimerFires
  <2>12. CASE Destroy
    BY <2>12 DEF Destroy
  <2>13. CASE LostProxyCollected
    BY <2>13 DEF LostProxyCollected
  <2>14. CASE SessionBus
    <3>1. UNCHANGED tileVars
      BY <2>14 DEF SessionBus, Answered, Activates, HeldAnswered
    <3> QED BY <3>1 DEF tileVars
  <2>15. CASE UNCHANGED vars
    BY <2>15 DEF vars, tileVars
  <2> QED
    BY <2>1, <2>2, <2>3, <2>4, <2>5, <2>6, <2>7, <2>8, <2>9, <2>10, <2>11,
       <2>12, <2>13, <2>14, <2>15 DEF Next, Shell
<1> QED
  BY <1>1, <1>2, PTL DEF Spec

-----------------------------------------------------------------------------
(***************************************************************************)
(* The age and the reading.  Messages are received in the order in which   *)
(* they were sent, so what a proxy shows when an answer arrives is what the *)
(* last message before it has brought.                                     *)
(***************************************************************************)
\* A new message at the end of the bus.
LEMMA ShowsAppend ==
    ASSUME NEW q, NEW b \in Seq(Messages), NEW m \in Messages, NEW a
    PROVE  /\ \A i \in 1..(Len(b) + 1) :
                 ShowsAt(q, b, i, a) => ShowsAt(q, Append(b, m), i, a)
           /\ ~Clears(m) /\ ShowsAt(q, b, Len(b) + 1, a)
                => ShowsAt(q, Append(b, m), Len(Append(b, m)) + 1, a)
           /\ Clears(m) /\ Brought(m) \in {NoReading, a}
                => ShowsAt(q, Append(b, m), Len(Append(b, m)) + 1, a)
<1> DEFINE c == Append(b, m)
<1>1. /\ Len(b) \in Nat /\ Len(c) = Len(b) + 1
      /\ \A k \in 1..Len(b) : c[k] = b[k]
      /\ c[Len(b) + 1] = m
  BY AppendProperties
<1> HIDE DEF c
<1>2. ASSUME NEW i \in 1..(Len(b) + 1), ShowsAt(q, b, i, a)
      PROVE  ShowsAt(q, c, i, a)
  <2>1. \A k \in 1..(i - 1) : c[k] = b[k]
    BY <1>1
  <2>2. \A j \in 1..(i - 1) : (j + 1)..(i - 1) \subseteq 1..(i - 1)
    BY <1>1
  <2> QED BY <1>2, <2>1, <2>2 DEF ShowsAt
<1>3. ASSUME ~Clears(m), ShowsAt(q, b, Len(b) + 1, a)
      PROVE  ShowsAt(q, c, Len(c) + 1, a)
  <2>1. Len(b) + 1 - 1 = Len(b) /\ Len(c) + 1 - 1 = Len(b) + 1
    BY <1>1
  <2>2. ~Clears(c[Len(b) + 1])
    BY <1>1, <1>3
  <2>3. ASSUME \A k \in 1..Len(b) : ~Clears(b[k]) PROVE Kept(q) \in {NoReading, a}
    BY <1>3, <2>1, <2>3 DEF ShowsAt
  <2>4. ASSUME NEW j \in 1..Len(b), Clears(b[j]),
               \A k \in (j + 1)..Len(b) : ~Clears(b[k])
        PROVE  Brought(b[j]) \in {NoReading, a}
    BY <1>3, <2>1, <2>4 DEF ShowsAt
  <2>5. (\A k \in 1..(Len(b) + 1) : ~Clears(c[k])) => Kept(q) \in {NoReading, a}
    BY <1>1, <2>3
  <2>6. ASSUME NEW j \in 1..(Len(b) + 1), Clears(c[j]),
               \A k \in (j + 1)..(Len(b) + 1) : ~Clears(c[k])
        PROVE  Brought(c[j]) \in {NoReading, a}
    <3>1. j \in 1..Len(b) /\ c[j] = b[j]
      BY <1>1, <2>2, <2>6
    <3>2. \A k \in (j + 1)..Len(b) : ~Clears(b[k])
      BY <1>1, <2>6, <3>1
    <3> QED BY <2>4, <2>6, <3>1, <3>2
  <2> QED BY <2>1, <2>5, <2>6 DEF ShowsAt
<1>4. ASSUME Clears(m), Brought(m) \in {NoReading, a}
      PROVE  ShowsAt(q, c, Len(c) + 1, a)
  <2>1. Len(c) + 1 - 1 = Len(b) + 1 /\ Len(b) + 1 \in 1..(Len(b) + 1)
    BY <1>1
  <2>2. Clears(c[Len(b) + 1]) /\ Brought(c[Len(b) + 1]) \in {NoReading, a}
    BY <1>1, <1>4
  <2>3. ASSUME NEW j \in 1..(Len(b) + 1),
               \A k \in (j + 1)..(Len(b) + 1) : ~Clears(c[k])
        PROVE  j = Len(b) + 1
    BY <1>1, <2>2, <2>3
  <2> QED BY <2>1, <2>2, <2>3 DEF ShowsAt
<1> QED BY <1>2, <1>3, <1>4 DEF c

\* The oldest message leaves the bus and the proxy becomes r.
LEMMA ShowsTail ==
    ASSUME NEW q, NEW r, NEW b \in Seq(Messages), b # <<>>, NEW a,
           Clears(b[1]) => Kept(r) \in {NoReading, Brought(b[1])},
           ~Clears(b[1]) => Kept(r) = Kept(q),
           NEW i \in 1..Len(b), ShowsAt(q, b, i + 1, a)
    PROVE  ShowsAt(r, Tail(b), i, a)
<1> DEFINE c == Tail(b)
<1>1. /\ Len(b) \in Nat /\ Len(b) >= 1 /\ Len(c) = Len(b) - 1
      /\ \A k \in 1..(Len(b) - 1) : c[k] = b[k + 1]
  BY HeadTailProperties
<1> HIDE DEF c
<1>2. i + 1 - 1 = i /\ i \in Nat /\ 1 \in 1..i
  BY <1>1
<1>3. (\A k \in 1..i : ~Clears(b[k])) => Kept(q) \in {NoReading, a}
  BY <1>2 DEF ShowsAt
<1>4. ASSUME NEW j \in 1..i, Clears(b[j]), \A k \in (j + 1)..i : ~Clears(b[k])
      PROVE  Brought(b[j]) \in {NoReading, a}
  BY <1>2, <1>4 DEF ShowsAt
<1>5. ASSUME \A k \in 1..(i - 1) : ~Clears(c[k])
      PROVE  Kept(r) \in {NoReading, a}
  <2>1. \A k \in 2..i : ~Clears(b[k])
    <3> SUFFICES ASSUME NEW k \in 2..i PROVE ~Clears(b[k])
      OBVIOUS
    <3>1. k - 1 \in 1..(i - 1) /\ c[k - 1] = b[k]
      BY <1>1, <1>2
    <3> QED BY <1>5, <3>1
  <2>2. CASE Clears(b[1])
    <3>1. Brought(b[1]) \in {NoReading, a}
      BY <1>2, <1>4, <2>1, <2>2
    <3> QED BY <2>2, <3>1
  <2>3. CASE ~Clears(b[1])
    <3>1. \A k \in 1..i : ~Clears(b[k])
      BY <1>2, <2>1, <2>3
    <3> QED BY <1>3, <2>3, <3>1
  <2> QED BY <2>2, <2>3
<1>6. ASSUME NEW j \in 1..(i - 1), Clears(c[j]),
             \A k \in (j + 1)..(i - 1) : ~Clears(c[k])
      PROVE  Brought(c[j]) \in {NoReading, a}
  <2>1. j + 1 \in 1..i /\ c[j] = b[j + 1]
    BY <1>1, <1>2
  <2>2. \A k \in (j + 1 + 1)..i : ~Clears(b[k])
    <3> SUFFICES ASSUME NEW k \in (j + 1 + 1)..i PROVE ~Clears(b[k])
      OBVIOUS
    <3>1. k - 1 \in (j + 1)..(i - 1) /\ c[k - 1] = b[k]
      BY <1>1, <1>2
    <3> QED BY <1>6, <3>1
  <2> QED BY <1>4, <1>6, <2>1, <2>2
<1>7. ShowsAt(r, c, i, a)
  BY <1>5, <1>6 DEF ShowsAt
<1> QED BY <1>7 DEF c

LEMMA ShowsNothing ==
    ASSUME NEW q, NEW b, NEW i, NEW a, ShowsAt(q, b, i, NoReading)
    PROVE  ShowsAt(q, b, i, a)
BY DEF ShowsAt

\* What the next Get would be answered.
Target == IF owned THEN feed.battery ELSE NoReading

\* A message is received: only the proxy can change.
LEMMA AgesReceived ==
    ASSUME TileType, AgesInv, ~destroyed, NEW k, Receive(k),
           Clears(bus[1]) => Kept(proxy') \in {NoReading, Brought(bus[1])},
           ~Clears(bus[1]) => Kept(proxy') = Kept(proxy)
    PROVE  AgesInv'
<1>1. /\ bus # <<>> /\ bus' = Tail(bus) /\ bus \in Seq(Messages)
      /\ UNCHANGED <<owned, feed>>
  BY ReceiveType DEF TileType, serviceVars
<1>2. /\ Len(bus) \in Nat /\ Len(bus) >= 1 /\ Len(bus') = Len(bus) - 1
      /\ \A i \in 1..(Len(bus) - 1) : bus'[i] = bus[i + 1]
  BY <1>1, HeadTailProperties
<1>3. \A i \in 1..Len(bus) : \A a :
         ShowsAt(proxy, bus, i + 1, a) => ShowsAt(proxy', bus', i, a)
  BY <1>1, ShowsTail
<1>4. /\ \A i \in 1..Len(bus) :
            bus[i].kind = "age" /\ bus[i].ageOf # NoReading
               => ShowsAt(proxy, bus, i, bus[i].ageOf)
      /\ ShowsAt(proxy, bus, Len(bus) + 1, Target)
  BY DEF AgesInv, Target
<1>5. ASSUME NEW i \in 1..Len(bus'), bus'[i].kind = "age", bus'[i].ageOf # NoReading
      PROVE  ShowsAt(proxy', bus', i, bus'[i].ageOf)
  <2>1. i + 1 \in 1..Len(bus) /\ bus'[i] = bus[i + 1] /\ i \in 1..Len(bus)
    BY <1>2
  <2>2. ShowsAt(proxy, bus, i + 1, bus[i + 1].ageOf)
    BY <1>4, <1>5, <2>1
  <2> QED BY <1>3, <2>1, <2>2
<1>6. ShowsAt(proxy', bus', Len(bus') + 1, Target)
  <2>1. Len(bus') + 1 = Len(bus) /\ Len(bus) \in 1..Len(bus)
    BY <1>2
  <2> QED BY <1>3, <1>4, <2>1
<1>7. Target = IF owned' THEN feed'.battery ELSE NoReading
  BY <1>1 DEF Target
<1> QED BY <1>5, <1>6, <1>7 DEF AgesInv

\* A message is sent: it may be an age, and it may bring what is served now.
LEMMA AgesSent ==
    ASSUME TileType, AgesInv, ~destroyed, UNCHANGED proxy, NEW m \in Messages,
           bus' = Append(bus, m),
           m.kind = "age" => m.ageOf = Target,
           Clears(m) => Brought(m) \in {NoReading, Target'},
           ~Clears(m) => Target \in {NoReading, Target'}
    PROVE  AgesInv'
<1>1. bus \in Seq(Messages)
  BY DEF TileType
<1>2. /\ Len(bus) \in Nat /\ Len(bus') = Len(bus) + 1
      /\ \A i \in 1..Len(bus) : bus'[i] = bus[i]
      /\ bus'[Len(bus) + 1] = m
  BY <1>1, AppendProperties
<1>3. /\ \A i \in 1..Len(bus) :
            bus[i].kind = "age" /\ bus[i].ageOf # NoReading
               => ShowsAt(proxy, bus, i, bus[i].ageOf)
      /\ ShowsAt(proxy, bus, Len(bus) + 1, Target)
  BY DEF AgesInv, Target
<1>4. \A a : /\ \A i \in 1..(Len(bus) + 1) :
                   ShowsAt(proxy, bus, i, a) => ShowsAt(proxy, bus', i, a)
             /\ ~Clears(m) /\ ShowsAt(proxy, bus, Len(bus) + 1, a)
                  => ShowsAt(proxy, bus', Len(bus') + 1, a)
             /\ Clears(m) /\ Brought(m) \in {NoReading, a}
                  => ShowsAt(proxy, bus', Len(bus') + 1, a)
  BY <1>1, ShowsAppend
<1>5. ASSUME NEW i \in 1..Len(bus'), bus'[i].kind = "age", bus'[i].ageOf # NoReading
      PROVE  ShowsAt(proxy, bus', i, bus'[i].ageOf)
  <2>1. CASE i \in 1..Len(bus)
    <3>1. i \in 1..(Len(bus) + 1)
      BY <1>2, <2>1
    <3> QED BY <1>2, <1>3, <1>4, <1>5, <2>1, <3>1
  <2>2. CASE i = Len(bus) + 1
    <3>1. i \in 1..(Len(bus) + 1) /\ bus'[i].ageOf = Target
      BY <1>2, <1>5, <2>2
    <3> QED BY <1>3, <1>4, <2>2, <3>1
  <2> QED BY <1>2, <2>1, <2>2
<1>6. ShowsAt(proxy, bus', Len(bus') + 1, Target')
  <2>1. CASE Clears(m)
    BY <1>4, <2>1
  <2>2. CASE ~Clears(m)
    <3>1. ShowsAt(proxy, bus, Len(bus) + 1, Target')
      BY <1>3, <2>2, ShowsNothing
    <3> QED BY <1>4, <2>2, <3>1
  <2> QED BY <2>1, <2>2
<1> QED BY <1>5, <1>6 DEF AgesInv, Target

\* Neither the bus nor what it leads to changes.
LEMMA AgesKept ==
    ASSUME AgesInv, ~destroyed, UNCHANGED <<proxy, bus>>,
           Target \in {NoReading, Target'}
    PROVE  AgesInv'
<1>1. /\ \A i \in 1..Len(bus) :
            bus[i].kind = "age" /\ bus[i].ageOf # NoReading
               => ShowsAt(proxy, bus, i, bus[i].ageOf)
      /\ ShowsAt(proxy, bus, Len(bus) + 1, Target)
  BY DEF AgesInv, Target
<1>2. ShowsAt(proxy, bus, Len(bus) + 1, Target')
  BY <1>1, ShowsNothing
<1> QED BY <1>1, <1>2 DEF AgesInv, Target

\* The daemon's steps.
LEMMA AgesService ==
    ASSUME TileType, ServiceInv, AgesInv, ~destroyed, ServiceNext, UNCHANGED proxy
    PROVE  AgesInv'
<1>0. /\ ServiceInv' /\ state \in States /\ state' \in States
      /\ \/ UNCHANGED <<bus, owned>> /\ (owned => state' = state)
         \/ /\ owned /\ owned'
            /\ bus' = Append(bus, Changed(state, state'))
         \/ /\ ~owned /\ owned' /\ UNCHANGED <<state, feed>>
            /\ bus' = Append(bus, [kind |-> "appeared"])
         \/ /\ owned /\ ~owned'
            /\ bus' = Append(bus, [kind |-> "vanished"])
  BY ServiceCases DEF TileType, TypeOK
<1>1. feed.battery = state.battery /\ feed'.battery = state'.battery
  BY <1>0 DEF ServiceInv
<1>2. CASE UNCHANGED <<bus, owned>> /\ (owned => state' = state)
  <2>1. Target' = Target
    BY <1>1, <1>2 DEF Target
  <2> QED BY <1>2, <2>1, AgesKept
<1>3. CASE owned /\ owned' /\ bus' = Append(bus, Changed(state, state'))
  <2> DEFINE m == Changed(state, state')
  <2>1. /\ m \in Messages /\ m.kind = "changed"
        /\ "battery" \in DOMAIN m.props <=> state["battery"] # state'["battery"]
        /\ state["battery"] # state'["battery"] => m.props["battery"] = state'["battery"]
    BY <1>0, ChangedType, PropertyNames
  <2> HIDE DEF m
  <2>2. Target = state["battery"] /\ Target' = state'["battery"]
    BY <1>1, <1>3 DEF Target
  <2>3. CASE state["battery"] = state'["battery"]
    <3>1. ~Clears(m)
      BY <2>1, <2>3 DEF Clears, Sets
    <3> QED BY <1>3, <2>1, <2>2, <2>3, <3>1, AgesSent DEF m
  <2>4. CASE state["battery"] # state'["battery"]
    <3>1. Clears(m) /\ Brought(m) = Target'
      BY <2>1, <2>2, <2>4 DEF Clears, Sets, Brought
    <3> QED BY <1>3, <2>1, <3>1, AgesSent DEF m
  <2> QED BY <2>3, <2>4
<1>4. CASE ~owned /\ owned' /\ bus' = Append(bus, [kind |-> "appeared"])
  <2> DEFINE m == [kind |-> "appeared"]
  <2>1. m \in Messages /\ m.kind = "appeared"
    BY DEF Messages
  <2> HIDE DEF m
  <2>2. ~Clears(m) /\ Target = NoReading
    BY <1>4, <2>1 DEF Clears, Sets, Target
  <2> QED BY <1>4, <2>1, <2>2, AgesSent DEF m
<1>5. CASE owned /\ ~owned' /\ bus' = Append(bus, [kind |-> "vanished"])
  <2> DEFINE m == [kind |-> "vanished"]
  <2>1. m \in Messages /\ m.kind = "vanished"
    BY DEF Messages
  <2> HIDE DEF m
  <2>2. Clears(m) /\ Brought(m) = NoReading
    BY <2>1 DEF Clears, Brought
  <2> QED BY <1>5, <2>1, <2>2, AgesSent DEF m
<1> QED BY <1>0, <1>2, <1>3, <1>4, <1>5

\* The bus answers.
LEMMA AgesAnswered ==
    ASSUME TileType, ServiceInv, AgesInv, ~destroyed, UNCHANGED <<proxy, owned, feed>>,
           NEW c \in Calls, bus' = Append(bus, Answer(c))
    PROVE  AgesInv'
<1>0. Target' = Target
  BY DEF Target
<1>1. Answer(c) \in Messages
  BY AnswerType
<1>2. CASE c = "get"
  <2>1. Answer(c).kind = "age" /\ Answer(c).ageOf = Target
    BY <1>2, AnswerType DEF Target
  <2>2. ~Clears(Answer(c))
    BY <2>1 DEF Clears, Sets
  <2> QED BY <1>0, <1>1, <2>1, <2>2, AgesSent
<1>3. CASE c # "get"
  <2>1. /\ Answer(c).kind \in {"proxy", "reload", "reloadLost"}
        /\ Answer(c).props = IF owned THEN state ELSE NoProperties
    BY <1>3, AnswerType DEF Calls
  <2>2. Brought(Answer(c)) \in {NoReading, Target}
    <3>1. CASE owned
      BY <2>1, <3>1 DEF Brought, Target, ServiceInv
    <3>2. CASE ~owned
      BY <2>1, <3>2, NoPropertiesPartial DEF Brought
    <3> QED BY <3>1, <3>2
  <2> QED BY <1>0, <1>1, <2>1, <2>2, AgesSent
<1> QED BY <1>2, <1>3

\* What a part has is not NoProxy.
LEMMA PartialIsProxy ==
    ASSUME NEW q \in Partial
    PROVE  q # NoProxy
OBVIOUS

LEMMA AgesStep ==
    ASSUME TileType, ServiceInv, AgesInv, [Next]_vars
    PROVE  AgesInv'
<1> SUFFICES ASSUME ~destroyed, ~destroyed' PROVE AgesInv'
  <2>1. destroyed => destroyed'
    BY DEF Next, Daemon, Shell, Cancelled, OnAppeared, OnProxy, OnVanished,
           LostProxyVanishes, OnPropertiesChanged, OnReloaded, OnLostReloaded, OnAge,
           StaleTimerFires, Destroy, LostProxyCollected, SessionBus, Answered,
           Activates, HeldAnswered, tileVars, vars
  <2> QED BY <2>1 DEF AgesInv
<1>1. ASSUME UNCHANGED <<proxy, bus, owned, feed>> PROVE AgesInv'
  BY <1>1, AgesKept DEF Target
<1>2. ASSUME NEW k, Receive(k)
      PROVE  /\ bus[1] = Head(bus) /\ bus[1].kind = k
             /\ k \in {"changed", "proxy", "reload", "reloadLost"} =>
                   bus[1].props \in Partial
  BY <1>2, ReceiveType, MessageFields
<1>3. ASSUME NEW k \in {"appeared", "age", "reloadLost"}, Receive(k), UNCHANGED proxy
      PROVE  AgesInv'
  <2>1. ~Clears(bus[1])
    BY <1>2, <1>3 DEF Clears, Sets
  <2> QED BY <1>3, <2>1, AgesReceived
<1>4. CASE Daemon
  BY <1>4, AgesService DEF Daemon, tileVars
<1>5. CASE OnAppeared
  BY <1>3, <1>5 DEF OnAppeared, tileVars
<1>6. CASE OnProxy
  <2>1. Receive("proxy") /\ proxy' = bus[1].props /\ bus[1].kind = "proxy"
        /\ proxy' # NoProxy
    BY <1>2, <1>6, PartialIsProxy DEF OnProxy
  <2>2. Clears(bus[1]) /\ Kept(proxy') = Brought(bus[1])
    BY <2>1 DEF Clears, Sets, Kept, Brought
  <2> QED BY <2>1, <2>2, AgesReceived
<1>7. CASE OnVanished
  <2>1. Receive("vanished") /\ Kept(proxy') = NoReading
    BY <1>7 DEF OnVanished, Kept
  <2>2. Clears(bus[1])
    BY <1>2, <2>1 DEF Clears
  <2> QED BY <2>1, <2>2, AgesReceived
<1>8. CASE OnPropertiesChanged
  <2>1. Receive("changed") /\ bus[1].kind = "changed" /\ bus[1].props \in Partial
    BY <1>2, <1>8 DEF OnPropertiesChanged
  <2>2. proxy' = IF proxy = NoProxy THEN proxy ELSE Merge(bus[1].props, proxy)
    BY <1>2, <1>8 DEF OnPropertiesChanged
  <2>3. CASE proxy = NoProxy
    BY <2>1, <2>2, <2>3, AgesReceived DEF Kept
  <2>4. CASE proxy # NoProxy
    <3>1. proxy \in Partial
      BY <2>4 DEF TileType, TypeOK
    <3>2. /\ proxy' \in Partial /\ DOMAIN proxy' = DOMAIN bus[1].props \cup DOMAIN proxy
          /\ \A p \in DOMAIN bus[1].props : proxy'[p] = bus[1].props[p]
          /\ \A p \in DOMAIN proxy : p \notin DOMAIN bus[1].props => proxy'[p] = proxy[p]
      BY <2>1, <2>2, <2>4, <3>1, MergePartial
    <3>3. proxy' # NoProxy
      BY <3>2, PartialIsProxy
    <3>4. CASE "battery" \in DOMAIN bus[1].props
      <4>1. Clears(bus[1]) /\ Kept(proxy') = Brought(bus[1])
        BY <2>1, <3>2, <3>3, <3>4 DEF Clears, Sets, Kept, Brought
      <4> QED BY <2>1, <4>1, AgesReceived
    <3>5. CASE "battery" \notin DOMAIN bus[1].props
      <4>1. ~Clears(bus[1]) /\ Kept(proxy') = Kept(proxy)
        BY <2>1, <2>4, <3>2, <3>3, <3>5 DEF Clears, Sets, Kept
      <4> QED BY <2>1, <4>1, AgesReceived
    <3> QED BY <3>4, <3>5
  <2> QED BY <2>3, <2>4
<1>9. CASE OnReloaded
  <2>1. Receive("reload") /\ bus[1].kind = "reload" /\ bus[1].props \in Partial
        /\ proxy' = IF proxy = NoProxy THEN proxy ELSE bus[1].props
    BY <1>2, <1>9 DEF OnReloaded
  <2>2. Clears(bus[1]) /\ Kept(proxy') \in {NoReading, Brought(bus[1])}
    BY <2>1, PartialIsProxy DEF Clears, Sets, Kept, Brought
  <2> QED BY <2>1, <2>2, AgesReceived
<1>10. CASE OnLostReloaded
  BY <1>3, <1>10 DEF OnLostReloaded
<1>11. CASE OnAge
  BY <1>3, <1>11 DEF OnAge
<1>12. CASE StaleTimerFires \/ LostProxyCollected
  BY <1>1, <1>12 DEF StaleTimerFires, LostProxyCollected, serviceVars
<1>13. "get" \in Calls /\ (calls # <<>> => Head(calls) \in Calls)
  BY HeadTailProperties DEF TileType, TypeOK, Calls
<1>14. CASE Answered
  BY <1>13, <1>14, AgesAnswered DEF Answered, serviceVars, tileVars
<1>15. CASE HeldAnswered
  BY <1>13, <1>15, AgesAnswered DEF HeldAnswered, serviceVars, tileVars
<1>16. CASE Activates
  <2>1. UNCHANGED proxy
    BY <1>16 DEF Activates, tileVars
  <2>2. CASE DaemonStarts
    BY <2>1, <2>2, AgesService DEF ServiceNext
  <2>3. CASE UNCHANGED <<feed, serviceVars, bus, events>>
    BY <1>1, <2>1, <2>3 DEF serviceVars
  <2>4. CASE bus' = Append(bus, Answer("get")) /\ UNCHANGED <<feed, serviceVars>>
    BY <1>13, <2>1, <2>4, AgesAnswered DEF serviceVars
  <2> QED BY <1>16, <2>2, <2>3, <2>4 DEF Activates
<1>17. CASE UNCHANGED vars
  BY <1>1, <1>17 DEF vars, serviceVars, tileVars
<1> QED
  BY <1>4, <1>5, <1>6, <1>7, <1>8, <1>9, <1>10, <1>11, <1>12, <1>14, <1>15,
     <1>16, <1>17
     DEF Next, Shell, SessionBus, Cancelled, LostProxyVanishes, Destroy

\* Only an age is drawn with a reading.
LEMMA AgeDrawn ==
    ASSUME TileType, AgesInv, NoTimerNoProxyAfterDestroy, AgeIsOfReading, [Next]_vars
    PROVE  AgeIsOfReading'
<1>1. ASSUME UNCHANGED view PROVE AgeIsOfReading'
  BY <1>1 DEF AgeIsOfReading
<1>2. ASSUME Render(FALSE), proxy' = NoProxy PROVE AgeIsOfReading'
  <2>1. Cached("battery") = NoReading
    BY <1>2 DEF Cached, Fallback
  <2> QED BY <1>2, <2>1 DEF Render, AgeIsOfReading
<1>3. ASSUME NEW n, Refresh(n) PROVE AgeIsOfReading'
  BY <1>1, <1>2, <1>3 DEF Refresh
<1>4. ASSUME OnAge PROVE AgeIsOfReading'
  <2>1. /\ ~destroyed /\ bus # <<>> /\ Head(bus) = bus[1] /\ Len(bus) > 0
        /\ bus[1].kind = "age" /\ ageOf' = bus[1].ageOf
        /\ proxy' = proxy /\ Render(TRUE)
    BY <1>4, ReceiveType DEF OnAge
  <2>2. Cached("battery") = Kept(proxy)
    BY <2>1 DEF Cached, Kept, Fallback
  <2>3. view'.battery = Kept(proxy) /\ view'.ageOf = bus[1].ageOf
    BY <2>1, <2>2 DEF Render
  <2>4. CASE bus[1].ageOf = NoReading
    BY <2>3, <2>4 DEF AgeIsOfReading
  <2>5. CASE bus[1].ageOf # NoReading
    <3>1. Len(bus) \in Nat
      BY DEF TileType
    <3>2. 1 \in 1..Len(bus)
      BY <2>1, <3>1
    <3>3. ShowsAt(proxy, bus, 1, bus[1].ageOf)
      BY <2>1, <2>5, <3>2 DEF AgesInv
    <3>4. Kept(proxy) \in {NoReading, bus[1].ageOf}
      <4>1. 1..(1 - 1) = {}
        OBVIOUS
      <4> QED BY <3>3, <4>1 DEF ShowsAt
    <3> QED BY <2>3, <3>4 DEF AgeIsOfReading
  <2> QED BY <2>4, <2>5
<1>5. ASSUME LostProxyVanishes PROVE AgeIsOfReading'
  BY <1>1, <1>2, <1>5 DEF LostProxyVanishes, NoTimerNoProxyAfterDestroy
<1> QED
  BY <1>1, <1>2, <1>3, <1>4, <1>5
     DEF Next, Daemon, Shell, Cancelled, OnAppeared, OnProxy, OnVanished,
         OnPropertiesChanged, OnReloaded, OnLostReloaded,
         StaleTimerFires, Destroy, LostProxyCollected, SessionBus, Answered,
         Activates, HeldAnswered, tileVars, vars

LEMMA AgesStart == Init => AgesInv /\ AgeIsOfReading
<1> SUFFICES ASSUME Init PROVE AgesInv /\ AgeIsOfReading
  OBVIOUS
<1> DEFINE m == [kind |-> IF running THEN "appeared" ELSE "vanished"]
<1>1. bus = <<m>> /\ proxy = NoProxy /\ feed.battery = NoReading
      /\ view.battery = NoReading
  BY DEF Init, FeedInit, NoState
<1>2. m.kind \in {"appeared", "vanished"}
  OBVIOUS
<1> HIDE DEF m
<1>3. Len(bus) = 1 /\ bus[1] = m
  BY <1>1
<1>4. Kept(proxy) = NoReading
  BY <1>1 DEF Kept
<1>5. Clears(m) => Brought(m) = NoReading
  BY <1>2 DEF Clears, Sets, Brought
<1>6. ShowsAt(proxy, bus, 2, NoReading)
  <2>1. 1..(2 - 1) = {1}
    OBVIOUS
  <2> QED BY <1>3, <1>4, <1>5, <2>1 DEF ShowsAt
<1>7. AgesInv
  <2>1. 1..Len(bus) = {1} /\ Len(bus) + 1 = 2
    BY <1>3
  <2> QED BY <1>1, <1>2, <1>3, <1>6, <2>1 DEF AgesInv
<1> QED BY <1>1, <1>7 DEF AgeIsOfReading

\* For every set of readings and however long the bus: the age drawn beside a
\* reading is the age of that reading.
THEOREM AgeCorrect == Spec => []AgeIsOfReading
<1>1. TileType /\ ServiceInv /\ AgesInv /\ [Next]_vars => AgesInv'
  BY AgesStep
<1>2. TileType /\ AgesInv /\ NoTimerNoProxyAfterDestroy /\ AgeIsOfReading /\ [Next]_vars
        => AgeIsOfReading'
  BY AgeDrawn
<1> QED BY <1>1, <1>2, AgesStart, TileTypeInvariant, DestroyReleases, PTL DEF Spec

-----------------------------------------------------------------------------
(***************************************************************************)
(* What is drawn and what is published.                                    *)
(***************************************************************************)
LEMMA HasAppend ==
    ASSUME NEW b \in Seq(Messages), NEW m \in Messages, NEW k
    PROVE  Has(Append(b, m), k) <=> Has(b, k) \/ m.kind = k
<1> DEFINE c == Append(b, m)
<1>1. /\ Len(b) \in Nat /\ Len(c) = Len(b) + 1
      /\ \A i \in 1..Len(b) : c[i] = b[i]
      /\ c[Len(b) + 1] = m
  BY AppendProperties
<1> HIDE DEF c
<1>2. Has(c, k) <=> Has(b, k) \/ m.kind = k
  BY <1>1 DEF Has
<1> QED BY <1>2 DEF c

LEMMA TailFacts ==
    ASSUME NEW S, NEW b \in Seq(S), b # <<>>
    PROVE  /\ Len(b) \in Nat /\ Len(b) >= 1 /\ Len(Tail(b)) = Len(b) - 1
           /\ \A i \in 1..(Len(b) - 1) : Tail(b)[i] = b[i + 1]
           /\ Head(b) = b[1]
BY HeadTailProperties

LEMMA HasTail ==
    ASSUME NEW b \in Seq(Messages), b # <<>>, NEW k
    PROVE  Has(b, k) <=> b[1].kind = k \/ Has(Tail(b), k)
<1> DEFINE c == Tail(b)
<1>1. /\ Len(b) \in Nat /\ Len(b) >= 1 /\ Len(c) = Len(b) - 1
      /\ \A i \in 1..(Len(b) - 1) : c[i] = b[i + 1]
  BY TailFacts
<1> HIDE DEF c
<1>2. ASSUME NEW i \in 1..Len(b), b[i].kind = k PROVE b[1].kind = k \/ Has(c, k)
  <2>1. CASE i = 1
    BY <1>2, <2>1
  <2>2. CASE i # 1
    <3>1. i - 1 \in 1..Len(c) /\ c[i - 1] = b[i]
      BY <1>1, <2>2
    <3> QED BY <1>2, <3>1 DEF Has
  <2> QED BY <2>1, <2>2
<1>3. ASSUME NEW i \in 1..Len(c), c[i].kind = k PROVE Has(b, k)
  <2>1. i + 1 \in 1..Len(b) /\ c[i] = b[i + 1]
    BY <1>1
  <2> QED BY <1>3, <2>1 DEF Has
<1>4. b[1].kind = k => Has(b, k)
  BY <1>1 DEF Has
<1>5. Has(b, k) <=> b[1].kind = k \/ Has(c, k)
  BY <1>2, <1>3, <1>4 DEF Has
<1> QED BY <1>5 DEF c

LEMMA AskedConcat ==
    ASSUME NEW c \in Seq(Calls), NEW d \in Seq(Calls), NEW x
    PROVE  Asked(c, x) \/ Asked(d, x) => Asked(c \o d, x)
<1> DEFINE e == c \o d
<1>1. /\ Len(c) \in Nat /\ Len(d) \in Nat /\ Len(e) = Len(c) + Len(d)
      /\ \A i \in 1..Len(c) : e[i] = c[i]
      /\ \A i \in 1..Len(d) : e[Len(c) + i] = d[i]
  BY ConcatProperties
<1> HIDE DEF e
<1>2. ASSUME NEW i \in 1..Len(c), c[i] = x PROVE Asked(e, x)
  <2>1. i \in 1..Len(e) /\ e[i] = x
    BY <1>1, <1>2
  <2> QED BY <2>1 DEF Asked
<1>3. ASSUME NEW i \in 1..Len(d), d[i] = x PROVE Asked(e, x)
  <2>1. Len(c) + i \in 1..Len(e) /\ e[Len(c) + i] = x
    BY <1>1, <1>3
  <2> QED BY <2>1 DEF Asked
<1>4. Asked(c, x) \/ Asked(d, x) => Asked(e, x)
  BY <1>2, <1>3 DEF Asked
<1> QED BY <1>4 DEF e

LEMMA AskedTail ==
    ASSUME NEW c \in Seq(Calls), c # <<>>, NEW x, Asked(c, x), Head(c) # x
    PROVE  Asked(Tail(c), x)
<1> DEFINE d == Tail(c)
<1>1. /\ Len(c) \in Nat /\ Len(c) >= 1 /\ Len(d) = Len(c) - 1
      /\ \A i \in 1..(Len(c) - 1) : d[i] = c[i + 1]
      /\ Head(c) = c[1]
  BY TailFacts
<1> HIDE DEF d
<1>2. PICK i \in 1..Len(c) : c[i] = x
  BY DEF Asked
<1>3. i # 1
  BY <1>1, <1>2
<1>4. i - 1 \in 1..Len(d) /\ d[i - 1] = x
  BY <1>1, <1>2, <1>3
<1>5. Asked(d, x)
  BY <1>4 DEF Asked
<1> QED BY <1>5 DEF d

\* _refresh() forgets no call and, with a proxy, asks for the age.
LEMMA RefreshAsks ==
    ASSUME TileType, NEW n \in Nat, Refresh(n)
    PROVE  /\ \A x : Asked(calls, x) => Asked(calls', x)
           /\ proxy' # NoProxy /\ n > 0 => Asked(calls', "get")
           /\ proxy' # NoProxy => UNCHANGED view
<1>1. calls \in Seq(Calls)
  BY DEF TileType, TypeOK, Calls
<1>2. CASE proxy' = NoProxy
  BY <1>2 DEF Refresh
<1>3. CASE proxy' # NoProxy
  <2> DEFINE t == Times(n, "get")
  <2>0. "get" \in Calls
    BY DEF Calls
  <2>1. /\ t \in Seq(Calls) /\ Len(t) = n /\ \A i \in 1..n : t[i] = "get"
    BY <2>0, TimesType
  <2>2. calls' = calls \o t /\ UNCHANGED view
    BY <1>3 DEF Refresh
  <2> HIDE DEF t
  <2>3. n > 0 => Asked(t, "get")
    BY <2>1 DEF Asked
  <2> QED BY <1>1, <2>1, <2>2, <2>3, AskedConcat
<1> QED BY <1>2, <1>3

\* A new message at the end of the bus.
LEMMA BringsAppend ==
    ASSUME NEW q, NEW b \in Seq(Messages), NEW m \in Messages, NEW f, NEW v
    PROVE  /\ ~Sets(m, f) /\ Brings(q, b, f, v) => Brings(q, Append(b, m), f, v)
           /\ /\ Sets(m, f) /\ f \in DOMAIN m.props /\ m.props[f] = v
              /\ m.kind = "proxy" \/ Alive(q, b)
              => Brings(q, Append(b, m), f, v)
<1> DEFINE c == Append(b, m)
<1>1. /\ Len(b) \in Nat /\ Len(c) = Len(b) + 1
      /\ \A i \in 1..Len(b) : c[i] = b[i]
      /\ c[Len(b) + 1] = m
  BY AppendProperties
<1> HIDE DEF c
<1>2. ASSUME ~Sets(m, f), NEW i \in 1..Len(b),
             Sets(b[i], f), f \in DOMAIN b[i].props, b[i].props[f] = v,
             \A k \in (i + 1)..Len(b) : ~Sets(b[k], f),
             q # NoProxy \/ \E j \in 1..i : b[j].kind = "proxy"
      PROVE  Brings(q, c, f, v)
  <2>1. i \in 1..Len(c) /\ c[i] = b[i]
    BY <1>1
  <2>2. \A k \in (i + 1)..Len(c) : ~Sets(c[k], f)
    BY <1>1, <1>2
  <2>3. q # NoProxy \/ \E j \in 1..i : c[j].kind = "proxy"
    BY <1>1, <1>2
  <2> QED BY <1>2, <2>1, <2>2, <2>3 DEF Brings
<1>3. ASSUME ~Sets(m, f), \A k \in 1..Len(b) : ~Sets(b[k], f),
             q # NoProxy, f \in DOMAIN q, q[f] = v
      PROVE  Brings(q, c, f, v)
  <2>1. \A k \in 1..Len(c) : ~Sets(c[k], f)
    BY <1>1, <1>3
  <2> QED BY <1>3, <2>1 DEF Brings
<1>4. ASSUME Sets(m, f), f \in DOMAIN m.props, m.props[f] = v,
             m.kind = "proxy" \/ Alive(q, b)
      PROVE  Brings(q, c, f, v)
  <2> DEFINE i == Len(b) + 1
  <2>1. i \in 1..Len(c) /\ c[i] = m /\ (i + 1)..Len(c) = {}
    BY <1>1
  <2>2. q # NoProxy \/ \E j \in 1..i : c[j].kind = "proxy"
    <3>1. CASE m.kind = "proxy"
      BY <1>1, <3>1
    <3>2. CASE Has(b, "proxy")
      BY <1>1, <3>2 DEF Has
    <3> QED BY <1>4, <3>1, <3>2 DEF Alive
  <2> HIDE DEF i
  <2> QED BY <1>4, <2>1, <2>2 DEF Brings
<1>5. ~Sets(m, f) /\ Brings(q, b, f, v) => Brings(q, c, f, v)
  BY <1>2, <1>3 DEF Brings
<1> QED BY <1>4, <1>5 DEF c

\* Receiving m turns the proxy q into r.
Applied(q, m, f, r) ==
    /\ q # NoProxy \/ m.kind = "proxy" => r # NoProxy
    /\ q # NoProxy \/ m.kind = "proxy" =>
          /\ Sets(m, f) /\ f \in DOMAIN m.props => f \in DOMAIN r /\ r[f] = m.props[f]
          /\ ~Sets(m, f) /\ f \in DOMAIN q => f \in DOMAIN r /\ r[f] = q[f]

LEMMA BringsTail ==
    ASSUME NEW q, NEW r, NEW b \in Seq(Messages), b # <<>>, NEW f, NEW v,
           Applied(q, b[1], f, r), Brings(q, b, f, v)
    PROVE  Brings(r, Tail(b), f, v)
<1> DEFINE c == Tail(b)
<1>1. /\ Len(b) \in Nat /\ Len(b) >= 1 /\ Len(c) = Len(b) - 1
      /\ \A i \in 1..(Len(b) - 1) : c[i] = b[i + 1]
  BY TailFacts
<1> HIDE DEF c
<1>2. ASSUME NEW i \in 1..Len(b), \A k \in (i + 1)..Len(b) : ~Sets(b[k], f)
      PROVE  \A k \in i..Len(c) : ~Sets(c[k], f)
  <2> SUFFICES ASSUME NEW k \in i..Len(c) PROVE ~Sets(c[k], f)
    OBVIOUS
  <2>1. k + 1 \in (i + 1)..Len(b) /\ c[k] = b[k + 1]
    BY <1>1
  <2> QED BY <1>2, <2>1
<1>3. ASSUME NEW i \in 1..Len(b),
             Sets(b[i], f), f \in DOMAIN b[i].props, b[i].props[f] = v,
             \A k \in (i + 1)..Len(b) : ~Sets(b[k], f),
             q # NoProxy \/ \E j \in 1..i : b[j].kind = "proxy"
      PROVE  Brings(r, c, f, v)
  <2>1. \A k \in i..Len(c) : ~Sets(c[k], f)
    BY <1>2, <1>3
  <2>2. CASE i = 1
    <3>1. q # NoProxy \/ b[1].kind = "proxy"
      BY <1>3, <2>2
    <3>2. r # NoProxy /\ f \in DOMAIN r /\ r[f] = v
      BY <1>3, <2>2, <3>1 DEF Applied
    <3> QED BY <2>1, <2>2, <3>2 DEF Brings
  <2>3. CASE i # 1
    <3>1. i - 1 \in 1..Len(c) /\ c[i - 1] = b[i] /\ i - 1 + 1 = i
      BY <1>1, <2>3
    <3>2. r # NoProxy \/ \E j \in 1..(i - 1) : c[j].kind = "proxy"
      <4>1. CASE q # NoProxy \/ b[1].kind = "proxy"
        BY <4>1 DEF Applied
      <4>2. ASSUME NEW j \in 1..i, b[j].kind = "proxy", j # 1
            PROVE  \E l \in 1..(i - 1) : c[l].kind = "proxy"
        <5>1. j - 1 \in 1..(i - 1) /\ c[j - 1] = b[j]
          BY <1>1, <4>2
        <5> QED BY <4>2, <5>1
      <4> QED BY <1>3, <4>1, <4>2
    <3> QED BY <1>3, <2>1, <3>1, <3>2 DEF Brings
  <2> QED BY <2>2, <2>3
<1>4. ASSUME \A k \in 1..Len(b) : ~Sets(b[k], f), q # NoProxy, f \in DOMAIN q, q[f] = v
      PROVE  Brings(r, c, f, v)
  <2>0. 1 \in 1..Len(b) /\ \A k \in 1..Len(c) : k + 1 \in 1..Len(b) /\ c[k] = b[k + 1]
    BY <1>1
  <2>1. ~Sets(b[1], f) /\ \A k \in 1..Len(c) : ~Sets(c[k], f)
    BY <1>4, <2>0
  <2>2. r # NoProxy /\ f \in DOMAIN r /\ r[f] = v
    BY <1>4, <2>1 DEF Applied
  <2> QED BY <2>1, <2>2 DEF Brings
<1>5. Brings(r, c, f, v)
  BY <1>3, <1>4 DEF Brings
<1> QED BY <1>5 DEF c

\* What each callback makes of the proxy while the tile exists.
LEMMA ProxyApplies ==
    ASSUME TileType, ~destroyed, NEW f \in Drawn,
           OnProxy \/ OnPropertiesChanged \/ OnReloaded \/ OnLostReloaded \/ OnAge
    PROVE  Applied(proxy, bus[1], f, proxy')
<1>0. ASSUME NEW k, Receive(k)
      PROVE  /\ bus[1] = Head(bus) /\ bus[1].kind = k
             /\ k \in {"changed", "proxy", "reload", "reloadLost"} =>
                   bus[1].props \in Partial
  BY <1>0, ReceiveType, MessageFields
<1>1. CASE OnProxy
  <2>1. proxy' = bus[1].props /\ bus[1].kind = "proxy" /\ proxy' # NoProxy
    BY <1>0, <1>1, PartialIsProxy DEF OnProxy
  <2> QED BY <2>1 DEF Applied, Sets
<1>2. CASE OnPropertiesChanged
  <2>1. bus[1].kind = "changed" /\ bus[1].props \in Partial
        /\ proxy' = IF proxy = NoProxy THEN proxy ELSE Merge(bus[1].props, proxy)
    BY <1>0, <1>2 DEF OnPropertiesChanged
  <2>2. CASE proxy = NoProxy
    BY <2>1, <2>2 DEF Applied
  <2>3. CASE proxy # NoProxy
    <3>1. proxy \in Partial
      BY <2>3 DEF TileType, TypeOK
    <3>2. /\ proxy' \in Partial /\ DOMAIN proxy' = DOMAIN bus[1].props \cup DOMAIN proxy
          /\ \A p \in DOMAIN bus[1].props : proxy'[p] = bus[1].props[p]
          /\ \A p \in DOMAIN proxy : p \notin DOMAIN bus[1].props => proxy'[p] = proxy[p]
      BY <2>1, <2>3, <3>1, MergePartial
    <3>3. proxy' # NoProxy
      BY <3>2, PartialIsProxy
    <3> QED BY <2>1, <3>2, <3>3 DEF Applied, Sets
  <2> QED BY <2>2, <2>3
<1>3. CASE OnReloaded
  <2>1. bus[1].kind = "reload" /\ bus[1].props \in Partial
        /\ proxy' = IF proxy = NoProxy THEN proxy ELSE bus[1].props
    BY <1>0, <1>3 DEF OnReloaded
  <2> QED BY <2>1, PartialIsProxy DEF Applied, Sets
<1>4. CASE OnLostReloaded \/ OnAge
  <2>1. bus[1].kind \in {"reloadLost", "age"} /\ proxy' = proxy
    BY <1>0, <1>4 DEF OnLostReloaded, OnAge
  <2> QED BY <2>1 DEF Applied, Sets
<1> QED BY <1>1, <1>2, <1>3, <1>4

LEMMA ProxyReceived ==
    ASSUME TileType, ProxyInv, ~destroyed, NEW k, Receive(k), k # "appeared",
           \A f \in Drawn : Applied(proxy, bus[1], f, proxy'),
           \A x : Asked(calls, x) => Asked(calls', x)
    PROVE  ProxyInv'
<1>1. /\ bus # <<>> /\ bus' = Tail(bus) /\ bus \in Seq(Messages) /\ bus[1].kind = k
      /\ UNCHANGED <<owned, state>>
  BY ReceiveType DEF TileType, serviceVars
<1>2. Has(bus, "appeared") => Has(bus', "appeared")
  BY <1>1, HasTail
<1>3. Alive(proxy, bus) => Alive(proxy', bus')
  <2>1. "open" \in Drawn
    BY DEF Drawn
  <2> QED BY <1>1, <2>1, HasTail DEF Alive, Applied
<1>4. ASSUME NEW f \in Drawn, Brings(proxy, bus, f, state[f])
      PROVE  Brings(proxy', bus', f, state'[f])
  BY <1>1, <1>4, BringsTail
<1> QED BY <1>1, <1>2, <1>3, <1>4 DEF ProxyInv

\* A message that sets nothing is sent, or one that brings the properties that
\* change.
LEMMA ProxySent ==
    ASSUME TileType, ProxyInv, ~destroyed, UNCHANGED proxy, owned' => owned,
           NEW m \in Messages, bus' = Append(bus, m),
           Asked(calls, "new") => Asked(calls', "new"),
           Asked(calls, "reload") => Asked(calls', "reload"),
           \A f \in Drawn :
              \/ ~Sets(m, f) /\ state'[f] = state[f]
              \/ Sets(m, f) /\ f \in DOMAIN m.props /\ m.props[f] = state'[f]
    PROVE  ProxyInv'
<1>1. bus \in Seq(Messages)
  BY DEF TileType
<1>2. Has(bus, "appeared") => Has(bus', "appeared")
  BY <1>1, HasAppend
<1>3. Alive(proxy, bus) => Alive(proxy', bus')
  BY <1>1, HasAppend DEF Alive
<1>4. ASSUME Alive(proxy, bus), NEW f \in Drawn, Brings(proxy, bus, f, state[f])
      PROVE  Brings(proxy', bus', f, state'[f])
  BY <1>1, <1>4, BringsAppend
<1> QED BY <1>2, <1>3, <1>4 DEF ProxyInv

\* Neither the bus nor what is served changes.
LEMMA ProxyKept ==
    ASSUME ProxyInv, ~destroyed, UNCHANGED <<proxy, bus>>, owned' => owned,
           owned => state' = state,
           \A x : Asked(calls, x) => Asked(calls', x)
    PROVE  ProxyInv'
<1>1. CASE owned'
  BY <1>1 DEF ProxyInv
<1>2. CASE ~owned'
  BY <1>2 DEF ProxyInv
<1> QED BY <1>1, <1>2

LEMMA ProxyService ==
    ASSUME TileType, ServiceInv, ProxyInv, ~destroyed, ServiceNext,
           UNCHANGED proxy, \A x : Asked(calls, x) => Asked(calls', x)
    PROVE  ProxyInv'
<1>0. /\ state \in States /\ state' \in States /\ bus \in Seq(Messages)
      /\ \/ UNCHANGED <<bus, owned>> /\ (owned => state' = state)
         \/ /\ owned /\ owned'
            /\ bus' = Append(bus, Changed(state, state'))
         \/ /\ ~owned /\ owned' /\ UNCHANGED <<state, feed>>
            /\ bus' = Append(bus, [kind |-> "appeared"])
         \/ /\ owned /\ ~owned'
            /\ bus' = Append(bus, [kind |-> "vanished"])
  BY ServiceCases DEF TileType, TypeOK
<1>1. CASE UNCHANGED <<bus, owned>> /\ (owned => state' = state)
  BY <1>1, ProxyKept
<1>2. CASE owned /\ owned' /\ bus' = Append(bus, Changed(state, state'))
  <2> DEFINE m == Changed(state, state')
  <2>1. /\ m \in Messages /\ m.kind = "changed"
        /\ \A f \in Drawn :
              /\ f \in DOMAIN m.props <=> state[f] # state'[f]
              /\ state[f] # state'[f] => m.props[f] = state'[f]
    BY <1>0, ChangedType, PropertyNames DEF Drawn
  <2> HIDE DEF m
  <2>2. \A f \in Drawn :
           \/ ~Sets(m, f) /\ state'[f] = state[f]
           \/ Sets(m, f) /\ f \in DOMAIN m.props /\ m.props[f] = state'[f]
    BY <2>1 DEF Sets
  <2> QED BY <1>2, <2>1, <2>2, ProxySent DEF m
<1>3. CASE bus' = Append(bus, [kind |-> "appeared"])
  <2>1. [kind |-> "appeared"] \in Messages
    BY DEF Messages
  <2>2. Has(bus', "appeared")
    BY <1>0, <1>3, <2>1, HasAppend
  <2> QED BY <2>2 DEF ProxyInv
<1>4. CASE owned /\ ~owned'
  BY <1>4 DEF ProxyInv
<1> QED BY <1>0, <1>1, <1>2, <1>3, <1>4

\* An answer is sent and its call is no longer waiting.
LEMMA ProxyAnswered ==
    ASSUME TileType, ProxyInv, ~destroyed, Answered
    PROVE  ProxyInv'
<1> DEFINE c == Head(calls)
           m == Answer(Head(calls))
<1>1. /\ calls \in Seq(Calls) /\ calls # <<>> /\ calls' = Tail(calls)
      /\ bus' = Append(bus, m) /\ UNCHANGED <<proxy, owned, state, destroyed>>
      /\ bus \in Seq(Messages) /\ state \in States
  BY DEF Answered, TileType, TypeOK, Calls, serviceVars, tileVars
<1>2. c \in Calls
  BY <1>1, HeadTailProperties
<1>3. /\ m \in Messages
      /\ m.kind = (CASE c = "get" -> "age" [] c = "new" -> "proxy"
                     [] c \notin {"get", "new"} -> c)
      /\ c # "get" => m.props = IF owned THEN state ELSE NoProperties
  BY <1>2, AnswerType
<1>4. \A x : Asked(calls, x) /\ c # x => Asked(calls', x)
  BY <1>1, AskedTail
<1> HIDE DEF c, m
<1>5. SUFFICES ASSUME owned PROVE ProxyInv'
  BY <1>1 DEF ProxyInv
<1>6. \A f \in Drawn : f \in DOMAIN state
  BY <1>1, StatePartial, PropertyNames DEF Drawn
<1>7. CASE c = "get"
  <2>1. \A f \in Drawn : ~Sets(m, f)
    BY <1>3, <1>7 DEF Sets
  <2> QED BY <1>1, <1>3, <1>4, <1>7, <2>1, ProxySent
<1>8. CASE c = "new"
  <2>1. m.kind = "proxy" /\ m.props = state
    BY <1>3, <1>5, <1>8
  <2>2. Alive(proxy', bus')
    BY <1>1, <1>3, <2>1, HasAppend DEF Alive
  <2>3. ASSUME NEW f \in Drawn PROVE Brings(proxy', bus', f, state'[f])
    <3>1. Sets(m, f) /\ f \in DOMAIN m.props /\ m.props[f] = state'[f]
      BY <1>1, <1>6, <2>1 DEF Sets
    <3> QED BY <1>1, <1>3, <2>1, <3>1, BringsAppend
  <2> QED BY <2>2, <2>3 DEF ProxyInv
<1>9. CASE c = "reload"
  <2>1. m.kind = "reload" /\ m.props = state
    BY <1>3, <1>5, <1>9
  <2>2. Alive(proxy, bus) => Alive(proxy', bus')
    BY <1>1, <1>3, HasAppend DEF Alive
  <2>3. ASSUME Alive(proxy, bus), NEW f \in Drawn
        PROVE  Brings(proxy', bus', f, state'[f])
    <3>1. Sets(m, f) /\ f \in DOMAIN m.props /\ m.props[f] = state'[f]
      BY <1>1, <1>6, <2>1 DEF Sets
    <3> QED BY <1>1, <1>3, <2>3, <3>1, BringsAppend
  <2>4. Asked(calls, "new") => Asked(calls', "new")
    BY <1>4, <1>9
  <2>5. Has(bus, "appeared") => Has(bus', "appeared")
    BY <1>1, <1>3, HasAppend
  <2> QED BY <1>1, <2>2, <2>3, <2>4, <2>5 DEF ProxyInv
<1>10. CASE c = "reloadLost"
  <2>1. m.kind = "reloadLost"
    BY <1>3, <1>10
  <2>2. \A f \in Drawn : ~Sets(m, f)
    BY <2>1 DEF Sets
  <2> QED BY <1>1, <1>3, <1>4, <1>10, <2>2, ProxySent
<1> QED BY <1>2, <1>7, <1>8, <1>9, <1>10 DEF Calls

\* The appearance of the name is received.
LEMMA ProxyAppeared ==
    ASSUME TileType, ~destroyed, OnAppeared
    PROVE  ProxyInv' /\ \A x : Asked(calls, x) => Asked(calls', x)
<1>1. PICK y \in Seq(Calls) :
         /\ calls' = (calls \o Times(lost, "reloadLost")) \o y
         /\ proxy = NoProxy => y = <<"new">>
         /\ proxy # NoProxy => y = <<"reload">>
  BY AppearedAsks
<1>2. calls \in Seq(Calls) /\ Times(lost, "reloadLost") \in Seq(Calls)
  <2>1. lost \in Nat /\ "reloadLost" \in Calls /\ calls \in Seq(Calls)
    BY DEF TileType, TypeOK, Calls
  <2> QED BY <2>1, TimesType
<1>3. calls \o Times(lost, "reloadLost") \in Seq(Calls)
  BY <1>2, ConcatProperties
<1>4. ASSUME NEW x PROVE Asked(calls, x) \/ Asked(y, x) => Asked(calls', x)
  <2>1. Asked(calls, x) => Asked(calls \o Times(lost, "reloadLost"), x)
    BY <1>2, AskedConcat
  <2> QED BY <1>1, <1>3, <2>1, AskedConcat
<1>5. proxy' = proxy
  BY DEF OnAppeared, tileVars
<1>6. CASE proxy = NoProxy
  <2>0. Len(y) = 1 /\ y[1] = "new"
    BY <1>1, <1>6
  <2>1. Asked(y, "new")
    BY <2>0 DEF Asked
  <2> QED BY <1>4, <2>1 DEF ProxyInv
<1>7. CASE proxy # NoProxy
  <2>0. Len(y) = 1 /\ y[1] = "reload"
    BY <1>1, <1>7
  <2>1. Asked(y, "reload")
    BY <2>0 DEF Asked
  <2> QED BY <1>4, <1>5, <1>7, <2>1 DEF ProxyInv, Alive
<1> QED BY <1>6, <1>7

LEMMA ProxyStep ==
    ASSUME TileType, ServiceInv, NameInv, ProxyInv, [Next]_vars
    PROVE  ProxyInv'
<1> SUFFICES ASSUME ~destroyed, ~destroyed' PROVE ProxyInv'
  <2>1. destroyed => destroyed'
    BY DEF Next, Daemon, Shell, Cancelled, OnAppeared, OnProxy, OnVanished,
           LostProxyVanishes, OnPropertiesChanged, OnReloaded, OnLostReloaded, OnAge,
           StaleTimerFires, Destroy, LostProxyCollected, SessionBus, Answered,
           Activates, HeldAnswered, tileVars, vars
  <2> QED BY <2>1 DEF ProxyInv
<1>1. ASSUME UNCHANGED <<proxy, bus, owned, state>>,
             \A x : Asked(calls, x) => Asked(calls', x)
      PROVE  ProxyInv'
  BY <1>1, ProxyKept
<1>2. lost \in Nat /\ calls \in Seq(Calls) /\ bus \in Seq(Messages)
  BY DEF TileType, TypeOK, Calls
<1>3. CASE Daemon
  BY <1>3, ProxyService DEF Daemon, tileVars
<1>4. CASE OnAppeared
  BY <1>4, ProxyAppeared
<1>5. CASE OnProxy
  <2>1. Refresh(1) /\ Receive("proxy")
    BY <1>5 DEF OnProxy
  <2>2. \A x : Asked(calls, x) => Asked(calls', x)
    BY <2>1, RefreshAsks
  <2> QED BY <1>5, <2>1, <2>2, ProxyApplies, ProxyReceived
<1>6. CASE OnVanished
  <2>1. /\ Receive("vanished") /\ bus[1].kind = "vanished" /\ bus # <<>> /\ Len(bus) > 0
        /\ bus' = Tail(bus) /\ owned' = owned
    BY <1>6, ReceiveType DEF OnVanished, serviceVars
  <2>2. ASSUME owned PROVE Has(bus, "appeared")
    <3>1. Len(bus) \in Nat /\ 1 \in 1..Len(bus)
      BY <1>2, <2>1
    <3>2. PICK j \in (1 + 1)..Len(bus) : bus[j].kind = "appeared"
      BY <2>1, <2>2, <3>1 DEF NameInv
    <3>3. j \in 1..Len(bus)
      BY <3>1
    <3> QED BY <3>2, <3>3 DEF Has
  <2>3. owned => Has(bus', "appeared")
    BY <1>2, <2>1, <2>2, HasTail
  <2> QED BY <2>1, <2>3 DEF ProxyInv
<1>7. CASE OnPropertiesChanged
  <2>1. Receive("changed") /\ Refresh(IF proxy = NoProxy THEN lost ELSE lost + 1)
    BY <1>7 DEF OnPropertiesChanged
  <2>2. (IF proxy = NoProxy THEN lost ELSE lost + 1) \in Nat
    BY <1>2
  <2>3. \A x : Asked(calls, x) => Asked(calls', x)
    BY <2>1, <2>2, RefreshAsks
  <2> QED BY <1>7, <2>1, <2>3, ProxyApplies, ProxyReceived
<1>8. CASE OnReloaded
  <2>1. Receive("reload") /\ Refresh(IF proxy = NoProxy THEN 0 ELSE 1)
    BY <1>8 DEF OnReloaded
  <2>2. (IF proxy = NoProxy THEN 0 ELSE 1) \in Nat
    OBVIOUS
  <2>3. \A x : Asked(calls, x) => Asked(calls', x)
    BY <2>1, <2>2, RefreshAsks
  <2> QED BY <1>8, <2>1, <2>3, ProxyApplies, ProxyReceived
<1>9. CASE OnLostReloaded
  <2>1. Receive("reloadLost") /\ Refresh(IF lost = 0 THEN 0 ELSE 1)
    BY <1>9 DEF OnLostReloaded
  <2>2. (IF lost = 0 THEN 0 ELSE 1) \in Nat
    OBVIOUS
  <2>3. \A x : Asked(calls, x) => Asked(calls', x)
    BY <2>1, <2>2, RefreshAsks
  <2> QED BY <1>9, <2>1, <2>3, ProxyApplies, ProxyReceived
<1>10. CASE OnAge
  <2>1. Receive("age") /\ UNCHANGED calls
    BY <1>10 DEF OnAge
  <2> QED BY <1>10, <2>1, ProxyApplies, ProxyReceived
<1>11. CASE StaleTimerFires
  <2>1. \A x : Asked(calls, x) => Asked(calls', x)
    BY <1>11, RefreshAsks DEF StaleTimerFires
  <2> QED BY <1>1, <1>11, <2>1 DEF StaleTimerFires, serviceVars
<1>12. CASE LostProxyCollected
  BY <1>1, <1>12 DEF LostProxyCollected, serviceVars
<1>13. CASE Answered
  BY <1>13, ProxyAnswered
<1>14. ASSUME bus' = Append(bus, Answer("get")), UNCHANGED <<proxy, owned, state>>,
              Asked(calls, "new") => Asked(calls', "new"),
              Asked(calls, "reload") => Asked(calls', "reload")
       PROVE  ProxyInv'
  <2>1. "get" \in Calls
    BY DEF Calls
  <2>2. Answer("get") \in Messages /\ Answer("get").kind = "age"
    BY <2>1, AnswerType
  <2>3. \A f \in Drawn : ~Sets(Answer("get"), f)
    BY <2>2 DEF Sets
  <2> QED BY <1>14, <2>2, <2>3, ProxySent
<1>15. CASE HeldAnswered
  BY <1>14, <1>15 DEF HeldAnswered, serviceVars, tileVars
<1>16. CASE Activates
  <2>1. ~owned
    BY <1>16 DEF Activates, WaitsForOwner
  <2>2. ~owned'
    BY <1>16, <2>1 DEF Activates, DaemonStarts, serviceVars
  <2> QED BY <2>2 DEF ProxyInv
<1>17. CASE UNCHANGED vars
  BY <1>1, <1>17 DEF vars, serviceVars, tileVars
<1> QED
  BY <1>3, <1>4, <1>5, <1>6, <1>7, <1>8, <1>9, <1>10, <1>11, <1>12, <1>13, <1>15,
     <1>16, <1>17
     DEF Next, Shell, SessionBus, Cancelled, LostProxyVanishes, Destroy

LEMMA NameStep ==
    ASSUME TileType, ServiceInv, NameInv, [Next]_vars
    PROVE  NameInv'
<1>0. bus \in Seq(Messages) /\ Len(bus) \in Nat
  BY DEF TileType
<1>1. ASSUME UNCHANGED <<bus, owned>> PROVE NameInv'
  BY <1>1 DEF NameInv
<1>2. ASSUME NEW k, Receive(k) PROVE NameInv'
  <2>1. /\ bus # <<>> /\ bus' = Tail(bus) /\ owned' = owned
    BY <1>2, ReceiveType DEF serviceVars
  <2>2. /\ Len(bus) >= 1 /\ Len(bus') = Len(bus) - 1
        /\ \A i \in 1..(Len(bus) - 1) : bus'[i] = bus[i + 1]
    BY <1>0, <2>1, TailFacts
  <2>3. ASSUME owned, NEW i \in 1..Len(bus'), bus'[i].kind = "vanished"
        PROVE  \E j \in (i + 1)..Len(bus') : bus'[j].kind = "appeared"
    <3>1. i + 1 \in 1..Len(bus) /\ bus[i + 1].kind = "vanished"
      BY <1>0, <2>2, <2>3
    <3>2. PICK j \in (i + 1 + 1)..Len(bus) : bus[j].kind = "appeared"
      BY <2>3, <3>1 DEF NameInv
    <3>3. j - 1 \in (i + 1)..Len(bus') /\ bus'[j - 1] = bus[j]
      BY <1>0, <2>2
    <3> QED BY <3>2, <3>3
  <2> QED BY <2>1, <2>3 DEF NameInv
<1>3. ASSUME NEW m \in Messages, bus' = Append(bus, m),
             m.kind = "appeared" \/ (m.kind # "vanished" /\ (owned' => owned)) \/ ~owned'
      PROVE  NameInv'
  <2>1. /\ Len(bus') = Len(bus) + 1 /\ bus'[Len(bus) + 1] = m
        /\ \A i \in 1..Len(bus) : bus'[i] = bus[i]
    BY <1>0, <1>3, AppendProperties
  <2>2. ASSUME owned', NEW i \in 1..Len(bus'), bus'[i].kind = "vanished"
        PROVE  \E j \in (i + 1)..Len(bus') : bus'[j].kind = "appeared"
    <3>1. m.kind # "vanished"
      BY <1>3, <2>2
    <3>2. i \in 1..Len(bus) /\ bus[i].kind = "vanished"
      BY <1>0, <2>1, <2>2, <3>1
    <3>3. CASE m.kind = "appeared"
      <4>1. Len(bus) + 1 \in (i + 1)..Len(bus')
        BY <1>0, <2>1, <3>2
      <4> QED BY <2>1, <3>3, <4>1
    <3>4. CASE m.kind # "appeared"
      <4>1. PICK j \in (i + 1)..Len(bus) : bus[j].kind = "appeared"
        BY <1>3, <2>2, <3>2, <3>4 DEF NameInv
      <4>2. j \in (i + 1)..Len(bus') /\ bus'[j] = bus[j]
        BY <1>0, <2>1, <3>2
      <4> QED BY <4>1, <4>2
    <3> QED BY <3>3, <3>4
  <2> QED BY <2>2 DEF NameInv
<1>4. [kind |-> "appeared"] \in Messages /\ [kind |-> "vanished"] \in Messages
  BY DEF Messages
<1>5. ASSUME ServiceNext PROVE NameInv'
  <2>1. /\ state \in States /\ state' \in States
        /\ \/ UNCHANGED <<bus, owned>>
           \/ owned /\ owned' /\ bus' = Append(bus, Changed(state, state'))
           \/ ~owned /\ owned' /\ bus' = Append(bus, [kind |-> "appeared"])
           \/ owned /\ ~owned' /\ bus' = Append(bus, [kind |-> "vanished"])
    BY <1>5, ServiceCases DEF TileType, TypeOK
  <2>2. CASE owned /\ owned' /\ bus' = Append(bus, Changed(state, state'))
    <3>1. Changed(state, state') \in Messages
          /\ Changed(state, state').kind = "changed"
      BY <2>1, ChangedType
    <3> QED BY <1>3, <2>2, <3>1
  <2> QED BY <1>1, <1>3, <1>4, <2>1, <2>2
<1>6. ASSUME NEW c \in Calls, bus' = Append(bus, Answer(c)), UNCHANGED owned
      PROVE  NameInv'
  <2>1. Answer(c) \in Messages /\ Answer(c).kind # "vanished"
    BY AnswerType DEF Calls
  <2> QED BY <1>3, <1>6, <2>1
<1>7. "get" \in Calls /\ (calls # <<>> => Head(calls) \in Calls)
  BY HeadTailProperties DEF TileType, TypeOK, Calls
<1>8. CASE Daemon
  BY <1>5, <1>8 DEF Daemon
<1>9. CASE Shell
  BY <1>1, <1>2, <1>9
     DEF Shell, Cancelled, OnAppeared, OnProxy, OnVanished,
         LostProxyVanishes, OnPropertiesChanged, OnReloaded, OnLostReloaded, OnAge,
         StaleTimerFires, Destroy, serviceVars
<1>10. CASE SessionBus
  <2>1. CASE Activates
    <3>1. CASE DaemonStarts
      BY <1>5, <3>1 DEF ServiceNext
    <3> QED BY <1>1, <1>6, <1>7, <2>1, <3>1 DEF Activates, serviceVars
  <2> QED BY <1>6, <1>7, <1>10, <2>1
       DEF SessionBus, Answered, HeldAnswered, serviceVars
<1>11. CASE LostProxyCollected \/ UNCHANGED vars
  BY <1>1, <1>11 DEF LostProxyCollected, vars, serviceVars
<1> QED BY <1>8, <1>9, <1>10, <1>11 DEF Next

LEMMA ViewStep ==
    ASSUME TileType, ServiceInv, ViewInv, [Next]_vars
    PROVE  ViewInv'
<1>0. /\ bus \in Seq(Messages) /\ calls \in Seq(Calls) /\ held \in Nat /\ lost \in Nat
      /\ proxy \in Partial \cup {NoProxy}
  BY DEF TileType, TypeOK, Calls
<1>1. ASSUME destroyed' \/ proxy' = NoProxy PROVE ViewInv'
  BY <1>1 DEF ViewInv
<1>2. ASSUME Asked(calls', "get") \/ held' > 0 \/ Has(bus', "age") PROVE ViewInv'
  BY <1>2 DEF ViewInv
<1>3. ASSUME destroyed => destroyed', UNCHANGED <<proxy, view>>,
             Asked(calls, "get") => Asked(calls', "get"), held' = held,
             Has(bus, "age") => Has(bus', "age")
      PROVE  ViewInv'
  BY <1>3 DEF ViewInv, CachedNow
<1>4. ASSUME NEW k, Receive(k), k # "age"
      PROVE  held' = held /\ (Has(bus, "age") => Has(bus', "age"))
  BY <1>0, <1>4, ReceiveType, HasTail
<1>5. ASSUME NEW m \in Messages, bus' = Append(bus, m)
      PROVE  /\ Has(bus, "age") => Has(bus', "age")
             /\ m.kind = "age" => Has(bus', "age")
  BY <1>0, <1>5, HasAppend
<1>6. CASE Daemon
  <2>1. ServiceNext /\ UNCHANGED <<proxy, view, destroyed, calls, held>>
    BY <1>6 DEF Daemon, tileVars
  <2>2. /\ state \in States /\ state' \in States
        /\ \/ bus' = bus
           \/ bus' = Append(bus, Changed(state, state'))
           \/ bus' = Append(bus, [kind |-> "appeared"])
           \/ bus' = Append(bus, [kind |-> "vanished"])
    BY <2>1, ServiceCases DEF TileType, TypeOK
  <2>3. Changed(state, state') \in Messages
    BY <2>2, ChangedType
  <2>4. [kind |-> "appeared"] \in Messages /\ [kind |-> "vanished"] \in Messages
    BY DEF Messages
  <2>5. Has(bus, "age") => Has(bus', "age")
    BY <1>5, <2>2, <2>3, <2>4
  <2> QED BY <1>3, <2>1, <2>5
<1>7. CASE Cancelled \/ LostProxyVanishes \/ Destroy
  <2>1. CASE Cancelled
    BY <1>1, <2>1 DEF Cancelled, tileVars
  <2>2. CASE LostProxyVanishes
    BY <1>1, <2>2 DEF LostProxyVanishes
  <2>3. CASE Destroy
    BY <1>1, <2>3 DEF Destroy
  <2> QED BY <1>7, <2>1, <2>2, <2>3
<1>8. CASE OnAppeared
  <2>1. Receive("appeared") /\ UNCHANGED <<proxy, view, destroyed>>
    BY <1>8 DEF OnAppeared, tileVars
  <2>2. CASE destroyed
    BY <1>1, <2>1, <2>2
  <2>3. CASE ~destroyed
    <3>1. Asked(calls, "get") => Asked(calls', "get")
      BY <1>8, <2>3, ProxyAppeared
    <3> QED BY <1>3, <1>4, <2>1, <3>1
  <2> QED BY <2>2, <2>3
<1>9. ASSUME NEW n \in Nat, n > 0, Refresh(n) PROVE ViewInv'
  BY <1>1, <1>2, <1>9, RefreshAsks
<1>10. CASE OnProxy
  BY <1>9, <1>10 DEF OnProxy
<1>11. CASE OnVanished
  BY <1>1, <1>11 DEF OnVanished
<1>12. CASE OnPropertiesChanged
  <2>1. CASE proxy = NoProxy
    BY <1>1, <1>12, <2>1 DEF OnPropertiesChanged
  <2>2. CASE proxy # NoProxy
    <3>1. lost + 1 \in Nat /\ lost + 1 > 0
      BY <1>0
    <3>2. Refresh(lost + 1)
      BY <1>12, <2>2 DEF OnPropertiesChanged
    <3> QED BY <1>9, <3>1, <3>2
  <2> QED BY <2>1, <2>2
<1>13. CASE OnReloaded
  <2>1. CASE proxy = NoProxy
    BY <1>1, <1>13, <2>1 DEF OnReloaded
  <2>2. CASE proxy # NoProxy
    <3>1. Refresh(1)
      BY <1>13, <2>2 DEF OnReloaded
    <3> QED BY <1>9, <3>1
  <2> QED BY <2>1, <2>2
<1>14. CASE OnLostReloaded
  <2>1. /\ Receive("reloadLost") /\ UNCHANGED <<proxy, destroyed>>
        /\ Refresh(IF lost = 0 THEN 0 ELSE 1)
    BY <1>14 DEF OnLostReloaded
  <2>2. (IF lost = 0 THEN 0 ELSE 1) \in Nat
    OBVIOUS
  <2>3. CASE proxy' = NoProxy
    BY <1>1, <2>3
  <2>4. CASE proxy' # NoProxy
    <3>1. UNCHANGED view /\ (Asked(calls, "get") => Asked(calls', "get"))
      BY <2>1, <2>2, <2>4, RefreshAsks
    <3> QED BY <1>3, <1>4, <2>1, <3>1
  <2> QED BY <2>3, <2>4
<1>15. CASE OnAge
  <2>1. Render(TRUE)
    BY <1>15 DEF OnAge
  <2>2. CachedNow("open")' = Cached("open") /\ CachedNow("battery")' = Cached("battery")
    BY DEF CachedNow, Cached
  <2>3. /\ view'.present /\ view'.open = Cached("open")
        /\ view'.battery = Cached("battery")
    BY <2>1 DEF Render
  <2> QED BY <2>2, <2>3 DEF ViewInv
<1>16. CASE StaleTimerFires
  BY <1>9, <1>16 DEF StaleTimerFires
<1>17. CASE LostProxyCollected \/ UNCHANGED vars
  BY <1>3, <1>17 DEF LostProxyCollected, vars, tileVars
<1>18. "get" \in Calls
  BY DEF Calls
<1>19. ASSUME bus' = Append(bus, Answer("get")) PROVE Has(bus', "age")
  <2>1. Answer("get") \in Messages /\ Answer("get").kind = "age"
    BY <1>18, AnswerType
  <2> QED BY <1>5, <1>19, <2>1
<1>20. CASE Answered
  <2>1. /\ calls # <<>> /\ calls' = Tail(calls) /\ bus' = Append(bus, Answer(Head(calls)))
        /\ UNCHANGED <<proxy, view, destroyed, held>>
    BY <1>20 DEF Answered, tileVars
  <2>2. CASE Head(calls) = "get"
    BY <1>2, <1>19, <2>1, <2>2
  <2>3. CASE Head(calls) # "get"
    <3>1. Asked(calls, "get") => Asked(calls', "get")
      BY <1>0, <2>1, <2>3, AskedTail
    <3>2. Head(calls) \in Calls
      BY <1>0, <2>1, HeadTailProperties
    <3>3. Answer(Head(calls)) \in Messages
      BY <3>2, AnswerType
    <3>4. Has(bus, "age") => Has(bus', "age")
      BY <1>5, <2>1, <3>3
    <3> QED BY <1>3, <2>1, <3>1, <3>4
  <2> QED BY <2>2, <2>3
<1>21. CASE HeldAnswered
  BY <1>2, <1>19, <1>21 DEF HeldAnswered
<1>22. CASE Activates
  <2>1. held' = held + 1 \/ bus' = Append(bus, Answer("get"))
    BY <1>22 DEF Activates
  <2>2. held' = held + 1 => held' > 0
    BY <1>0
  <2> QED BY <1>2, <1>19, <2>1, <2>2
<1> QED
  BY <1>6, <1>7, <1>8, <1>10, <1>11, <1>12, <1>13, <1>14, <1>15, <1>16, <1>17,
     <1>20, <1>21, <1>22 DEF Next, Shell, SessionBus

LEMMA DrawnStart == Init => NameInv /\ ProxyInv /\ ViewInv
<1> SUFFICES ASSUME Init PROVE NameInv /\ ProxyInv /\ ViewInv
  OBVIOUS
<1> DEFINE m == [kind |-> IF running THEN "appeared" ELSE "vanished"]
<1>1. bus = <<m>> /\ proxy = NoProxy /\ owned = running
  BY DEF Init
<1>2. m.kind = IF running THEN "appeared" ELSE "vanished"
  OBVIOUS
<1> HIDE DEF m
<1>3. Len(bus) = 1 /\ bus[1] = m
  BY <1>1
<1>4. owned => Has(bus, "appeared")
  BY <1>1, <1>2, <1>3 DEF Has
<1>5. owned => \A i \in 1..Len(bus) : bus[i].kind # "vanished"
  BY <1>1, <1>2, <1>3
<1> QED BY <1>1, <1>4, <1>5 DEF NameInv, ProxyInv, ViewInv

\* With nothing under way the invariants leave only one thing to be drawn.
LEMMA QuietDraws ==
    ASSUME TileType, ServiceInv, ProxyInv, ViewInv
    PROVE  DrawnIsPublished
<1> SUFFICES ASSUME bus = <<>>, calls = <<>>, held = 0, owned, ~destroyed
             PROVE  /\ view.present
                    /\ view.open = feed.open
                    /\ view.battery = feed.battery
  BY DEF DrawnIsPublished, Quiet
<1>1. \A k : ~Has(bus, k) /\ ~Asked(calls, k)
  BY DEF Has, Asked
<1>2. /\ proxy # NoProxy
      /\ \A f \in Drawn : Brings(proxy, bus, f, state[f])
  BY <1>1 DEF ProxyInv, Alive
<1>3. \A f \in Drawn : f \in DOMAIN proxy /\ proxy[f] = state[f]
  <2>1. Len(bus) = 0
    OBVIOUS
  <2>2. 1..Len(bus) = {}
    BY <2>1
  <2> QED BY <1>2, <2>2 DEF Brings
<1>4. /\ view.present
      /\ view.open = CachedNow("open") /\ view.battery = CachedNow("battery")
  BY <1>1, <1>2 DEF ViewInv
<1>5. CachedNow("open") = state["open"] /\ CachedNow("battery") = state["battery"]
  BY <1>2, <1>3 DEF CachedNow, Drawn
<1> QED BY <1>4, <1>5 DEF ServiceInv

\* For any number of restarts, proxies and messages under way: when the bus has
\* gone quiet the tile draws what the pump published last.
THEOREM DrawnCorrect == Spec => []DrawnIsPublished
<1> DEFINE Inv == NameInv /\ ProxyInv /\ ViewInv
<1>1. Init => Inv
  BY DrawnStart
<1>2. TileType /\ ServiceInv /\ Inv /\ [Next]_vars => Inv'
  BY NameStep, ProxyStep, ViewStep
<1>3. TileType /\ ServiceInv /\ Inv => DrawnIsPublished
  BY QuietDraws
<1> HIDE DEF Inv
<1> QED BY <1>1, <1>2, <1>3, TileTypeInvariant, PTL DEF Spec
=============================================================================
