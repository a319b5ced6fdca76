--------------------------- MODULE WatchingProofs ---------------------------
(***************************************************************************)
(* Proofs about the watching of the rooms: what the outbox says, and that  *)
(* the tables and the consumer's projection say the same, for any number   *)
(* of rooms, accounts, faults and changes; about the breaker of the        *)
(* gateway that asks for them; and about the credential that it asks with. *)
(*                                                                         *)
(* The first part is about logs alone: what a log says of a room when the  *)
(* events of one transaction are added behind it.                          *)
(***************************************************************************)
EXTENDS RoomMonitor, Gateway, ServiceCredential, FiniteSetTheorems, SequenceTheorems, TLAPS

Kinds == {"state", "refs"}

\* What the first n events of a log say of a room: Said, StateAt, EpochAt and
\* AccountsAt for any log, and the number of broadcasts that they open.
Spoken(log, r, kind, n) == {i \in 1..n : log[i].kind = kind /\ log[i].room = r}
StateSaid(log, r, n) == LET S == Spoken(log, r, "state", n) IN
  IF S = {} THEN "offline" ELSE log[Latest(S)].to
EpochSaid(log, r, n) == 1 + Cardinality(Spoken(log, r, "state", n))
AccountsSaid(log, r, n) == LET S == Spoken(log, r, "refs", n) IN
  IF S = {} THEN {} ELSE log[Latest(S)].accounts
Broadcasts(log, r, n) == {i \in Spoken(log, r, "state", n) : log[i].new}

LEMMA OutboxForm ==
  \A r, n : /\ StateAt(r, n) = StateSaid(outbox, r, n)
            /\ EpochAt(r, n) = EpochSaid(outbox, r, n)
            /\ AccountsAt(r, n) = AccountsSaid(outbox, r, n)
            /\ {i \in Said(r, "state", n) : outbox[i].new} = Broadcasts(outbox, r, n)
BY DEF StateAt, EpochAt, AccountsAt, Said, StateSaid, EpochSaid, AccountsSaid, Broadcasts, Spoken

\* Of what is said of a room there is a last event.
Ranked(log) ==
  \A r \in Rooms, kind \in Kinds, n \in 0..Len(log) :
    Spoken(log, r, kind, n) # {} =>
      \E m \in Spoken(log, r, kind, n) : \A j \in Spoken(log, r, kind, n) : j <= m

\* Every transition starts where the one before it ended.
Faithful(log) ==
  \A i \in 1..Len(log) : log[i].kind = "state" =>
    /\ log[i].from = StateSaid(log, log[i].room, i - 1)
    /\ log[i].epoch = EpochSaid(log, log[i].room, i)

\* A transaction says one thing of a kind of a room.
Sole(events) ==
  \A i, j \in 1..Len(events) :
    events[i].kind = events[j].kind /\ events[i].room = events[j].room => i = j

LEMMA LatestIs ==
  ASSUME NEW S \in SUBSET Nat, NEW m \in S, \A j \in S : j <= m
  PROVE  Latest(S) = m
<1>1. m \in S /\ \A j \in S : j <= m
  OBVIOUS
<1>2. Latest(S) \in S /\ \A j \in S : j <= Latest(S)
  BY <1>1 DEF Latest
<1>3. Latest(S) <= m /\ m <= Latest(S) /\ m \in Nat /\ Latest(S) \in Nat
  BY <1>2
<1> QED
  BY <1>3

LEMMA EventFields ==
  ASSUME NEW log \in Seq(Events), NEW i \in 1..Len(log)
  PROVE  /\ log[i] \in Events /\ log[i].kind \in Kinds /\ log[i].room \in Rooms
         /\ log[i].kind = "state" =>
              log[i].from \in States /\ log[i].to \in States /\ log[i].epoch \in Nat /\ log[i].new \in BOOLEAN
         /\ log[i].kind = "refs" => log[i].accounts \in SUBSET People
<1>1. log[i] \in Events
  BY ElementOfSeq
<1> QED
  BY <1>1 DEF Events, Kinds

LEMMA SpokenFinite ==
  ASSUME NEW log, NEW r, NEW kind, NEW n \in Nat
  PROVE  /\ IsFiniteSet(Spoken(log, r, kind, n)) /\ Spoken(log, r, kind, n) \subseteq 1..n
         /\ Spoken(log, r, kind, n) \in SUBSET Nat
         /\ Cardinality(Spoken(log, r, kind, n)) \in Nat
         /\ IsFiniteSet(Broadcasts(log, r, n)) /\ Cardinality(Broadcasts(log, r, n)) \in Nat
<1>1. IsFiniteSet(1..n)
  BY FS_Interval
<1>2. Spoken(log, r, kind, n) \subseteq 1..n /\ Broadcasts(log, r, n) \subseteq 1..n
  BY DEF Spoken, Broadcasts
<1>3. IsFiniteSet(Spoken(log, r, kind, n)) /\ IsFiniteSet(Broadcasts(log, r, n))
  BY <1>1, <1>2, FS_Subset
<1> QED
  BY <1>2, <1>3, FS_CardinalityType

\* The first n events of the other log say of a room what the first m of the log say.
Alike(other, n, log, m, r, kind) ==
  /\ r \in Rooms /\ kind \in Kinds /\ n \in Nat /\ m \in 0..n /\ m <= Len(log) /\ Len(log) \in Nat
  /\ Ranked(log) /\ (\A i \in 1..m : other[i] = log[i])
  /\ Spoken(other, r, kind, n) = Spoken(log, r, kind, m)

LEMMA SameSaid ==
  ASSUME NEW log, NEW other, NEW r, NEW n, NEW m, NEW kind, Alike(other, n, log, m, r, kind)
  PROVE  /\ kind = "state" => /\ StateSaid(other, r, n) = StateSaid(log, r, m)
                              /\ EpochSaid(other, r, n) = EpochSaid(log, r, m)
                              /\ Broadcasts(other, r, n) = Broadcasts(log, r, m)
         /\ kind = "refs" => AccountsSaid(other, r, n) = AccountsSaid(log, r, m)
<1> USE DEF Alike
<1> DEFINE S == Spoken(log, r, kind, m)
<1>1. S \in SUBSET Nat /\ S \subseteq 1..m
  BY SpokenFinite
<1>2. S # {} => Latest(S) \in S
  <2>1. SUFFICES ASSUME S # {} PROVE Latest(S) \in S
    OBVIOUS
  <2>2. PICK x \in S : \A j \in S : j <= x
    BY <2>1 DEF Ranked
  <2> QED
    BY <2>2, <1>1, LatestIs
<1>3. S # {} => other[Latest(S)] = log[Latest(S)]
  BY <1>1, <1>2
<1>4. kind = "state" => /\ StateSaid(other, r, n) = StateSaid(log, r, m)
                        /\ EpochSaid(other, r, n) = EpochSaid(log, r, m)
  BY <1>3 DEF StateSaid, EpochSaid
<1>5. kind = "refs" => AccountsSaid(other, r, n) = AccountsSaid(log, r, m)
  BY <1>3 DEF AccountsSaid
<1>6. kind = "state" => Broadcasts(other, r, n) = Broadcasts(log, r, m)
  BY <1>1 DEF Broadcasts
<1> QED
  BY <1>4, <1>5, <1>6

\* Behind a log: what was said before stays said.
LEMMA Before ==
  ASSUME NEW log \in Seq(Events), NEW events \in Seq(Events), Ranked(log)
  PROVE  /\ log \o events \in Seq(Events) /\ Len(log \o events) = Len(log) + Len(events)
         /\ Len(log) \in Nat /\ Len(events) \in Nat
         /\ \A i \in 1..Len(log) : (log \o events)[i] = log[i]
         /\ \A i \in 1..Len(events) : (log \o events)[Len(log) + i] = events[i]
         /\ \A r \in Rooms, n \in 0..Len(log) :
              /\ \A kind \in Kinds : Spoken(log \o events, r, kind, n) = Spoken(log, r, kind, n)
              /\ StateSaid(log \o events, r, n) = StateSaid(log, r, n)
              /\ EpochSaid(log \o events, r, n) = EpochSaid(log, r, n)
              /\ Broadcasts(log \o events, r, n) = Broadcasts(log, r, n)
              /\ AccountsSaid(log \o events, r, n) = AccountsSaid(log, r, n)
<1> DEFINE both == log \o events
<1>1. both \in Seq(Events) /\ Len(both) = Len(log) + Len(events) /\ Len(log) \in Nat /\ Len(events) \in Nat
  BY ConcatProperties, LenProperties
<1>2. /\ \A i \in 1..Len(log) : both[i] = log[i]
      /\ \A i \in 1..Len(events) : both[Len(log) + i] = events[i]
  BY <1>1, ConcatProperties
<1>3. ASSUME NEW r \in Rooms, NEW n \in 0..Len(log)
      PROVE  /\ \A kind \in Kinds : Spoken(both, r, kind, n) = Spoken(log, r, kind, n)
             /\ StateSaid(both, r, n) = StateSaid(log, r, n)
             /\ EpochSaid(both, r, n) = EpochSaid(log, r, n)
             /\ Broadcasts(both, r, n) = Broadcasts(log, r, n)
             /\ AccountsSaid(both, r, n) = AccountsSaid(log, r, n)
  <2>1. \A i \in 1..n : both[i] = log[i]
    BY <1>1, <1>2
  <2>2. \A kind \in Kinds : Spoken(both, r, kind, n) = Spoken(log, r, kind, n)
    BY <2>1 DEF Spoken
  <2>3. n \in Nat /\ n \in 0..n /\ n <= Len(log)
    BY <1>1
  <2> HIDE DEF both
  <2>4. Alike(both, n, log, n, r, "state") /\ Alike(both, n, log, n, r, "refs")
    BY <1>1, <2>1, <2>2, <2>3 DEF Kinds, Alike
  <2>5. /\ StateSaid(both, r, n) = StateSaid(log, r, n)
        /\ EpochSaid(both, r, n) = EpochSaid(log, r, n)
        /\ Broadcasts(both, r, n) = Broadcasts(log, r, n)
    BY <2>4, SameSaid
  <2>6. AccountsSaid(both, r, n) = AccountsSaid(log, r, n)
    BY <2>4, SameSaid
  <2> QED
    BY <2>2, <2>5, <2>6
<1> QED
  BY <1>1, <1>2, <1>3

\* Behind a log: nothing new is said of a room.
LEMMA Silent ==
  ASSUME NEW log \in Seq(Events), NEW events \in Seq(Events), Ranked(log),
         NEW r \in Rooms, NEW kind \in Kinds, NEW n \in Len(log)..Len(log) + Len(events),
         \A i \in 1..n - Len(log) : ~(events[i].kind = kind /\ events[i].room = r)
  PROVE  /\ Spoken(log \o events, r, kind, n) = Spoken(log, r, kind, Len(log))
         /\ kind = "state" => /\ StateSaid(log \o events, r, n) = StateSaid(log, r, Len(log))
                              /\ EpochSaid(log \o events, r, n) = EpochSaid(log, r, Len(log))
                              /\ Broadcasts(log \o events, r, n) = Broadcasts(log, r, Len(log))
         /\ kind = "refs" => AccountsSaid(log \o events, r, n) = AccountsSaid(log, r, Len(log))
<1> DEFINE both == log \o events
<1>1. /\ Len(log) \in Nat /\ Len(events) \in Nat
      /\ \A i \in 1..Len(log) : both[i] = log[i]
      /\ \A i \in 1..Len(events) : both[Len(log) + i] = events[i]
  BY Before
<1>2. n \in Nat /\ Len(log) \in 0..n
  BY <1>1
<1>3. ASSUME NEW i \in 1..n, i > Len(log)
      PROVE  ~(both[i].kind = kind /\ both[i].room = r)
  <2>1. i - Len(log) \in 1..Len(events) /\ i - Len(log) \in 1..n - Len(log) /\ Len(log) + (i - Len(log)) = i
    BY <1>1, <1>2, <1>3
  <2> QED
    BY <2>1, <1>1
<1> HIDE DEF both
<1>4. \A i \in 1..n : i > Len(log) \/ i \in 1..Len(log)
  BY <1>1, <1>2
<1>5. \A i \in 1..Len(log) : i \in 1..n
  BY <1>1, <1>2
<1>6. Spoken(both, r, kind, n) = Spoken(log, r, kind, Len(log))
  BY <1>1, <1>3, <1>4, <1>5 DEF Spoken
<1>7. /\ kind = "state" => /\ StateSaid(both, r, n) = StateSaid(log, r, Len(log))
                           /\ EpochSaid(both, r, n) = EpochSaid(log, r, Len(log))
                           /\ Broadcasts(both, r, n) = Broadcasts(log, r, Len(log))
      /\ kind = "refs" => AccountsSaid(both, r, n) = AccountsSaid(log, r, Len(log))
  <2>1. Alike(both, n, log, Len(log), r, kind)
    BY <1>1, <1>2, <1>6 DEF Alike
  <2> QED
    BY <2>1, SameSaid
<1> QED
  BY <1>6, <1>7 DEF both

\* Behind a log: the event of its kind that a transaction has for a room.
LEMMA Speaks ==
  ASSUME NEW log \in Seq(Events), NEW events \in Seq(Events), Ranked(log), Sole(events),
         NEW i \in 1..Len(events), NEW n \in Len(log) + i..Len(log) + Len(events)
  PROVE  LET e == events[i]
             both == log \o events
         IN /\ Spoken(both, e.room, e.kind, n) = Spoken(log, e.room, e.kind, Len(log)) \cup {Len(log) + i}
            /\ \A j \in Spoken(both, e.room, e.kind, n) : j <= Len(log) + i
            /\ e.kind = "state" => /\ StateSaid(both, e.room, n) = e.to
                                   /\ EpochSaid(both, e.room, n) = EpochSaid(log, e.room, Len(log)) + 1
                                   /\ e.new => Cardinality(Broadcasts(both, e.room, n))
                                                 = Cardinality(Broadcasts(log, e.room, Len(log))) + 1
                                   /\ ~e.new => Broadcasts(both, e.room, n) = Broadcasts(log, e.room, Len(log))
            /\ e.kind = "refs" => AccountsSaid(both, e.room, n) = e.accounts
<1> DEFINE both == log \o events
           r == events[i].room
           kind == events[i].kind
           at == Len(log) + i
           Old == Spoken(log, r, kind, Len(log))
           New == Spoken(both, r, kind, n)
<1>1. /\ Len(log) \in Nat /\ Len(events) \in Nat /\ n \in Nat /\ at \in Nat /\ at \in 1..n
      /\ \A j \in 1..Len(log) : both[j] = log[j] /\ j \in 1..n
      /\ \A j \in 1..Len(events) : both[Len(log) + j] = events[j]
  BY Before
<1>2. r \in Rooms /\ kind \in Kinds /\ both[at] = events[i]
  BY <1>1, EventFields
<1>3. ASSUME NEW j \in 1..n, j > Len(log), both[j].kind = kind, both[j].room = r
      PROVE  j = at
  <2>1. j - Len(log) \in 1..Len(events) /\ Len(log) + (j - Len(log)) = j
    BY <1>1, <1>3
  <2>2. both[j] = events[j - Len(log)]
    BY <2>1, <1>1
  <2>3. j - Len(log) = i
    BY <2>1, <2>2, <1>3 DEF Sole
  <2> QED
    BY <2>1, <2>3
<1>4. \A j \in 1..n : j > Len(log) \/ j \in 1..Len(log)
  BY <1>1
<1>5. Old \subseteq 1..Len(log) /\ IsFiniteSet(Old) /\ Cardinality(Old) \in Nat /\ at \notin Old
  BY <1>1, SpokenFinite
<1> HIDE DEF both, r, kind, at, Old, New
<1>o. IsFiniteSet(Broadcasts(log, r, Len(log))) /\ Cardinality(Broadcasts(log, r, Len(log))) \in Nat
  BY <1>1, SpokenFinite
<1>6. New = Old \cup {at}
  BY <1>1, <1>2, <1>3, <1>4 DEF Spoken, kind, r, Old, New
<1>7. \A j \in New : j <= at
  <2>1. \A j \in 1..Len(log) : j <= at
    BY <1>1 DEF at
  <2> QED
    BY <1>1, <1>5, <1>6, <2>1
<1>8. New \in SUBSET Nat
  BY <1>1, SpokenFinite DEF New
<1>9. Latest(New) = at /\ New # {}
  BY <1>6, <1>7, <1>8, LatestIs
<1>10. Cardinality(New) = Cardinality(Old) + 1
  BY <1>5, <1>6, FS_AddElement
<1>11. ASSUME kind = "state"
       PROVE  /\ StateSaid(both, r, n) = events[i].to
              /\ EpochSaid(both, r, n) = EpochSaid(log, r, Len(log)) + 1
              /\ events[i].new => Cardinality(Broadcasts(both, r, n)) = Cardinality(Broadcasts(log, r, Len(log))) + 1
              /\ ~events[i].new => Broadcasts(both, r, n) = Broadcasts(log, r, Len(log))
  <2>1. StateSaid(both, r, n) = events[i].to
    BY <1>2, <1>9, <1>11 DEF StateSaid, New
  <2>2. EpochSaid(both, r, n) = EpochSaid(log, r, Len(log)) + 1
    BY <1>5, <1>10, <1>11 DEF EpochSaid, New, Old
  <2>3. \A j \in Old : both[j] = log[j]
    BY <1>1, <1>5
  <2>4. at \notin Broadcasts(log, r, Len(log))
    BY <1>5, <1>11 DEF Broadcasts, Old
  <2>5. events[i].new => Broadcasts(both, r, n) = Broadcasts(log, r, Len(log)) \cup {at}
    BY <1>2, <1>6, <1>11, <2>3 DEF Broadcasts, Old, New
  <2>6. ~events[i].new => Broadcasts(both, r, n) = Broadcasts(log, r, Len(log))
    BY <1>2, <1>6, <1>11, <2>3 DEF Broadcasts, Old, New
  <2>7. events[i].new => Cardinality(Broadcasts(both, r, n)) = Cardinality(Broadcasts(log, r, Len(log))) + 1
    BY <2>4, <2>5, <1>o, FS_AddElement
  <2> QED
    BY <2>1, <2>2, <2>6, <2>7
<1>12. kind = "refs" => AccountsSaid(both, r, n) = events[i].accounts
  BY <1>2, <1>9 DEF AccountsSaid, New
<1>13. events[i].room = r /\ events[i].kind = kind /\ log \o events = both /\ Len(log) + i = at
  BY DEF r, kind, both, at
<1> QED
  BY <1>6, <1>7, <1>11, <1>12, <1>13 DEF Old, New
-----------------------------------------------------------------------------
(***************************************************************************)
(* What a transaction does to the tables, and what it says of it.          *)
(***************************************************************************)

\* The tables hold what the log says.
TablesAgree(log, refs, rows, broadcasts) ==
  \A r \in Rooms :
    /\ rows[r].state = StateSaid(log, r, Len(log)) /\ rows[r].epoch = EpochSaid(log, r, Len(log))
    /\ refs[r] = AccountsSaid(log, r, Len(log))
    /\ broadcasts[r].open <=> rows[r].state # "offline"
    /\ broadcasts[r].last = Cardinality(Broadcasts(log, r, Len(log)))

SpeaksOf(events, kind, r) == \E i \in 1..Len(events) : events[i].kind = kind /\ events[i].room = r

\* The events of a transaction say what it does to the tables.
References(events, refs, refs2) ==
  \A r \in Rooms :
    /\ SpeaksOf(events, "refs", r) \/ refs2[r] = refs[r]
    /\ \A i \in 1..Len(events) :
         events[i].kind = "refs" /\ events[i].room = r => events[i].accounts = refs2[r]
Transitions(events, rows, broadcasts, rows2, broadcasts2) ==
  \A r \in Rooms :
    /\ SpeaksOf(events, "state", r) \/ (rows2[r] = rows[r] /\ broadcasts2[r] = broadcasts[r])
    /\ \A i \in 1..Len(events) :
         events[i].kind = "state" /\ events[i].room = r =>
           /\ events[i].from = rows[r].state /\ events[i].epoch = rows[r].epoch + 1
           /\ events[i].to = rows2[r].state /\ events[i].epoch = rows2[r].epoch
           /\ broadcasts2[r].open <=> rows2[r].state # "offline"
           /\ broadcasts2[r].last = IF events[i].new THEN broadcasts[r].last + 1 ELSE broadcasts[r].last

LEMMA Told ==
  ASSUME NEW log \in Seq(Events), NEW events \in Seq(Events), Ranked(log), Faithful(log), Sole(events),
         \A i \in 1..Len(events) : events[i].kind = "state" =>
           /\ events[i].from = StateSaid(log, events[i].room, Len(log))
           /\ events[i].epoch = EpochSaid(log, events[i].room, Len(log)) + 1
  PROVE  Ranked(log \o events) /\ Faithful(log \o events)
<1> DEFINE both == log \o events
<1>1. /\ Len(both) = Len(log) + Len(events) /\ Len(log) \in Nat /\ Len(events) \in Nat
      /\ \A i \in 1..Len(log) : both[i] = log[i]
      /\ \A i \in 1..Len(events) : both[Len(log) + i] = events[i]
  BY Before
<1>2. ASSUME NEW r \in Rooms, NEW kind \in Kinds, NEW n \in 0..Len(both), Spoken(both, r, kind, n) # {}
      PROVE  \E m \in Spoken(both, r, kind, n) : \A j \in Spoken(both, r, kind, n) : j <= m
  <2>1. CASE n <= Len(log)
    <3>1. n \in 0..Len(log)
      BY <1>1, <2>1
    <3>2. Spoken(both, r, kind, n) = Spoken(log, r, kind, n)
      BY <3>1, Before
    <3> QED
      BY <1>2, <3>1, <3>2 DEF Ranked
  <2>2. CASE n > Len(log)
    <3>1. n \in Len(log)..Len(log) + Len(events)
      BY <1>1, <2>2
    <3>2. CASE \E i \in 1..n - Len(log) : events[i].kind = kind /\ events[i].room = r
      <4>1. PICK i \in 1..n - Len(log) : events[i].kind = kind /\ events[i].room = r
        BY <3>2
      <4>2. i \in 1..Len(events) /\ n \in Len(log) + i..Len(log) + Len(events)
        BY <1>1, <3>1
      <4>3. /\ Spoken(both, r, kind, n) = Spoken(log, r, kind, Len(log)) \cup {Len(log) + i}
            /\ \A j \in Spoken(both, r, kind, n) : j <= Len(log) + i
        BY <4>1, <4>2, Speaks
      <4> QED
        BY <4>3
    <3>3. CASE ~\E i \in 1..n - Len(log) : events[i].kind = kind /\ events[i].room = r
      <4>1. Spoken(both, r, kind, n) = Spoken(log, r, kind, Len(log))
        BY <3>1, <3>3, Silent
      <4>2. Len(log) \in 0..Len(log)
        BY <1>1
      <4> QED
        BY <1>2, <4>1, <4>2 DEF Ranked
    <3> QED
      BY <3>2, <3>3
  <2> QED
    BY <1>1, <2>1, <2>2
<1>3. ASSUME NEW i \in 1..Len(both), both[i].kind = "state"
      PROVE  /\ both[i].from = StateSaid(both, both[i].room, i - 1)
             /\ both[i].epoch = EpochSaid(both, both[i].room, i)
  <2>1. CASE i \in 1..Len(log)
    <3>1. both[i] = log[i] /\ log[i].room \in Rooms
      BY <1>1, <2>1, EventFields
    <3>2. /\ log[i].from = StateSaid(log, log[i].room, i - 1)
          /\ log[i].epoch = EpochSaid(log, log[i].room, i)
      BY <1>3, <2>1, <3>1 DEF Faithful
    <3>3. i - 1 \in 0..Len(log) /\ i \in 0..Len(log)
      BY <1>1, <2>1
    <3>4. /\ StateSaid(both, log[i].room, i - 1) = StateSaid(log, log[i].room, i - 1)
          /\ EpochSaid(both, log[i].room, i) = EpochSaid(log, log[i].room, i)
      BY <3>1, <3>3, Before
    <3> QED
      BY <3>1, <3>2, <3>4
  <2>2. CASE i \notin 1..Len(log)
    <3> DEFINE k == i - Len(log)
    <3>1. k \in 1..Len(events) /\ Len(log) + k = i /\ i - 1 \in Len(log)..Len(log) + Len(events)
          /\ i \in Len(log) + k..Len(log) + Len(events)
      BY <1>1, <2>2
    <3>2. both[i] = events[k] /\ events[k].room \in Rooms /\ events[k].kind = "state" /\ "state" \in Kinds
      BY <1>1, <1>3, <3>1, EventFields DEF Kinds
    <3>3. \A j \in 1..(i - 1) - Len(log) : j \in 1..Len(events) /\ j # k
      BY <1>1, <3>1
    <3>4. \A j \in 1..(i - 1) - Len(log) : ~(events[j].kind = "state" /\ events[j].room = events[k].room)
      BY <3>1, <3>2, <3>3 DEF Sole
    <3> HIDE DEF k, both
    <3>5. StateSaid(both, events[k].room, i - 1) = StateSaid(log, events[k].room, Len(log))
      BY <3>1, <3>2, <3>4, Silent DEF both
    <3>6. EpochSaid(both, events[k].room, i) = EpochSaid(log, events[k].room, Len(log)) + 1
      BY <3>1, <3>2, Speaks DEF both
    <3> QED
      BY <3>1, <3>2, <3>5, <3>6
  <2> QED
    BY <2>1, <2>2
<1> HIDE DEF both
<1>4. Ranked(both)
  BY <1>2 DEF Ranked
<1>5. Faithful(both)
  BY <1>3 DEF Faithful
<1> QED
  BY <1>4, <1>5 DEF both

LEMMA StillAgree ==
  ASSUME NEW log \in Seq(Events), NEW events \in Seq(Events), Ranked(log), Faithful(log), Sole(events),
         NEW refs, NEW rows, NEW broadcasts, NEW refs2, NEW rows2, NEW broadcasts2,
         TablesAgree(log, refs, rows, broadcasts), References(events, refs, refs2),
         Transitions(events, rows, broadcasts, rows2, broadcasts2)
  PROVE  /\ Ranked(log \o events) /\ Faithful(log \o events)
         /\ TablesAgree(log \o events, refs2, rows2, broadcasts2)
<1> DEFINE both == log \o events
<1>1. /\ Len(both) = Len(log) + Len(events) /\ Len(log) \in Nat /\ Len(events) \in Nat
  BY Before
<1>2. \A i \in 1..Len(events) : events[i].kind = "state" =>
           /\ events[i].from = StateSaid(log, events[i].room, Len(log))
           /\ events[i].epoch = EpochSaid(log, events[i].room, Len(log)) + 1
  BY EventFields DEF TablesAgree, Transitions
<1>3. Ranked(both) /\ Faithful(both)
  BY <1>2, Told
<1>4. ASSUME NEW r \in Rooms
      PROVE  /\ rows2[r].state = StateSaid(both, r, Len(both)) /\ rows2[r].epoch = EpochSaid(both, r, Len(both))
             /\ broadcasts2[r].open <=> rows2[r].state # "offline"
             /\ broadcasts2[r].last = Cardinality(Broadcasts(both, r, Len(both)))
  <2>1. CASE SpeaksOf(events, "state", r)
    <3>1. PICK i \in 1..Len(events) : events[i].kind = "state" /\ events[i].room = r
      BY <2>1 DEF SpeaksOf
    <3>2. Len(both) \in Len(log) + i..Len(log) + Len(events)
      BY <1>1
    <3>3. /\ StateSaid(both, r, Len(both)) = events[i].to
          /\ EpochSaid(both, r, Len(both)) = EpochSaid(log, r, Len(log)) + 1
          /\ events[i].new => Cardinality(Broadcasts(both, r, Len(both))) = Cardinality(Broadcasts(log, r, Len(log))) + 1
          /\ ~events[i].new => Broadcasts(both, r, Len(both)) = Broadcasts(log, r, Len(log))
      BY <3>1, <3>2, Speaks
    <3>4. /\ events[i].to = rows2[r].state /\ rows2[r].epoch = rows[r].epoch + 1
          /\ broadcasts2[r].open <=> rows2[r].state # "offline"
          /\ broadcasts2[r].last = IF events[i].new THEN broadcasts[r].last + 1 ELSE broadcasts[r].last
      BY <3>1 DEF Transitions
    <3>5. rows[r].epoch = EpochSaid(log, r, Len(log)) /\ broadcasts[r].last = Cardinality(Broadcasts(log, r, Len(log)))
      BY DEF TablesAgree
    <3> HIDE DEF both
    <3> QED
      BY <3>3, <3>4, <3>5
  <2>2. CASE ~SpeaksOf(events, "state", r)
    <3>1. Len(both) \in Len(log)..Len(log) + Len(events)
          /\ \A i \in 1..Len(both) - Len(log) : i \in 1..Len(events)
      BY <1>1
    <3>2. \A i \in 1..Len(both) - Len(log) : ~(events[i].kind = "state" /\ events[i].room = r)
      BY <2>2, <3>1 DEF SpeaksOf
    <3>3. /\ StateSaid(both, r, Len(both)) = StateSaid(log, r, Len(log))
          /\ EpochSaid(both, r, Len(both)) = EpochSaid(log, r, Len(log))
          /\ Broadcasts(both, r, Len(both)) = Broadcasts(log, r, Len(log))
      BY <3>1, <3>2, Silent DEF Kinds
    <3>4. rows2[r] = rows[r] /\ broadcasts2[r] = broadcasts[r]
      BY <2>2 DEF Transitions
    <3> HIDE DEF both
    <3> QED
      BY <3>3, <3>4 DEF TablesAgree
  <2> QED
    BY <2>1, <2>2
<1>5. ASSUME NEW r \in Rooms
      PROVE  refs2[r] = AccountsSaid(both, r, Len(both))
  <2>1. CASE SpeaksOf(events, "refs", r)
    <3>1. PICK i \in 1..Len(events) : events[i].kind = "refs" /\ events[i].room = r
      BY <2>1 DEF SpeaksOf
    <3>2. Len(both) \in Len(log) + i..Len(log) + Len(events)
      BY <1>1
    <3>3. AccountsSaid(both, r, Len(both)) = events[i].accounts
      BY <3>1, <3>2, Speaks
    <3> QED
      BY <3>1, <3>3 DEF References
  <2>2. CASE ~SpeaksOf(events, "refs", r)
    <3>1. Len(both) \in Len(log)..Len(log) + Len(events)
          /\ \A i \in 1..Len(both) - Len(log) : i \in 1..Len(events)
      BY <1>1
    <3>2. \A i \in 1..Len(both) - Len(log) : ~(events[i].kind = "refs" /\ events[i].room = r)
      BY <2>2, <3>1 DEF SpeaksOf
    <3>3. AccountsSaid(both, r, Len(both)) = AccountsSaid(log, r, Len(log))
      BY <3>1, <3>2, Silent DEF Kinds
    <3> QED
      BY <2>2, <3>3 DEF References, TablesAgree
  <2> QED
    BY <2>1, <2>2
<1> HIDE DEF both
<1>6. TablesAgree(both, refs2, rows2, broadcasts2)
  BY <1>4, <1>5 DEF TablesAgree
<1> QED
  BY <1>3, <1>6 DEF both
-----------------------------------------------------------------------------
(***************************************************************************)
(* The transactions of the watcher.                                        *)
(***************************************************************************)

\* The snapshots of a transaction come before its transitions.
RefsFirst(events) ==
  \A i, j \in 1..Len(events) : i < j /\ events[j].kind = "refs" => events[i].kind = "refs"

LEMMA Enumerates ==
  ASSUME NEW S \in SUBSET Rooms, NEW order \in InOrder(S)
  PROVE  /\ Cardinality(S) \in Nat /\ DOMAIN order = 1..Cardinality(S)
         /\ \A i \in 1..Cardinality(S) : order[i] \in S
         /\ \A i, j \in 1..Cardinality(S) : order[i] = order[j] => i = j
         /\ \A r \in S : \E i \in 1..Cardinality(S) : order[i] = r
<1>1. IsFiniteSet(S) /\ Cardinality(S) \in Nat
  BY RoomAssumption, FS_Subset, FS_CardinalityType
<1> DEFINE n == Cardinality(S)
<1> HIDE DEF n
<1>2. n \in Nat /\ order \in [1..n -> S] /\ \A i, j \in 1..n : i < j => order[i] < order[j]
  BY <1>1 DEF InOrder, n
<1>3. \A i \in 1..n : order[i] \in S /\ order[i] \in Nat
  BY <1>2, RoomAssumption
<1>4. \A i, j \in 1..n : order[i] = order[j] => i = j
  <2>1. SUFFICES ASSUME NEW i \in 1..n, NEW j \in 1..n, order[i] = order[j], i # j PROVE FALSE
    OBVIOUS
  <2>2. i < j \/ j < i
    BY <2>1, <1>2
  <2>3. order[i] \in Nat /\ order[j] \in Nat
    BY <1>3
  <2>4. order[i] < order[j] \/ order[j] < order[i]
    BY <2>2, <1>2
  <2> QED
    BY <2>1, <2>3, <2>4
<1>5. order \in Injection(1..n, S)
  BY <1>2, <1>4 DEF Injection, IsInjective
<1>6. Cardinality(1..n) = Cardinality(S)
  BY <1>1, <1>2, FS_Interval DEF n
<1>7. order \in Surjection(1..n, S)
  BY <1>1, <1>5, <1>6, FS_Injection
<1>8. \A r \in S : \E i \in 1..n : order[i] = r
  BY <1>7 DEF Surjection
<1> QED
  BY <1>2, <1>3, <1>4, <1>8 DEF n

LEMMA EventOf ==
  ASSUME NEW r, NEW from, NEW to
  PROVE  /\ StateEvent(r, from, to).kind = "state" /\ StateEvent(r, from, to).room = r
         /\ StateEvent(r, from, to).from = from /\ StateEvent(r, from, to).to = to
         /\ StateEvent(r, from, to).epoch = row[r].epoch + 1
         /\ StateEvent(r, from, to).new = (from = "offline")
         /\ NewRow(r, from, to).state = to /\ NewRow(r, from, to).epoch = row[r].epoch + 1
BY DEF StateEvent, NewRow

LEMMA SnapshotsAre ==
  ASSUME NEW S \in SUBSET Rooms, NEW order \in InOrder(S), NEW refs \in [Rooms -> SUBSET People]
  PROVE  /\ Snapshots(refs, order) \in Seq(Events) /\ Len(Snapshots(refs, order)) = Cardinality(S)
         /\ \A i \in 1..Cardinality(S) :
              Snapshots(refs, order)[i] = [kind |-> "refs", room |-> order[i], accounts |-> refs[order[i]]]
<1> DEFINE n == Cardinality(S)
           s == Snapshots(refs, order)
<1>1. n \in Nat /\ DOMAIN order = 1..n /\ \A i \in 1..n : order[i] \in S
  BY Enumerates
<1> HIDE DEF n
<1>2. s = [i \in 1..n |-> [kind |-> "refs", room |-> order[i], accounts |-> refs[order[i]]]]
  BY <1>1 DEF Snapshots
<1>3. \A i \in 1..n : [kind |-> "refs", room |-> order[i], accounts |-> refs[order[i]]] \in Events
  BY <1>1 DEF Events
<1>4. s \in [1..n -> Events]
  BY <1>2, <1>3
<1>5. s \in Seq(Events) /\ Len(s) = n
  BY <1>1, <1>4
<1> QED
  BY <1>2, <1>5 DEF n

LEMMA ClosingsAre ==
  ASSUME NEW S \in SUBSET Rooms, NEW order \in InOrder(S), RoomsTypeOK,
         \A r \in S : Recordable(r, watcher[r], "offline")
  PROVE  /\ Closings(order) \in Seq(Events) /\ Len(Closings(order)) = Cardinality(S)
         /\ \A i \in 1..Cardinality(S) :
              Closings(order)[i] = StateEvent(order[i], watcher[order[i]], "offline")
<1> DEFINE n == Cardinality(S)
           s == Closings(order)
<1>1. n \in Nat /\ DOMAIN order = 1..n /\ \A i \in 1..n : order[i] \in S
  BY Enumerates
<1> HIDE DEF n
<1>2. s = [i \in 1..n |-> StateEvent(order[i], watcher[order[i]], "offline")]
  BY <1>1 DEF Closings
<1>3. ASSUME NEW r \in S PROVE StateEvent(r, watcher[r], "offline") \in Events
  <2>1. r \in Rooms /\ watcher[r] = row[r].state
    BY <1>3 DEF Recordable
  <2>2. row[r] \in [state : States, epoch : Nat, broadcast : Nat]
    BY <2>1 DEF RoomsTypeOK
  <2>3. row[r].state \in States /\ row[r].epoch + 1 \in Nat /\ "offline" \in States
    BY <2>2 DEF States
  <2> QED
    BY <2>1, <2>3 DEF StateEvent, Events
<1>4. s \in [1..n -> Events]
  BY <1>1, <1>2, <1>3
<1>5. s \in Seq(Events) /\ Len(s) = n
  BY <1>1, <1>4
<1> QED
  BY <1>2, <1>5 DEF n

LEMMA SyncSays ==
  ASSUME RoomsTypeOK, NEW refs \in [Rooms -> SUBSET People], NEW terminal \in SUBSET Rooms,
         \A r \in terminal : Recordable(r, watcher[r], "offline"),
         NEW losing \in InOrder(Losing(refs)), NEW others \in InOrder(Changed(refs) \ Losing(refs)),
         NEW closing \in InOrder(terminal),
         NEW events, events = ReferenceEvents(refs, losing, others, closing),
         NEW rows, NEW broadcasts,
         \A r \in Rooms : /\ rows[r] = IF r \in terminal THEN NewRow(r, watcher[r], "offline") ELSE row[r]
                          /\ broadcasts[r] = IF r \in terminal THEN [broadcast[r] EXCEPT !.open = FALSE]
                                             ELSE broadcast[r]
  PROVE  /\ events \in Seq(Events) /\ Sole(events) /\ RefsFirst(events)
         /\ References(events, references, refs)
         /\ Transitions(events, row, broadcast, rows, broadcasts)
<1>1. events = Snapshots(refs, losing) \o Snapshots(refs, others) \o Closings(closing)
  BY DEF ReferenceEvents
<1> DEFINE L == Losing(refs)
           O == Changed(refs) \ Losing(refs)
           l == Cardinality(L)
           o == Cardinality(O)
           c == Cardinality(terminal)
<1>2. L \in SUBSET Rooms /\ O \in SUBSET Rooms /\ L \cap O = {}
  BY DEF Losing, Changed
<1> HIDE DEF L, O
<1>3. losing \in InOrder(L) /\ others \in InOrder(O) /\ closing \in InOrder(terminal)
  BY DEF L, O
<1>4. l \in Nat /\ o \in Nat /\ c \in Nat
  BY <1>2, <1>3, Enumerates
<1> HIDE DEF l, o, c
<1>5. /\ \A i \in 1..l : losing[i] \in L
      /\ \A i \in 1..o : others[i] \in O
      /\ \A i \in 1..c : closing[i] \in terminal
  BY <1>2, <1>3, Enumerates DEF l, o, c
<1>6. /\ \A i, j \in 1..l : losing[i] = losing[j] => i = j
      /\ \A i, j \in 1..o : others[i] = others[j] => i = j
      /\ \A i, j \in 1..c : closing[i] = closing[j] => i = j
  BY <1>2, <1>3, Enumerates DEF l, o, c
<1>7. /\ \A r \in L : \E i \in 1..l : losing[i] = r
      /\ \A r \in O : \E i \in 1..o : others[i] = r
      /\ \A r \in terminal : \E i \in 1..c : closing[i] = r
  BY <1>2, <1>3, Enumerates DEF l, o, c
<1> DEFINE A == Snapshots(refs, losing)
           B == Snapshots(refs, others)
           C == Closings(closing)
<1>8. /\ A \in Seq(Events) /\ Len(A) = l
      /\ \A i \in 1..l : A[i] = [kind |-> "refs", room |-> losing[i], accounts |-> refs[losing[i]]]
      /\ B \in Seq(Events) /\ Len(B) = o
      /\ \A i \in 1..o : B[i] = [kind |-> "refs", room |-> others[i], accounts |-> refs[others[i]]]
  BY <1>2, <1>3, SnapshotsAre DEF l, o
<1>9. /\ C \in Seq(Events) /\ Len(C) = c
      /\ \A i \in 1..c : C[i] = StateEvent(closing[i], watcher[closing[i]], "offline")
  BY <1>3, ClosingsAre DEF c
<1>10. events = (A \o B) \o C
  BY <1>1
<1> HIDE DEF A, B, C
<1>11. /\ A \o B \in Seq(Events) /\ Len(A \o B) = l + o
       /\ \A i \in 1..l : (A \o B)[i] = A[i]
       /\ \A i \in 1..o : (A \o B)[l + i] = B[i]
  <2>1. /\ A \o B \in Seq(Events) /\ Len(A \o B) = l + o
        /\ \A i \in 1..l + o : (A \o B)[i] = IF i <= l THEN A[i] ELSE B[i - l]
    <3>1. /\ A \o B \in Seq(Events) /\ Len(A \o B) = Len(A) + Len(B)
          /\ \A i \in 1..Len(A) + Len(B) : (A \o B)[i] = IF i <= Len(A) THEN A[i] ELSE B[i - Len(A)]
      <4>1. A \in Seq(Events) /\ B \in Seq(Events)
        BY <1>8
      <4> QED
        BY <4>1, ConcatProperties
    <3> QED
      BY <3>1, <1>8
  <2>2. \A i \in 1..l : i \in 1..l + o /\ i <= l
    BY <1>4
  <2>3. \A i \in 1..o : l + i \in 1..l + o /\ ~(l + i <= l) /\ (l + i) - l = i
    BY <1>4
  <2>4. \A i \in 1..l : (A \o B)[i] = A[i]
    BY <2>1, <2>2
  <2>5. \A i \in 1..o : (A \o B)[l + i] = B[i]
    BY <2>1, <2>3
  <2> QED
    BY <2>1, <2>4, <2>5
<1>12. /\ events \in Seq(Events) /\ Len(events) = l + o + c
       /\ \A i \in 1..l + o : events[i] = (A \o B)[i]
       /\ \A i \in 1..c : events[l + o + i] = C[i]
  <2>1. /\ events \in Seq(Events) /\ Len(events) = l + o + c
        /\ \A i \in 1..l + o + c : events[i] = IF i <= l + o THEN (A \o B)[i] ELSE C[i - (l + o)]
    <3>1. /\ events \in Seq(Events) /\ Len(events) = Len(A \o B) + Len(C)
          /\ \A i \in 1..Len(A \o B) + Len(C) :
               events[i] = IF i <= Len(A \o B) THEN (A \o B)[i] ELSE C[i - Len(A \o B)]
      <4> DEFINE D == A \o B
      <4>1. D \in Seq(Events) /\ C \in Seq(Events) /\ events = D \o C
        BY <1>9, <1>10, <1>11
      <4> HIDE DEF D
      <4>2. /\ events \in Seq(Events) /\ Len(events) = Len(D) + Len(C)
            /\ \A i \in 1..Len(D) + Len(C) : events[i] = IF i <= Len(D) THEN D[i] ELSE C[i - Len(D)]
        BY <4>1, ConcatProperties
      <4> QED
        BY <4>2 DEF D
    <3> QED
      BY <3>1, <1>9, <1>11
  <2>2. \A i \in 1..l + o : i \in 1..l + o + c /\ i <= l + o
    BY <1>4
  <2>3. \A i \in 1..c : l + o + i \in 1..l + o + c /\ ~(l + o + i <= l + o) /\ (l + o + i) - (l + o) = i
    BY <1>4
  <2>4. \A i \in 1..l + o : events[i] = (A \o B)[i]
    BY <2>1, <2>2
  <2>5. \A i \in 1..c : events[l + o + i] = C[i]
    BY <2>1, <2>3
  <2> QED
    BY <2>1, <2>4, <2>5
<1>13. \A i \in 1..l : i \in 1..l + o /\ i \in 1..Len(events)
  BY <1>4, <1>12
<1>14. \A i \in 1..o : l + i \in 1..l + o /\ l + i \in 1..Len(events)
  BY <1>4, <1>12
<1>15. \A i \in 1..c : l + o + i \in 1..Len(events)
  BY <1>4, <1>12
<1>16. \A i \in 1..Len(events) : \/ i \in 1..l
                                 \/ \E k \in 1..o : i = l + k
                                 \/ \E k \in 1..c : i = l + o + k
  <2>1. SUFFICES ASSUME NEW i \in 1..l + o + c, i \notin 1..l
                 PROVE  (\E k \in 1..o : i = l + k) \/ (\E k \in 1..c : i = l + o + k)
    BY <1>12
  <2>2. CASE i <= l + o
    <3>1. i - l \in 1..o /\ i = l + (i - l)
      BY <1>4, <2>1, <2>2
    <3> QED
      BY <3>1
  <2>3. CASE i > l + o
    <3>1. i - (l + o) \in 1..c /\ i = l + o + (i - (l + o))
      BY <1>4, <2>1, <2>3
    <3> QED
      BY <3>1
  <2> QED
    BY <1>4, <2>1, <2>2, <2>3
<1>17. \A i \in 1..l : /\ events[i].kind = "refs" /\ events[i].room = losing[i]
                       /\ events[i].accounts = refs[losing[i]]
  BY <1>8, <1>11, <1>12, <1>13
<1>18. \A i \in 1..o : /\ events[l + i].kind = "refs" /\ events[l + i].room = others[i]
                       /\ events[l + i].accounts = refs[others[i]]
  BY <1>8, <1>11, <1>12, <1>14
<1>19. \A i \in 1..c : events[l + o + i] = StateEvent(closing[i], watcher[closing[i]], "offline")
  BY <1>9, <1>12
<1>20. \A i \in 1..c : events[l + o + i].kind = "state" /\ events[l + o + i].room = closing[i]
  BY <1>19, EventOf
<1>21. Sole(events)
  <2>1. SUFFICES ASSUME NEW i \in 1..Len(events), NEW j \in 1..Len(events),
                        events[i].kind = events[j].kind, events[i].room = events[j].room
                 PROVE  i = j
    BY DEF Sole
  <2>2. CASE i \in 1..l
    <3>1. ~\E k \in 1..o : j = l + k
      BY <2>1, <2>2, <1>2, <1>5, <1>17, <1>18
    <3>2. ~\E k \in 1..c : j = l + o + k
      BY <2>1, <2>2, <1>17, <1>20
    <3>3. j \in 1..l
      BY <3>1, <3>2, <1>16
    <3> QED
      BY <2>1, <2>2, <3>3, <1>6, <1>17
  <2>3. CASE \E k \in 1..o : i = l + k
    <3>1. PICK k \in 1..o : i = l + k
      BY <2>3
    <3>2. j \notin 1..l
      BY <2>1, <3>1, <1>2, <1>5, <1>17, <1>18
    <3>3. ~\E m \in 1..c : j = l + o + m
      BY <2>1, <3>1, <1>18, <1>20
    <3>4. PICK m \in 1..o : j = l + m
      BY <3>2, <3>3, <1>16
    <3> QED
      BY <2>1, <3>1, <3>4, <1>6, <1>18
  <2>4. CASE \E k \in 1..c : i = l + o + k
    <3>1. PICK k \in 1..c : i = l + o + k
      BY <2>4
    <3>2. j \notin 1..l /\ ~\E m \in 1..o : j = l + m
      BY <2>1, <3>1, <1>17, <1>18, <1>20
    <3>3. PICK m \in 1..c : j = l + o + m
      BY <3>2, <1>16
    <3> QED
      BY <2>1, <3>1, <3>3, <1>6, <1>20
  <2> QED
    BY <2>2, <2>3, <2>4, <1>16
<1>22. RefsFirst(events)
  <2>1. SUFFICES ASSUME NEW i \in 1..Len(events), NEW j \in 1..Len(events), i < j, events[j].kind = "refs"
                 PROVE  events[i].kind = "refs"
    BY DEF RefsFirst
  <2>2. ~\E k \in 1..c : j = l + o + k
    BY <2>1, <1>20
  <2>3. j <= l + o
    <3>1. \A k \in 1..l : k <= l + o
      BY <1>4
    <3>2. \A k \in 1..o : l + k <= l + o
      BY <1>4
    <3> QED
      BY <2>2, <3>1, <3>2, <1>16
  <2>4. ~\E k \in 1..c : i = l + o + k
    BY <2>1, <2>3, <1>4, <1>12
  <2> QED
    BY <2>4, <1>16, <1>17, <1>18
<1>23. References(events, references, refs)
  <2>1. ASSUME NEW r \in Rooms PROVE SpeaksOf(events, "refs", r) \/ refs[r] = references[r]
    <3>1. CASE r \in L
      BY <3>1, <1>7, <1>13, <1>17 DEF SpeaksOf
    <3>2. CASE r \in O
      BY <3>2, <1>7, <1>14, <1>18 DEF SpeaksOf
    <3>3. r \in L \/ r \in O \/ refs[r] = references[r]
      BY DEF L, O, Changed
    <3> QED
      BY <3>1, <3>2, <3>3
  <2>2. ASSUME NEW i \in 1..Len(events), events[i].kind = "refs"
        PROVE  events[i].accounts = refs[events[i].room]
    BY <2>2, <1>16, <1>17, <1>18, <1>20
  <2> QED
    BY <2>1, <2>2 DEF References
<1>24. Transitions(events, row, broadcast, rows, broadcasts)
  <2>1. ASSUME NEW r \in Rooms
        PROVE  SpeaksOf(events, "state", r) \/ (rows[r] = row[r] /\ broadcasts[r] = broadcast[r])
    <3>1. CASE r \in terminal
      BY <3>1, <1>7, <1>15, <1>20 DEF SpeaksOf
    <3> QED
      BY <3>1
  <2>2. ASSUME NEW r \in Rooms, NEW i \in 1..Len(events), events[i].kind = "state", events[i].room = r
        PROVE  /\ events[i].from = row[r].state /\ events[i].epoch = row[r].epoch + 1
               /\ events[i].to = rows[r].state /\ events[i].epoch = rows[r].epoch
               /\ broadcasts[r].open <=> rows[r].state # "offline"
               /\ broadcasts[r].last = IF events[i].new THEN broadcast[r].last + 1 ELSE broadcast[r].last
    <3>1. PICK k \in 1..c : i = l + o + k
      BY <2>2, <1>16, <1>17, <1>18
    <3>2. r = closing[k] /\ r \in terminal /\ events[i] = StateEvent(r, watcher[r], "offline")
      BY <2>2, <3>1, <1>5, <1>19, <1>20
    <3>3. watcher[r] = row[r].state /\ row[r].state # "offline"
      BY <3>2 DEF Recordable
    <3>4. /\ events[i].from = row[r].state /\ events[i].epoch = row[r].epoch + 1 /\ events[i].to = "offline"
          /\ events[i].new = FALSE
      <4>1. StateEvent(r, watcher[r], "offline").new = (watcher[r] = "offline")
            /\ StateEvent(r, watcher[r], "offline").from = watcher[r]
            /\ StateEvent(r, watcher[r], "offline").to = "offline"
            /\ StateEvent(r, watcher[r], "offline").epoch = row[r].epoch + 1
        BY EventOf
      <4> QED
        BY <4>1, <3>2, <3>3
    <3>5. rows[r].state = "offline" /\ rows[r].epoch = row[r].epoch + 1
      <4>1. rows[r] = NewRow(r, watcher[r], "offline")
        BY <3>2
      <4>2. NewRow(r, watcher[r], "offline").state = "offline" /\ NewRow(r, watcher[r], "offline").epoch = row[r].epoch + 1
        BY EventOf
      <4> QED
        BY <4>1, <4>2
    <3>6. broadcast[r] \in [last : Nat, open : BOOLEAN]
      BY DEF RoomsTypeOK
    <3>7. broadcasts[r].open = FALSE /\ broadcasts[r].last = broadcast[r].last
      BY <3>2, <3>6
    <3> QED
      BY <3>4, <3>5, <3>7
  <2> QED
    BY <2>1, <2>2 DEF Transitions
<1> QED
  BY <1>12, <1>21, <1>22, <1>23, <1>24
-----------------------------------------------------------------------------
(***************************************************************************)
(* An account has one room.  While the outbox passes from one snapshot of  *)
(* the references to the next, an account may be said to be in two rooms,  *)
(* the one that it leaves and the one that it enters, but not in three,    *)
(* and the event by which it leaves follows before anything else is said.  *)
(***************************************************************************)
Apart(refs) == \A r, s \in Rooms : r # s => refs[r] \cap refs[s] = {}

\* After the first n events, room r loses the account by a snapshot that comes before
\* any transition, and until then room s keeps it.
Pending(log, r, a, s, n) ==
  \E m \in n + 1..Len(log) :
    /\ log[m].kind = "refs" /\ log[m].room = r /\ a \notin log[m].accounts
    /\ \A j \in n + 1..m : /\ log[j].kind = "refs"
                           /\ j < m => log[j].room # r
                           /\ log[j].room = s => a \in log[j].accounts

Orderly(log) ==
  \A n \in 0..Len(log) - 1 :
    /\ log[n + 1].kind = "refs" =>
         \A r \in Rooms \ {log[n + 1].room} : \A a \in AccountsSaid(log, r, n) \cap log[n + 1].accounts :
           Pending(log, r, a, log[n + 1].room, n)
    /\ log[n + 1].kind = "state" =>
         \A r, s \in Rooms : r # s => AccountsSaid(log, r, n) \cap AccountsSaid(log, s, n) = {}

LEMMA StillPending ==
  ASSUME NEW log \in Seq(Events), NEW events \in Seq(Events), Ranked(log), NEW r, NEW a, NEW s, NEW n \in Nat,
         Pending(log, r, a, s, n)
  PROVE  Pending(log \o events, r, a, s, n)
<1> DEFINE both == log \o events
<1>1. /\ Len(both) = Len(log) + Len(events) /\ Len(log) \in Nat /\ Len(events) \in Nat
      /\ \A i \in 1..Len(log) : both[i] = log[i]
  BY Before
<1>2. PICK m \in n + 1..Len(log) :
        /\ log[m].kind = "refs" /\ log[m].room = r /\ a \notin log[m].accounts
        /\ \A j \in n + 1..m : /\ log[j].kind = "refs"
                               /\ j < m => log[j].room # r
                               /\ log[j].room = s => a \in log[j].accounts
  BY DEF Pending
<1>3. m \in n + 1..Len(both) /\ m \in 1..Len(log) /\ \A j \in n + 1..m : j \in 1..Len(log)
  BY <1>1, <1>2
<1> HIDE DEF both
<1>4. both[m] = log[m] /\ \A j \in n + 1..m : both[j] = log[j]
  BY <1>1, <1>3
<1>5. /\ both[m].kind = "refs" /\ both[m].room = r /\ a \notin both[m].accounts
      /\ \A j \in n + 1..m : /\ both[j].kind = "refs"
                             /\ j < m => both[j].room # r
                             /\ both[j].room = s => a \in both[j].accounts
  BY <1>2, <1>4
<1>6. Pending(both, r, a, s, n)
  BY <1>3, <1>5 DEF Pending
<1> QED
  BY <1>6 DEF both

\* What is said of the accounts of a room in the middle of a transaction.
LEMMA MidAccounts ==
  ASSUME NEW log \in Seq(Events), NEW events \in Seq(Events), Ranked(log), Sole(events),
         NEW refs, NEW refs2, References(events, refs, refs2),
         \A r \in Rooms : refs[r] = AccountsSaid(log, r, Len(log)),
         NEW r \in Rooms, NEW i \in 0..Len(events)
  PROVE  AccountsSaid(log \o events, r, Len(log) + i) =
           IF \E k \in 1..i : events[k].kind = "refs" /\ events[k].room = r THEN refs2[r] ELSE refs[r]
<1>1. Len(log) \in Nat /\ Len(events) \in Nat
  BY LenProperties
<1>2. CASE \E k \in 1..i : events[k].kind = "refs" /\ events[k].room = r
  <2>1. PICK k \in 1..i : events[k].kind = "refs" /\ events[k].room = r
    BY <1>2
  <2>2. k \in 1..Len(events) /\ Len(log) + i \in Len(log) + k..Len(log) + Len(events)
    BY <1>1
  <2>3. AccountsSaid(log \o events, r, Len(log) + i) = events[k].accounts
    BY <2>1, <2>2, Speaks
  <2>4. events[k].accounts = refs2[r]
    BY <2>1, <2>2 DEF References
  <2> QED
    BY <1>2, <2>3, <2>4
<1>3. CASE ~\E k \in 1..i : events[k].kind = "refs" /\ events[k].room = r
  <2>1. Len(log) + i \in Len(log)..Len(log) + Len(events) /\ (Len(log) + i) - Len(log) = i
    BY <1>1
  <2>2. AccountsSaid(log \o events, r, Len(log) + i) = AccountsSaid(log, r, Len(log))
    BY <1>3, <2>1, Silent DEF Kinds
  <2> QED
    BY <1>3, <2>2
<1> QED
  BY <1>2, <1>3

LEMMA StillOrderly ==
  ASSUME NEW log \in Seq(Events), NEW events \in Seq(Events), Ranked(log), Sole(events), RefsFirst(events),
         NEW refs, NEW refs2, References(events, refs, refs2), Apart(refs), Apart(refs2), Orderly(log),
         \A r \in Rooms : refs[r] = AccountsSaid(log, r, Len(log))
  PROVE  Orderly(log \o events)
<1> DEFINE both == log \o events
<1>1. /\ Len(both) = Len(log) + Len(events) /\ Len(log) \in Nat /\ Len(events) \in Nat
      /\ \A i \in 1..Len(log) : both[i] = log[i]
      /\ \A i \in 1..Len(events) : both[Len(log) + i] = events[i]
      /\ \A r \in Rooms, n \in 0..Len(log) : AccountsSaid(both, r, n) = AccountsSaid(log, r, n)
  BY Before
<1>p. \A r, a, s : \A n \in Nat : Pending(log, r, a, s, n) => Pending(both, r, a, s, n)
  BY StillPending
<1>m. \A r \in Rooms, i \in 0..Len(events) : AccountsSaid(both, r, Len(log) + i) =
           IF \E k \in 1..i : events[k].kind = "refs" /\ events[k].room = r THEN refs2[r] ELSE refs[r]
  BY MidAccounts
<1> HIDE DEF both
<1>2. ASSUME NEW n \in 0..Len(both) - 1, n < Len(log)
      PROVE  /\ both[n + 1].kind = "refs" =>
                  \A r \in Rooms \ {both[n + 1].room} : \A a \in AccountsSaid(both, r, n) \cap both[n + 1].accounts :
                    Pending(both, r, a, both[n + 1].room, n)
             /\ both[n + 1].kind = "state" =>
                  \A r, s \in Rooms : r # s => AccountsSaid(both, r, n) \cap AccountsSaid(both, s, n) = {}
  <2>1. n \in 0..Len(log) - 1 /\ n \in 0..Len(log) /\ n \in Nat /\ n + 1 \in 1..Len(log)
    BY <1>1, <1>2
  <2>2. both[n + 1] = log[n + 1] /\ \A r \in Rooms : AccountsSaid(both, r, n) = AccountsSaid(log, r, n)
    BY <1>1, <2>1
  <2>3. log[n + 1].kind = "refs" =>
          \A r \in Rooms \ {log[n + 1].room} : \A a \in AccountsSaid(log, r, n) \cap log[n + 1].accounts :
            Pending(log, r, a, log[n + 1].room, n)
    BY <2>1 DEF Orderly
  <2>4. log[n + 1].kind = "state" =>
          \A r, s \in Rooms : r # s => AccountsSaid(log, r, n) \cap AccountsSaid(log, s, n) = {}
    BY <2>1 DEF Orderly
  <2> QED
    BY <2>1, <2>2, <2>3, <2>4, <1>p
<1>3. ASSUME NEW i \in 0..Len(events) - 1
      PROVE  LET e == events[i + 1]
                 n == Len(log) + i IN
             /\ e.kind = "refs" =>
                  \A r \in Rooms \ {e.room} : \A a \in AccountsSaid(both, r, n) \cap e.accounts :
                    Pending(both, r, a, e.room, n)
             /\ e.kind = "state" =>
                  \A r, s \in Rooms : r # s => AccountsSaid(both, r, n) \cap AccountsSaid(both, s, n) = {}
  <2> DEFINE n == Len(log) + i
  <2>1. i \in 0..Len(events) /\ i + 1 \in 1..Len(events) /\ i \in Nat /\ n \in Nat /\ n + 1 \in 1..Len(both)
    BY <1>1
  <2>2. ASSUME events[i + 1].kind = "refs", NEW r \in Rooms, r # events[i + 1].room,
               NEW a \in AccountsSaid(both, r, n), a \in events[i + 1].accounts
        PROVE  Pending(both, r, a, events[i + 1].room, n)
    <3> DEFINE s == events[i + 1].room
    <3>1. s \in Rooms /\ events[i + 1].accounts = refs2[s]
      BY <2>1, <2>2, EventFields DEF References
    <3>2. a \notin refs2[r]
      BY <2>2, <3>1 DEF Apart
    <3>3. a \in refs[r] /\ ~\E k \in 1..i : events[k].kind = "refs" /\ events[k].room = r
      BY <2>1, <2>2, <3>2, <1>m
    <3>4. PICK k \in 1..Len(events) : events[k].kind = "refs" /\ events[k].room = r
      BY <3>2, <3>3 DEF References, SpeaksOf
    <3>5. events[k].accounts = refs2[r]
      BY <3>4 DEF References
    <3>6. k \notin 1..i /\ k # i + 1
      BY <2>2, <3>3, <3>4
    <3>7. k > i + 1
      BY <1>1, <2>1, <3>6
    <3> DEFINE m == Len(log) + k
    <3>8. m \in n + 1..Len(both) /\ both[m] = events[k]
      BY <1>1, <2>1, <3>7
    <3>9. ASSUME NEW j \in n + 1..m
          PROVE  /\ both[j].kind = "refs"
                 /\ j < m => both[j].room # r
                 /\ both[j].room = s => a \in both[j].accounts
      <4> DEFINE h == j - Len(log)
      <4>1. h \in 1..Len(events) /\ Len(log) + h = j /\ (j < m <=> h < k) /\ (h = k <=> j = m) /\ (h < k \/ h = k)
        <5>1. Len(log) \in Nat /\ Len(events) \in Nat /\ i \in Nat /\ k \in 1..Len(events) /\ j \in Int
          BY <1>1, <2>1
        <5>2. Len(log) + i + 1 <= j /\ j <= Len(log) + k
          BY <5>1
        <5> HIDE DEF n, m
        <5>3. h \in Int /\ 1 <= h /\ h <= k /\ Len(log) + h = j
          BY <5>1, <5>2
        <5>4. (j < Len(log) + k <=> h < k) /\ (h = k <=> j = Len(log) + k)
          BY <5>1, <5>3
        <5> QED
          BY <5>1, <5>3, <5>4 DEF m
      <4>2. both[j] = events[h]
        BY <1>1, <4>1
      <4> HIDE DEF h, m, n
      <4>3. events[h].kind = "refs"
        BY <3>4, <4>1 DEF RefsFirst
      <4>4. j < m => events[h].room # r
        BY <3>4, <4>1, <4>3 DEF Sole
      <4>5. events[h].room = s => events[h].accounts = refs2[s]
        BY <3>1, <4>1, <4>3 DEF References
      <4>6. a \in refs2[s]
        BY <2>2, <3>1
      <4> QED
        BY <4>2, <4>3, <4>4, <4>5, <4>6
    <3> HIDE DEF m, n, s
    <3>10. Pending(both, r, a, s, n)
      BY <3>2, <3>4, <3>5, <3>8, <3>9 DEF Pending
    <3> QED
      BY <3>10 DEF s
  <2>3. ASSUME events[i + 1].kind = "state", NEW r \in Rooms, NEW s \in Rooms, r # s
        PROVE  AccountsSaid(both, r, n) \cap AccountsSaid(both, s, n) = {}
    <3>1. ASSUME NEW k \in 1..Len(events), events[k].kind = "refs" PROVE k \in 1..i
      <4>1. k # i + 1
        BY <2>3, <3>1
      <4>2. ~(i + 1 < k)
        BY <2>1, <2>3, <3>1 DEF RefsFirst
      <4> QED
        BY <1>1, <2>1, <4>1, <4>2
    <3>2. ASSUME NEW x \in Rooms PROVE AccountsSaid(both, x, n) = refs2[x]
      <4>1. CASE \E k \in 1..i : events[k].kind = "refs" /\ events[k].room = x
        BY <2>1, <4>1, <1>m
      <4>2. CASE ~\E k \in 1..i : events[k].kind = "refs" /\ events[k].room = x
        <5>1. AccountsSaid(both, x, n) = refs[x]
          BY <2>1, <4>2, <1>m
        <5>2. ~SpeaksOf(events, "refs", x)
          BY <3>1, <4>2 DEF SpeaksOf
        <5> QED
          BY <5>1, <5>2 DEF References
      <4> QED
        BY <4>1, <4>2
    <3> QED
      BY <2>3, <3>2 DEF Apart
  <2> QED
    BY <2>2, <2>3
<1>4. ASSUME NEW n \in 0..Len(both) - 1
      PROVE  /\ both[n + 1].kind = "refs" =>
                  \A r \in Rooms \ {both[n + 1].room} : \A a \in AccountsSaid(both, r, n) \cap both[n + 1].accounts :
                    Pending(both, r, a, both[n + 1].room, n)
             /\ both[n + 1].kind = "state" =>
                  \A r, s \in Rooms : r # s => AccountsSaid(both, r, n) \cap AccountsSaid(both, s, n) = {}
  <2>1. CASE n < Len(log)
    BY <2>1, <1>2
  <2>2. CASE ~(n < Len(log))
    <3> DEFINE i == n - Len(log)
    <3>1. i \in 0..Len(events) - 1 /\ Len(log) + i = n /\ i + 1 \in 1..Len(events) /\ Len(log) + (i + 1) = n + 1
      BY <1>1, <2>2
    <3>2. both[n + 1] = events[i + 1]
      BY <1>1, <3>1
    <3> HIDE DEF i
    <3> QED
      BY <3>1, <3>2, <1>3
  <2> QED
    BY <2>1, <2>2
<1>5. Orderly(both)
  BY <1>4 DEF Orderly
<1> QED
  BY <1>5 DEF both
-----------------------------------------------------------------------------
(***************************************************************************)
(* The tables, the outbox and what their steps keep.                       *)
(***************************************************************************)
TableTypes ==
  /\ references \in [Rooms -> SUBSET People]
  /\ row \in [Rooms -> [state : States, epoch : Nat, broadcast : Nat]]
  /\ \A r \in Rooms : row[r].state = "offline" <=> row[r].broadcast = 0
  /\ broadcast \in [Rooms -> [last : Nat, open : BOOLEAN]]
  /\ outbox \in Seq(Events)

LogInv ==
  /\ Ranked(outbox) /\ Faithful(outbox) /\ TablesAgree(outbox, references, row, broadcast)
  /\ Orderly(outbox) /\ Apart(references)

TableInv == TableTypes /\ LogInv

\* Events are only added to the outbox.
Grows == \E events \in Seq(Events) : outbox' = outbox \o events

LEMMA RecordKeeps ==
  ASSUME TableInv, NEW r \in Rooms, NEW from, NEW to \in States, Recordable(r, from, to),
         RecordTransition(r, from, to)
  PROVE  TableInv' /\ Grows
<1> DEFINE e == StateEvent(r, from, to)
           events == <<e>>
<1>1. /\ row[r] \in [state : States, epoch : Nat, broadcast : Nat]
      /\ broadcast[r] \in [last : Nat, open : BOOLEAN]
      /\ row[r].state \in States /\ row[r].epoch \in Nat /\ row[r].broadcast \in Nat
      /\ broadcast[r].last \in Nat /\ broadcast[r].open \in BOOLEAN
      /\ row[r].state = "offline" <=> row[r].broadcast = 0
      /\ broadcast[r].open <=> row[r].state # "offline"
  BY DEF TableInv, TableTypes, LogInv, TablesAgree
<1>2. /\ from = row[r].state /\ from \in States
      /\ \/ to = "live" /\ from \in {"offline", "grace"}
         \/ to = "grace" /\ from = "live"
         \/ to = "offline" /\ from # "offline"
  BY <1>1 DEF Recordable, States
<1>3. e.kind = "state" /\ e.room = r /\ e.from = from /\ e.to = to /\ e.epoch = row[r].epoch + 1
      /\ e.new = (from = "offline")
  BY EventOf
<1>4. e \in Events
  BY <1>1, <1>2 DEF StateEvent, Events
<1> HIDE DEF e
<1>5. events \in Seq(Events) /\ Len(events) = 1 /\ events[1] = e /\ \A i \in 1..Len(events) : i = 1
  BY <1>4
<1>6. outbox \in Seq(Events) /\ outbox' = outbox \o events
  <2>1. outbox \in Seq(Events) /\ outbox' = Append(outbox, e)
    BY DEF TableInv, TableTypes, RecordTransition, e
  <2> QED
    BY <2>1, <1>4, AppendIsConcat
<1>7. references' = references /\ row' = [row EXCEPT ![r] = NewRow(r, from, to)]
      /\ broadcast' = [broadcast EXCEPT ![r] = NewBroadcast(r, from, to)]
  BY DEF RecordTransition
<1>8. /\ NewRow(r, from, to) \in [state : States, epoch : Nat, broadcast : Nat]
      /\ NewRow(r, from, to).state = to /\ NewRow(r, from, to).epoch = row[r].epoch + 1
      /\ to = "offline" <=> NewRow(r, from, to).broadcast = 0
  BY <1>1, <1>2 DEF NewRow
<1>9. /\ NewBroadcast(r, from, to) \in [last : Nat, open : BOOLEAN]
      /\ NewBroadcast(r, from, to).open <=> to # "offline"
      /\ NewBroadcast(r, from, to).last = IF from = "offline" THEN broadcast[r].last + 1 ELSE broadcast[r].last
  <2>1. CASE to = "offline"
    BY <2>1, <1>1, <1>2 DEF NewBroadcast
  <2>2. CASE to # "offline" /\ from = "offline"
    BY <2>2, <1>1, <1>2 DEF NewBroadcast
  <2>3. CASE to # "offline" /\ from # "offline"
    BY <2>3, <1>1, <1>2 DEF NewBroadcast
  <2> QED
    BY <2>1, <2>2, <2>3
<1> HIDE DEF events
<1>10. Sole(events) /\ RefsFirst(events)
  BY <1>5 DEF Sole, RefsFirst
<1>11. References(events, references, references)
  BY <1>3, <1>5 DEF References
<1>12. /\ row' \in [Rooms -> [state : States, epoch : Nat, broadcast : Nat]]
       /\ broadcast' \in [Rooms -> [last : Nat, open : BOOLEAN]]
       /\ row'[r] = NewRow(r, from, to) /\ broadcast'[r] = NewBroadcast(r, from, to)
       /\ \A x \in Rooms : x # r => row'[x] = row[x] /\ broadcast'[x] = broadcast[x]
  BY <1>7, <1>8, <1>9 DEF TableInv, TableTypes
<1>13. Transitions(events, row, broadcast, row', broadcast')
  <2>1. ASSUME NEW x \in Rooms PROVE SpeaksOf(events, "state", x) \/ (row'[x] = row[x] /\ broadcast'[x] = broadcast[x])
    <3>1. CASE x = r
      BY <3>1, <1>3, <1>5 DEF SpeaksOf
    <3> QED
      BY <3>1, <1>12
  <2>2. ASSUME NEW x \in Rooms, NEW i \in 1..Len(events), events[i].kind = "state", events[i].room = x
        PROVE  /\ events[i].from = row[x].state /\ events[i].epoch = row[x].epoch + 1
               /\ events[i].to = row'[x].state /\ events[i].epoch = row'[x].epoch
               /\ broadcast'[x].open <=> row'[x].state # "offline"
               /\ broadcast'[x].last = IF events[i].new THEN broadcast[x].last + 1 ELSE broadcast[x].last
    <3>1. events[i] = e /\ x = r
      BY <2>2, <1>3, <1>5
    <3> QED
      BY <3>1, <1>2, <1>3, <1>8, <1>9, <1>12
  <2> QED
    BY <2>1, <2>2 DEF Transitions
<1>14. Ranked(outbox') /\ Faithful(outbox') /\ TablesAgree(outbox', references', row', broadcast')
  BY <1>5, <1>6, <1>7, <1>10, <1>11, <1>13, StillAgree DEF TableInv, LogInv
<1>15. Orderly(outbox') /\ Apart(references')
  <2>1. \A x \in Rooms : references[x] = AccountsSaid(outbox, x, Len(outbox))
    BY DEF TableInv, LogInv, TablesAgree
  <2> QED
    BY <2>1, <1>5, <1>6, <1>7, <1>10, <1>11, StillOrderly DEF TableInv, LogInv
<1>16. LogInv'
  BY <1>14, <1>15 DEF LogInv
<1>17. outbox' \in Seq(Events)
  BY <1>5, <1>6, ConcatProperties
<1>18. \A x \in Rooms : row'[x].state = "offline" <=> row'[x].broadcast = 0
  BY <1>8, <1>12 DEF TableInv, TableTypes
<1>19. TableTypes'
  BY <1>7, <1>12, <1>17, <1>18 DEF TableTypes, TableInv
<1> QED
  BY <1>5, <1>6, <1>16, <1>19 DEF TableInv, Grows

LEMMA SyncKeeps ==
  ASSUME RoomsTypeOK, TableInv, NEW refs \in [Rooms -> SUBSET People], Apart(refs), NEW terminal \in SUBSET Rooms,
         \A r \in terminal : Recordable(r, watcher[r], "offline"), SyncReferences(refs, terminal)
  PROVE  TableInv' /\ Grows
<1>1. PICK losing \in InOrder(Losing(refs)), others \in InOrder(Changed(refs) \ Losing(refs)),
           closing \in InOrder(terminal) :
           outbox' = outbox \o ReferenceEvents(refs, losing, others, closing)
  BY DEF SyncReferences
<1> DEFINE events == ReferenceEvents(refs, losing, others, closing)
<1>2. /\ references' = refs
      /\ row' = [r \in Rooms |-> IF r \in terminal THEN NewRow(r, watcher[r], "offline") ELSE row[r]]
      /\ broadcast' = [r \in Rooms |-> IF r \in terminal THEN [broadcast[r] EXCEPT !.open = FALSE] ELSE broadcast[r]]
  BY DEF SyncReferences
<1>3. \A r \in Rooms : /\ row'[r] = IF r \in terminal THEN NewRow(r, watcher[r], "offline") ELSE row[r]
                       /\ broadcast'[r] = IF r \in terminal THEN [broadcast[r] EXCEPT !.open = FALSE] ELSE broadcast[r]
  BY <1>2
<1> HIDE DEF events
<1>4. /\ events \in Seq(Events) /\ Sole(events) /\ RefsFirst(events)
      /\ References(events, references, refs)
      /\ Transitions(events, row, broadcast, row', broadcast')
  BY <1>3, SyncSays DEF events
<1>5. outbox \in Seq(Events) /\ outbox' = outbox \o events
  BY <1>1 DEF TableInv, TableTypes, events
<1>6. Ranked(outbox') /\ Faithful(outbox') /\ TablesAgree(outbox', references', row', broadcast')
  BY <1>2, <1>4, <1>5, StillAgree DEF TableInv, LogInv
<1>7. Orderly(outbox') /\ Apart(references')
  <2>1. \A x \in Rooms : references[x] = AccountsSaid(outbox, x, Len(outbox))
    BY DEF TableInv, LogInv, TablesAgree
  <2> QED
    BY <2>1, <1>2, <1>4, <1>5, StillOrderly DEF TableInv, LogInv
<1>8. LogInv'
  BY <1>6, <1>7 DEF LogInv
<1>9. outbox' \in Seq(Events)
  BY <1>4, <1>5, ConcatProperties
<1>10. ASSUME NEW r \in Rooms
       PROVE  /\ row'[r] \in [state : States, epoch : Nat, broadcast : Nat]
              /\ row'[r].state = "offline" <=> row'[r].broadcast = 0
              /\ broadcast'[r] \in [last : Nat, open : BOOLEAN]
  <2>1. /\ row[r] \in [state : States, epoch : Nat, broadcast : Nat]
        /\ row[r].state = "offline" <=> row[r].broadcast = 0
        /\ broadcast[r] \in [last : Nat, open : BOOLEAN]
    BY DEF TableInv, TableTypes
  <2>2. r \in terminal =>
          /\ NewRow(r, watcher[r], "offline") \in [state : States, epoch : Nat, broadcast : Nat]
          /\ NewRow(r, watcher[r], "offline").state = "offline" /\ NewRow(r, watcher[r], "offline").broadcast = 0
    <3>1. r \in terminal =>
            NewRow(r, watcher[r], "offline") = [state |-> "offline", epoch |-> row[r].epoch + 1, broadcast |-> 0]
      BY DEF NewRow, Recordable
    <3>2. row[r].epoch + 1 \in Nat /\ "offline" \in States
      BY <2>1 DEF States
    <3> QED
      BY <3>1, <3>2
  <2>3. [broadcast[r] EXCEPT !.open = FALSE] \in [last : Nat, open : BOOLEAN]
    BY <2>1
  <2> QED
    BY <1>3, <2>1, <2>2, <2>3
<1>11. /\ row' \in [Rooms -> [state : States, epoch : Nat, broadcast : Nat]]
       /\ broadcast' \in [Rooms -> [last : Nat, open : BOOLEAN]]
  BY <1>2, <1>10
<1>12. TableTypes'
  BY <1>2, <1>9, <1>10, <1>11 DEF TableTypes
<1> QED
  BY <1>4, <1>5, <1>8, <1>12 DEF TableInv, Grows

LEMMA SameTables ==
  ASSUME TableInv, UNCHANGED tables
  PROVE  TableInv' /\ Grows
<1>1. outbox' = outbox /\ outbox \in Seq(Events) /\ <<>> \in Seq(Events)
  BY DEF tables, TableInv, TableTypes
<1>2. Grows
  BY <1>1, ConcatEmptySeq DEF Grows
<1>3. references' = references /\ row' = row /\ broadcast' = broadcast
  BY DEF tables
<1>4. TableInv'
  BY <1>1, <1>3 DEF TableInv, TableTypes, LogInv
<1> QED
  BY <1>2, <1>4
-----------------------------------------------------------------------------
(***************************************************************************)
(* The variables of the process.  The references that a refresh has read   *)
(* are of one moment: no account has two rooms in them.                    *)
(***************************************************************************)
Polls == [at : {"idle", "next", "probing", "second"}, todo : SUBSET Rooms, room : Rooms \cup {0},
          held : BOOLEAN, began : Nat, result : SUBSET {"error", "budget", "cancelled"}]
Refreshes == [at : {"idle", "loaded", "polling", "failed"}, refs : [Rooms -> SUBSET People], added : SUBSET Rooms]
Projections == [state : States, epoch : Nat, broadcast : Nat, accounts : SUBSET People, active : SUBSET People]
Consumers == [at : {"waiting", "reading", "applying"}, upto : Nat, resolved : BOOLEAN]

\* Who holds a watcher, or is between two transitions, has a room.
Roomed(p) == p.held \/ p.at = "second" => p.room \in Rooms

PollInv == poll \in [Threads -> Polls] /\ \A t \in Threads : Roomed(poll[t])
RefreshInv == refresh \in Refreshes /\ Apart(refresh.refs)
NotifiedTypes == wake \in BOOLEAN /\ announced \subseteq 1..Sequence
WatchingTypes == watcher \in [Rooms -> States \cup {"none"}] /\ elapsed \subseteq Rooms
LeftTypes == left \in [faults : Nat, changes : Nat]
ConsumingTypes ==
  consumer \in Consumers /\ cursor \in Nat /\ projection \in [Rooms -> Projections] /\ up \in BOOLEAN
EnabledTypes == enabled \in [People -> Rooms \cup {NoRoom}]

WatchInv ==
  /\ TableInv /\ PollInv /\ RefreshInv /\ NotifiedTypes /\ WatchingTypes
  /\ LeftTypes /\ ConsumingTypes /\ EnabledTypes

LEMMA WatchTypes ==
  ASSUME WatchInv
  PROVE  RoomsTypeOK
BY DEF WatchInv, TableInv, TableTypes, PollInv, RefreshInv, NotifiedTypes, WatchingTypes, LeftTypes, ConsumingTypes,
       EnabledTypes, Polls, Refreshes, Projections, Consumers, RoomsTypeOK

LEMMA Initials ==
  /\ IdlePoll \in Polls /\ Roomed(IdlePoll)
  /\ IdleRefresh \in Refreshes /\ Apart(IdleRefresh.refs)
  /\ Waiting \in Consumers /\ Unprojected \in Projections
<1>1. IdlePoll \in Polls /\ Roomed(IdlePoll)
  BY DEF IdlePoll, Polls, Roomed
<1>2. IdleRefresh \in Refreshes /\ Apart(IdleRefresh.refs)
  BY DEF IdleRefresh, Refreshes, Apart
<1>3. Waiting \in Consumers /\ Unprojected \in Projections
  BY DEF Waiting, Consumers, Unprojected, Projections, States
<1> QED
  BY <1>1, <1>2, <1>3

LEMMA Longer ==
  ASSUME TableInv, Grows
  PROVE  Sequence \in Nat /\ Sequence' \in Nat /\ Sequence <= Sequence'
<1>1. PICK events \in Seq(Events) : outbox' = outbox \o events
  BY DEF Grows
<1>2. outbox \in Seq(Events)
  BY DEF TableInv, TableTypes
<1>3. Len(outbox) \in Nat /\ Len(outbox') = Len(outbox) + Len(events) /\ Len(events) \in Nat
  BY <1>1, <1>2, ConcatProperties, LenProperties
<1> QED
  BY <1>3 DEF Sequence

LEMMA NotifiedKept ==
  ASSUME TableInv, NotifiedTypes, Grows, Notify \/ UNCHANGED notified \/ (wake' \in BOOLEAN /\ announced' \subseteq announced)
  PROVE  NotifiedTypes'
<1>1. Sequence \in Nat /\ Sequence' \in Nat /\ Sequence <= Sequence' /\ Sequence = Len(outbox) /\ Sequence' = Len(outbox')
  BY Longer DEF Sequence
<1>2. announced \subseteq 1..Sequence'
  BY <1>1 DEF NotifiedTypes
<1>3. CASE Notify
  <2>1. CASE outbox' = outbox
    BY <1>2, <1>3, <2>1 DEF Notify, NotifiedTypes, notified
  <2>2. CASE outbox' # outbox
    <3>1. wake' = TRUE /\ announced' = announced \cup Sequence + 1..Len(outbox')
      BY <1>3, <2>2 DEF Notify
    <3>2. Sequence + 1..Sequence' \subseteq 1..Sequence'
      BY <1>1
    <3> QED
      BY <1>1, <1>2, <3>1, <3>2 DEF NotifiedTypes
  <2> QED
    BY <2>1, <2>2
<1>4. CASE UNCHANGED notified
  BY <1>2, <1>4 DEF NotifiedTypes, notified
<1>5. CASE wake' \in BOOLEAN /\ announced' \subseteq announced
  BY <1>2, <1>5 DEF NotifiedTypes
<1> QED
  BY <1>3, <1>4, <1>5

LEMMA PollKept ==
  ASSUME PollInv, NEW t \in Threads, NEW p \in Polls, Roomed(p), poll' = [poll EXCEPT ![t] = p]
  PROVE  PollInv'
<1>1. poll' \in [Threads -> Polls] /\ \A u \in Threads : poll'[u] = IF u = t THEN p ELSE poll[u]
  BY DEF PollInv
<1> QED
  BY <1>1 DEF PollInv

LEMMA OnwardKeeps ==
  ASSUME PollInv, NEW t \in Threads, NEW result \in SUBSET {"error", "budget", "cancelled"}, Onward(t, result)
  PROVE  PollInv'
<1> DEFINE p == [at |-> "next", todo |-> poll[t].todo, room |-> 0, held |-> FALSE,
                 result |-> poll[t].result \cup result, began |-> 0]
<1>1. poll[t] \in Polls
  BY DEF PollInv
<1>2. p \in Polls /\ p.held = FALSE /\ p.at = "next"
  BY <1>1 DEF Polls
<1>3. poll' = [poll EXCEPT ![t] = p]
  BY DEF Onward
<1> HIDE DEF p
<1>4. Roomed(p)
  BY <1>2 DEF Roomed
<1> QED
  BY <1>2, <1>3, <1>4, PollKept

LEMMA PollEndsKeeps ==
  ASSUME PollInv, RefreshInv, NEW t \in Threads, NEW result, PollEnds(t, result)
  PROVE  PollInv' /\ RefreshInv'
<1>1. PollInv'
  <2>1. poll' = [poll EXCEPT ![t] = IdlePoll]
    BY DEF PollEnds
  <2> QED
    BY <2>1, PollKept, Initials
<1>2. refresh' \in {[refresh EXCEPT !.at = "failed"], IdleRefresh, refresh}
  BY DEF PollEnds
<1>3. /\ [refresh EXCEPT !.at = "failed"] \in Refreshes
      /\ [refresh EXCEPT !.at = "failed"].refs = refresh.refs
  BY DEF RefreshInv, Refreshes
<1>4. RefreshInv'
  BY <1>2, <1>3, Initials DEF RefreshInv
<1> QED
  BY <1>1, <1>4

LEMMA FaultKeeps ==
  ASSUME LeftTypes, Fault \/ UNCHANGED left
  PROVE  LeftTypes'
<1>1. CASE Fault
  <2>1. left.faults - 1 \in Nat
    BY <1>1 DEF Fault, LeftTypes
  <2> QED
    BY <1>1, <2>1 DEF Fault, LeftTypes
<1>2. CASE UNCHANGED left
  BY <1>2 DEF LeftTypes
<1> QED
  BY <1>1, <1>2

LEMMA PersistKeeps ==
  ASSUME WatchInv, NEW t \in Threads, NEW r \in Rooms, r = poll[t].room, NEW to \in States, NEW second \in BOOLEAN,
         Persist(t, r, to, second)
  PROVE  TableInv' /\ Grows /\ NotifiedTypes' /\ WatchingTypes' /\ LeftTypes' /\ PollInv'
<1>1. PICK answer \in Answers \cup {"conflict"} :
    /\ answer # "conflict" <=> Recordable(r, watcher[r], to)
    /\ IF answer \in {"fails", "lost"} THEN Fault ELSE UNCHANGED left
    /\ IF answer \in {"ok", "lost"}
       THEN RecordTransition(r, watcher[r], to)
       ELSE UNCHANGED tables
    /\ elapsed' = IF answer \in {"ok", "lost"} /\ to = "grace" THEN elapsed \ {r} ELSE elapsed
    /\ IF answer = "ok"
       THEN Notify /\ watcher' = [watcher EXCEPT ![r] = to]
       ELSE UNCHANGED <<notified, watcher>>
    /\ IF answer = "ok" /\ second
       THEN poll' = [poll EXCEPT ![t].at = "second"]
       ELSE Onward(t, IF answer = "ok" THEN {} ELSE {"error"})
  BY DEF Persist
<1>2. TableInv /\ NotifiedTypes /\ WatchingTypes /\ LeftTypes /\ PollInv
  BY DEF WatchInv
<1>3. TableInv' /\ Grows
  <2>1. CASE answer \in {"ok", "lost"}
    <3>1. Recordable(r, watcher[r], to) /\ RecordTransition(r, watcher[r], to)
      BY <1>1, <2>1
    <3> QED
      BY <1>2, <3>1, RecordKeeps
  <2>2. CASE answer \notin {"ok", "lost"}
    BY <1>1, <1>2, <2>2, SameTables
  <2> QED
    BY <2>1, <2>2
<1>4. NotifiedTypes'
  <2>1. Notify \/ UNCHANGED notified
    BY <1>1
  <2> QED
    BY <1>2, <1>3, <2>1, NotifiedKept
<1>5. WatchingTypes'
  BY <1>1, <1>2 DEF WatchingTypes
<1>6. LeftTypes'
  <2>1. Fault \/ UNCHANGED left
    BY <1>1
  <2> QED
    BY <1>2, <2>1, FaultKeeps
<1>7. PollInv'
  <2>1. CASE answer = "ok" /\ second
    <3> DEFINE p == [poll[t] EXCEPT !.at = "second"]
    <3>1. poll[t] \in Polls
      BY <1>2 DEF PollInv
    <3>2. p \in Polls /\ p.room = r
      BY <3>1 DEF Polls
    <3>3. poll' = [poll EXCEPT ![t] = p]
      BY <1>1, <2>1
    <3> HIDE DEF p
    <3>4. Roomed(p)
      BY <3>2 DEF Roomed
    <3> QED
      BY <1>2, <3>2, <3>3, <3>4, PollKept
  <2>2. CASE ~(answer = "ok" /\ second)
    <3>1. Onward(t, {}) \/ Onward(t, {"error"})
      BY <1>1, <2>2
    <3> QED
      BY <1>2, <3>1, OnwardKeeps
  <2> QED
    BY <2>1, <2>2
<1> QED
  BY <1>3, <1>4, <1>5, <1>6, <1>7
-----------------------------------------------------------------------------
(***************************************************************************)
(* Every step keeps WatchInv, and only adds to the outbox.                 *)
(***************************************************************************)

LEMMA BoundaryIs ==
  ASSUME NEW r, NEW observed
  PROVE  Boundary(r, observed) \in States \cup {"none"}
<1> DEFINE grace == watcher[r] = "grace"
<1>1. CASE watcher[r] = "grace" /\ r \in elapsed
  <2>1. Boundary(r, observed) \in {"offline", "live"}
    BY <1>1 DEF Boundary
  <2> QED
    BY <2>1 DEF States
<1>2. CASE ~(watcher[r] = "grace" /\ r \in elapsed)
  <2>1. Boundary(r, observed) \in {"live", "grace", "none"}
    BY <1>2 DEF Boundary
  <2> QED
    BY <2>1 DEF States
<1> QED
  BY <1>1, <1>2

LEMMA PollStep ==
  ASSUME WatchInv, NEW t \in Threads,
         \/ PollBegins(t) \/ PollReturns(t) \/ PollCancelled(t)
         \/ (\E r \in Rooms : ProbeBegins(t, r)) \/ ProbeIsStale(t) \/ ProbeFails(t) \/ ProbeExhausted(t)
  PROVE  PollInv' /\ RefreshInv' /\ LeftTypes' /\ UNCHANGED <<enabled, tables, watching, notified, consuming, up>>
<1>1. PollInv /\ RefreshInv /\ LeftTypes /\ poll[t] \in Polls
  BY DEF WatchInv, PollInv
<1>2. Sequence \in Nat
  BY SameTables, Longer, LenProperties DEF WatchInv, TableInv, TableTypes, Sequence
<1>3. CASE PollBegins(t)
  <2> DEFINE p == [poll[t] EXCEPT !.at = "next", !.todo = Watched \cap Selected(t)]
  <2>1. p \in Polls /\ p.at = "next" /\ p.held = poll[t].held /\ p.room = poll[t].room
    <3>1. Watched \cap Selected(t) \in SUBSET Rooms
      BY DEF Watched
    <3> HIDE DEF Watched, Selected
    <3> QED
      BY <1>1, <3>1 DEF Polls
  <2>2. poll' = [poll EXCEPT ![t] = p]
    BY <1>1, <1>3 DEF PollBegins, PollInv, Polls
  <2> HIDE DEF p
  <2>3. Roomed(p)
    BY <1>1, <2>1 DEF Roomed, PollInv
  <2>4. PollInv'
    BY <1>1, <2>1, <2>2, <2>3, PollKept
  <2> QED
    BY <1>1, <1>3, <2>4 DEF PollBegins, RefreshInv, LeftTypes
<1>4. CASE PollReturns(t)
  <2>1. PollInv' /\ RefreshInv'
    BY <1>1, <1>4, PollEndsKeeps DEF PollReturns
  <2> QED
    BY <1>1, <1>4, <2>1 DEF PollReturns, LeftTypes
<1>5. CASE PollCancelled(t)
  <2>1. PollInv' /\ RefreshInv'
    BY <1>1, <1>5, PollEndsKeeps DEF PollCancelled
  <2> QED
    BY <1>1, <1>5, <2>1, FaultKeeps DEF PollCancelled
<1>6. CASE \E r \in Rooms : ProbeBegins(t, r)
  <2>1. PICK r \in Rooms : ProbeBegins(t, r)
    BY <1>6
  <2> DEFINE held == r \in Watched \cap Selected(t)
             p == [poll[t] EXCEPT !.todo = poll[t].todo \ {r}, !.at = IF held THEN "probing" ELSE "next",
                                  !.room = IF held THEN r ELSE 0, !.held = held,
                                  !.began = IF held THEN Sequence ELSE 0]
  <2>2. poll' = [poll EXCEPT ![t] = p]
    BY <1>1, <2>1 DEF ProbeBegins, PollInv, Polls
  <2>3. held \in BOOLEAN
    OBVIOUS
  <2> HIDE DEF held
  <2>4. p \in Polls /\ Roomed(p)
    <3>1. CASE held
      BY <1>1, <1>2, <2>3, <3>1 DEF Polls, Roomed
    <3>2. CASE ~held
      BY <1>1, <1>2, <2>3, <3>2 DEF Polls, Roomed
    <3> QED
      BY <3>1, <3>2
  <2> HIDE DEF p
  <2>5. PollInv'
    BY <1>1, <2>2, <2>4, PollKept
  <2> QED
    BY <1>1, <2>1, <2>5 DEF ProbeBegins, RefreshInv, LeftTypes
<1>7. CASE ProbeIsStale(t)
  <2>1. PollInv'
    BY <1>1, <1>7, OnwardKeeps DEF ProbeIsStale
  <2> QED
    BY <1>1, <1>7, <2>1 DEF ProbeIsStale, RefreshInv, LeftTypes
<1>8. CASE ProbeFails(t)
  <2>1. PollInv'
    BY <1>1, <1>8, OnwardKeeps DEF ProbeFails
  <2> QED
    BY <1>1, <1>8, <2>1, FaultKeeps DEF ProbeFails, RefreshInv
<1>9. CASE ProbeExhausted(t)
  <2>1. PollInv' /\ RefreshInv'
    BY <1>1, <1>9, PollEndsKeeps DEF ProbeExhausted
  <2> QED
    BY <1>1, <1>9, <2>1 DEF ProbeExhausted, LeftTypes
<1> QED
  BY <1>3, <1>4, <1>5, <1>6, <1>7, <1>8, <1>9

LEMMA ObserveStep ==
  ASSUME WatchInv, NEW t \in Threads, (\E o \in {"live", "offline"} : ProbeAnswers(t, o)) \/ ProbeOpens(t)
  PROVE  /\ TableInv' /\ Grows /\ NotifiedTypes' /\ WatchingTypes' /\ LeftTypes' /\ PollInv'
         /\ UNCHANGED <<enabled, refresh, consuming, up>>
<1>1. Roomed(poll[t])
  BY DEF WatchInv, PollInv
<1>2. ASSUME NEW o \in {"live", "offline"}, ProbeAnswers(t, o)
      PROVE  /\ TableInv' /\ Grows /\ NotifiedTypes' /\ WatchingTypes' /\ LeftTypes' /\ PollInv'
             /\ UNCHANGED <<enabled, refresh, consuming, up>>
  <2> DEFINE r == poll[t].room
             to == Boundary(r, o)
  <2>1. r \in Rooms
    BY <1>1, <1>2 DEF ProbeAnswers, StillReferenced, Roomed
  <2>2. to \in States \cup {"none"}
    BY BoundaryIs
  <2>3. /\ IF to = "none"
           THEN Onward(t, {}) /\ UNCHANGED <<tables, watcher, elapsed, notified, left>>
           ELSE Persist(t, r, to, to = "offline" /\ o = "live")
        /\ UNCHANGED <<enabled, refresh, consuming, up>>
    BY <1>2 DEF ProbeAnswers
  <2>4. (to = "offline" /\ o = "live") \in BOOLEAN /\ r = poll[t].room
    OBVIOUS
  <2> HIDE DEF to, r
  <2>5. CASE to = "none"
    <3>1. TableInv' /\ Grows
      BY <2>3, <2>5, SameTables DEF WatchInv
    <3>2. PollInv'
      BY <2>3, <2>5, OnwardKeeps DEF WatchInv
    <3>3. NotifiedTypes'
      BY <2>3, <2>5, <3>1, NotifiedKept DEF WatchInv
    <3> QED
      BY <2>3, <2>5, <3>1, <3>2, <3>3 DEF WatchInv, WatchingTypes, LeftTypes
  <2>6. CASE to # "none"
    <3>1. to \in States
      BY <2>2, <2>6
    <3> DEFINE second == to = "offline" /\ o = "live"
    <3>2. Persist(t, r, to, second) /\ second \in BOOLEAN
      BY <2>3, <2>6
    <3> HIDE DEF second
    <3> QED
      BY <2>1, <2>3, <2>4, <3>1, <3>2, PersistKeeps
  <2> QED
    BY <2>5, <2>6
<1>3. ASSUME ProbeOpens(t)
      PROVE  /\ TableInv' /\ Grows /\ NotifiedTypes' /\ WatchingTypes' /\ LeftTypes' /\ PollInv'
             /\ UNCHANGED <<enabled, refresh, consuming, up>>
  <2>1. poll[t].room \in Rooms /\ "live" \in States
    BY <1>1, <1>3 DEF ProbeOpens, Roomed, States
  <2>2. Persist(t, poll[t].room, "live", FALSE) /\ UNCHANGED <<enabled, refresh, consuming, up>>
    BY <1>3 DEF ProbeOpens
  <2> QED
    BY <2>1, <2>2, PersistKeeps
<1> QED
  BY <1>2, <1>3

LEMMA OutdatedKeeps ==
  ASSUME PollInv, NEW gone, poll' = Outdated(gone)
  PROVE  PollInv'
<1>1. ASSUME NEW t \in Threads
      PROVE  poll'[t] \in Polls /\ Roomed(poll'[t])
  <2> DEFINE held == poll[t].held /\ poll[t].room \notin gone
  <2>1. poll[t] \in Polls /\ Roomed(poll[t])
    BY DEF PollInv
  <2>2. poll'[t] = [poll[t] EXCEPT !.held = held]
    BY DEF Outdated
  <2>3. held \in BOOLEAN
    BY <2>1 DEF Polls
  <2>4. held => poll[t].held
    OBVIOUS
  <2> HIDE DEF held
  <2> QED
    BY <2>1, <2>2, <2>3, <2>4 DEF Polls, Roomed
<1>2. poll' = [t \in Threads |-> poll'[t]]
  BY DEF Outdated
<1> QED
  BY <1>1, <1>2 DEF PollInv

LEMMA RefreshStep ==
  ASSUME WatchInv, Load \/ SetReferences \/ SetReferencesFails \/ TakeBack
  PROVE  /\ TableInv' /\ Grows /\ NotifiedTypes' /\ WatchingTypes' /\ LeftTypes' /\ PollInv' /\ RefreshInv'
         /\ UNCHANGED <<enabled, consuming, up>>
<1>1. /\ TableInv /\ NotifiedTypes /\ WatchingTypes /\ LeftTypes /\ PollInv /\ RefreshInv /\ EnabledTypes
      /\ RoomsTypeOK
  BY WatchTypes DEF WatchInv
<1>2. refresh.refs \in [Rooms -> SUBSET People] /\ Apart(refresh.refs) /\ Terminal \in SUBSET Rooms
  BY <1>1 DEF RefreshInv, Refreshes, Terminal, Removed, Watched
<1>3. CASE Load
  <2>1. /\ refresh' = [refresh EXCEPT !.at = "loaded", !.refs = EnabledReferences]
        /\ UNCHANGED <<enabled, tables, watching, poll, notified, consuming, up, left>>
    BY <1>3 DEF Load
  <2>2. EnabledReferences \in [Rooms -> SUBSET People] /\ Apart(EnabledReferences)
    <3>1. EnabledReferences \in [Rooms -> SUBSET People]
      BY DEF EnabledReferences
    <3>2. Apart(EnabledReferences)
      BY DEF EnabledReferences, Apart
    <3> QED
      BY <3>1, <3>2
  <2>3. refresh' \in Refreshes /\ refresh'.refs = EnabledReferences
    <3> HIDE DEF EnabledReferences
    <3> QED
      BY <1>1, <2>1, <2>2 DEF RefreshInv, Refreshes
  <2>4. TableInv' /\ Grows
    BY <1>1, <2>1, SameTables
  <2>5. NotifiedTypes'
    BY <1>1, <2>1, <2>4, NotifiedKept
  <2>6. RefreshInv'
    BY <2>2, <2>3 DEF RefreshInv
  <2>7. PollInv' /\ WatchingTypes' /\ LeftTypes'
    BY <1>1, <2>1 DEF PollInv, WatchingTypes, LeftTypes, watching
  <2> QED
    BY <2>1, <2>4, <2>5, <2>6, <2>7
<1>4. CASE SetReferences
  <2>1. /\ \A r \in Terminal : Recordable(r, watcher[r], "offline")
        /\ SyncReferences(refresh.refs, Terminal) /\ Notify
        /\ watcher' = Rewatched /\ poll' = Outdated(Removed)
        /\ refresh' = IF Added = {} THEN IdleRefresh ELSE [refresh EXCEPT !.at = "polling", !.added = Added]
        /\ UNCHANGED <<enabled, elapsed, consuming, up, left>>
    BY <1>4 DEF SetReferences
  <2>2. TableInv' /\ Grows
    BY <1>1, <1>2, <2>1, SyncKeeps
  <2>3. NotifiedTypes'
    BY <1>1, <2>1, <2>2, NotifiedKept
  <2>4. PollInv'
    BY <1>1, <2>1, OutdatedKeeps
  <2>5. WatchingTypes'
    BY <1>1, <2>1 DEF WatchingTypes, Rewatched, States
  <2>6. RefreshInv'
    <3>1. Added \in SUBSET Rooms
      BY DEF Added
    <3>2. [refresh EXCEPT !.at = "polling", !.added = Added] \in Refreshes
          /\ [refresh EXCEPT !.at = "polling", !.added = Added].refs = refresh.refs
      <4> HIDE DEF Added
      <4> QED
        BY <1>1, <3>1 DEF RefreshInv, Refreshes
    <3> QED
      BY <1>2, <2>1, <3>2, Initials DEF RefreshInv
  <2> QED
    BY <1>1, <2>1, <2>2, <2>3, <2>4, <2>5, <2>6 DEF LeftTypes
<1>5. CASE SetReferencesFails
  <2>1. /\ refresh' = IdleRefresh
        /\ UNCHANGED <<enabled, watching, poll, notified, consuming, up>>
        /\ Fault \/ UNCHANGED left
        /\ \/ UNCHANGED tables
           \/ /\ \A r \in Terminal : Recordable(r, watcher[r], "offline")
              /\ SyncReferences(refresh.refs, Terminal)
    BY <1>5 DEF SetReferencesFails
  <2>2. TableInv' /\ Grows
    BY <1>1, <1>2, <2>1, SyncKeeps, SameTables
  <2>3. NotifiedTypes'
    BY <1>1, <2>1, <2>2, NotifiedKept
  <2>4. RefreshInv' /\ LeftTypes'
    BY <1>1, <2>1, Initials, FaultKeeps DEF RefreshInv
  <2>5. PollInv' /\ WatchingTypes'
    BY <1>1, <2>1 DEF PollInv, WatchingTypes, watching
  <2> QED
    BY <2>1, <2>2, <2>3, <2>4, <2>5
<1>6. CASE TakeBack
  <2>1. /\ watcher' = [r \in Rooms |-> IF r \in refresh.added THEN "none" ELSE watcher[r]]
        /\ poll' = Outdated(refresh.added) /\ refresh' = IdleRefresh
        /\ UNCHANGED <<enabled, tables, elapsed, notified, consuming, up, left>>
    BY <1>6 DEF TakeBack
  <2>2. TableInv' /\ Grows
    BY <1>1, <2>1, SameTables
  <2>3. NotifiedTypes'
    BY <1>1, <2>1, <2>2, NotifiedKept
  <2>4. PollInv' /\ RefreshInv'
    BY <1>1, <2>1, OutdatedKeeps, Initials DEF RefreshInv
  <2>5. WatchingTypes' /\ LeftTypes'
    BY <1>1, <2>1 DEF WatchingTypes, LeftTypes
  <2> QED
    BY <2>1, <2>2, <2>3, <2>4, <2>5
<1> QED
  BY <1>3, <1>4, <1>5, <1>6
ConsumerSteps ==
  \/ Wake \/ Replay \/ ReplayEnds \/ OpenBroadcastSession \/ ApplyRoomEvent
  \/ \E a \in People : StopAccount(a) \/ (\E r \in Rooms : LeaveRoom(a, r)) \/ StartAccount(a)

LEMMA ApplyingIs ==
  ASSUME WatchInv, Applying, consumer.upto <= Sequence
  PROVE  /\ cursor + 1 \in 1..Len(outbox) /\ cursor \in Nat /\ Event = outbox[cursor + 1]
         /\ Event.kind \in Kinds /\ Event.room \in Rooms
         /\ Event.kind = "state" => Event.from \in States /\ Event.to \in States /\ Event.epoch \in Nat
         /\ Event.kind = "refs" => Event.accounts \in SUBSET People
         /\ projection[Event.room] \in Projections
<1>1. cursor \in Nat /\ outbox \in Seq(Events) /\ Len(outbox) \in Nat /\ consumer.upto \in Nat
  BY LenProperties DEF WatchInv, ConsumingTypes, Consumers, TableInv, TableTypes
<1>2. cursor + 1 \in 1..Len(outbox)
  BY <1>1 DEF Applying, Sequence
<1>3. Event = outbox[cursor + 1]
  BY DEF Event
<1>4. /\ Event.kind \in Kinds /\ Event.room \in Rooms
      /\ Event.kind = "state" => Event.from \in States /\ Event.to \in States /\ Event.epoch \in Nat
      /\ Event.kind = "refs" => Event.accounts \in SUBSET People
  BY <1>1, <1>2, <1>3, EventFields
<1>5. projection[Event.room] \in Projections
  BY <1>4 DEF WatchInv, ConsumingTypes
<1> QED
  BY <1>1, <1>2, <1>3, <1>4, <1>5

\* The consumer replays what the outbox holds, and has not passed what it replays.
ReplayInv ==
  /\ consumer.upto <= Sequence /\ cursor <= Sequence
  /\ consumer.at = "applying" => cursor <= consumer.upto
  /\ ~up => consumer = Waiting /\ announced = {} /\ wake = FALSE

LEMMA ConsumerStep ==
  ASSUME WatchInv, ReplayInv, ConsumerSteps
  PROVE  ConsumingTypes' /\ announced' = announced /\ wake' \in BOOLEAN
         /\ UNCHANGED <<enabled, tables, watching, poll, refresh, up, left>>
<1>1. ConsumingTypes /\ wake \in BOOLEAN /\ Sequence \in Nat /\ consumer \in Consumers /\ cursor \in Nat
      /\ projection \in [Rooms -> Projections] /\ up \in BOOLEAN /\ consumer.upto \in Nat
  BY LenProperties DEF WatchInv, ConsumingTypes, NotifiedTypes, Sequence, TableInv, TableTypes, Consumers
<1>2. CASE Wake
  <2>1. [consumer EXCEPT !.at = "reading"] \in Consumers
    BY <1>1 DEF Consumers
  <2> QED
    BY <1>1, <1>2, <2>1 DEF Wake, ConsumingTypes
<1>3. CASE Replay
  <2>1. [at |-> "applying", upto |-> Sequence, resolved |-> FALSE] \in Consumers
    BY <1>1 DEF Consumers
  <2> QED
    BY <1>1, <1>3, <2>1 DEF Replay, ConsumingTypes, notified
<1>4. CASE ReplayEnds
  BY <1>1, <1>4, Initials DEF ReplayEnds, ConsumingTypes, notified
<1>5. ASSUME Applying
      PROVE  /\ Event.room \in Rooms /\ projection[Event.room] \in Projections
             /\ Event.kind = "state" => Event.to \in States /\ Event.epoch \in Nat
             /\ Event.kind = "refs" => Event.accounts \in SUBSET People
             /\ Event.kind \in Kinds
  BY <1>5, ApplyingIs DEF ReplayInv
<1>6. CASE OpenBroadcastSession
  <2>1. Applying
    BY <1>6 DEF OpenBroadcastSession
  <2>2. broadcast[Event.room].last \in Nat
    BY <1>5, <2>1 DEF WatchInv, TableInv, TableTypes
  <2>3. [consumer EXCEPT !.resolved = TRUE] \in Consumers
    BY <1>1 DEF Consumers
  <2>4. [projection[Event.room] EXCEPT !.broadcast = broadcast[Event.room].last] \in Projections
    BY <1>5, <2>1, <2>2 DEF Projections
  <2>5. projection' = [projection EXCEPT ![Event.room] = [projection[Event.room] EXCEPT !.broadcast = broadcast[Event.room].last]]
    BY <1>1, <1>6 DEF OpenBroadcastSession, Projections
  <2>6. projection' \in [Rooms -> Projections]
    BY <1>1, <2>4, <2>5
  <2> QED
    BY <1>1, <1>6, <2>3, <2>6 DEF OpenBroadcastSession, ConsumingTypes, notified
<1>7. ASSUME NEW a \in People, StopAccount(a)
      PROVE  ConsumingTypes' /\ UNCHANGED <<enabled, tables, watching, poll, refresh, notified, consumer, cursor, up, left>>
  <2>1. Applying
    BY <1>7 DEF StopAccount
  <2>2. projection' = [projection EXCEPT ![Event.room] =
                         [projection[Event.room] EXCEPT !.active = projection[Event.room].active \ {a}]]
    BY <1>1, <1>7 DEF StopAccount
  <2>3. [projection[Event.room] EXCEPT !.active = projection[Event.room].active \ {a}] \in Projections
    BY <1>5, <2>1 DEF Projections
  <2>4. projection' \in [Rooms -> Projections]
    BY <1>1, <2>2, <2>3
  <2> QED
    BY <1>1, <1>7, <2>4 DEF StopAccount, ConsumingTypes
<1>8. ASSUME NEW a \in People, StartAccount(a)
      PROVE  ConsumingTypes' /\ UNCHANGED <<enabled, tables, watching, poll, refresh, notified, consumer, cursor, up, left>>
  <2>1. Applying
    BY <1>8 DEF StartAccount, Starting
  <2>2. projection' = [projection EXCEPT ![Event.room] =
                         [projection[Event.room] EXCEPT !.active = projection[Event.room].active \cup {a}]]
    BY <1>1, <1>8 DEF StartAccount
  <2>3. [projection[Event.room] EXCEPT !.active = projection[Event.room].active \cup {a}] \in Projections
    BY <1>5, <2>1 DEF Projections
  <2>4. projection' \in [Rooms -> Projections]
    BY <1>1, <2>2, <2>3
  <2> QED
    BY <1>1, <1>8, <2>4 DEF StartAccount, ConsumingTypes
<1>10. ASSUME NEW a \in People, NEW r \in Rooms, LeaveRoom(a, r)
      PROVE  ConsumingTypes' /\ UNCHANGED <<enabled, tables, watching, poll, refresh, notified, consumer, cursor, up, left>>
  <2>1. projection' = [projection EXCEPT ![r] =
                         [projection[r] EXCEPT !.active = projection[r].active \ {a},
                                               !.accounts = projection[r].accounts \ {a}]]
    BY <1>1, <1>10 DEF LeaveRoom, Projections
  <2>2. [projection[r] EXCEPT !.active = projection[r].active \ {a},
                              !.accounts = projection[r].accounts \ {a}] \in Projections
    BY <1>1 DEF Projections
  <2>3. projection' \in [Rooms -> Projections]
    BY <1>1, <2>1, <2>2
  <2> QED
    BY <1>1, <1>10, <2>3 DEF LeaveRoom, ConsumingTypes
<1>9. CASE ApplyRoomEvent
  <2>1. Applying
    BY <1>9 DEF ApplyRoomEvent
  <2> DEFINE p == projection[Event.room]
             passed == [p EXCEPT !.accounts = Event.accounts]
             moved == [p EXCEPT !.state = Event.to, !.epoch = Event.epoch,
                                !.broadcast = IF Event.to = "offline" THEN 0 ELSE p.broadcast]
  <2>2. Event.kind = "refs" => Projected = passed /\ passed \in Projections
    BY <1>5, <2>1 DEF Projected, Projections
  <2>3. Event.kind = "state" => moved \in Projections
    BY <1>5, <2>1 DEF Projections
  <2>4. Event.kind = "state" => Projected = moved
    BY <2>1 DEF Projected
  <2>5. Projected \in Projections
    BY <1>5, <2>1, <2>2, <2>3, <2>4 DEF Kinds
  <2>6. [consumer EXCEPT !.resolved = FALSE] \in Consumers
    BY <1>1 DEF Consumers
  <2>7. projection' = [projection EXCEPT ![Event.room] = Projected]
        /\ cursor' = cursor + 1 /\ consumer' = [consumer EXCEPT !.resolved = FALSE]
        /\ UNCHANGED <<enabled, tables, watching, poll, refresh, notified, up, left>>
    BY <1>9 DEF ApplyRoomEvent, PassesEvent
  <2> HIDE DEF p, passed, moved
  <2>8. projection' \in [Rooms -> Projections]
    BY <1>1, <2>5, <2>7
  <2>9. cursor' \in Nat /\ consumer' \in Consumers /\ up' \in BOOLEAN
    BY <1>1, <2>6, <2>7
  <2>10. ConsumingTypes'
    BY <2>8, <2>9 DEF ConsumingTypes
  <2> QED
    BY <1>1, <2>7, <2>10 DEF notified
<1> QED
  BY <1>1, <1>2, <1>3, <1>4, <1>6, <1>7, <1>8, <1>9, <1>10 DEF ConsumerSteps, Wake, Replay, ReplayEnds, OpenBroadcastSession, ApplyRoomEvent, notified

OtherSteps ==
  \/ Crash \/ StartRoomRuntime
  \/ \E p \in People, r \in Rooms \cup {NoRoom} : Rebind(p, r)
  \/ \E r \in Rooms : GraceElapses(r)

LEMMA OtherStep ==
  ASSUME WatchInv, OtherSteps
  PROVE  /\ PollInv' /\ RefreshInv' /\ WatchingTypes' /\ LeftTypes' /\ ConsumingTypes' /\ EnabledTypes'
         /\ UNCHANGED tables /\ wake' \in BOOLEAN /\ announced' \subseteq announced
<1>1. /\ TableInv /\ NotifiedTypes /\ WatchingTypes /\ LeftTypes /\ PollInv /\ RefreshInv /\ EnabledTypes
      /\ ConsumingTypes
  BY DEF WatchInv
<1>2. CASE Crash
  <2>1. /\ up' = FALSE /\ watcher' = [r \in Rooms |-> "none"] /\ poll' = [t \in Threads |-> IdlePoll]
        /\ refresh' = IdleRefresh /\ wake' = FALSE /\ announced' = {} /\ consumer' = Waiting /\ cursor' = 0
        /\ projection' = [r \in Rooms |-> Unprojected] /\ UNCHANGED <<enabled, tables, elapsed>> /\ Fault
    BY <1>2 DEF Crash
  <2>2. PollInv' /\ RefreshInv'
    BY <2>1, Initials DEF PollInv, RefreshInv
  <2>3. ConsumingTypes'
    BY <2>1, Initials DEF ConsumingTypes
  <2>4. WatchingTypes' /\ EnabledTypes'
    BY <1>1, <2>1 DEF WatchingTypes, EnabledTypes
  <2> QED
    BY <1>1, <2>1, <2>2, <2>3, <2>4, FaultKeeps
<1>3. CASE StartRoomRuntime
  <2>1. /\ up' = TRUE /\ cursor' = Sequence
        /\ projection' = [r \in Rooms |->
             IF r \notin Bootstrapped THEN Unprojected
             ELSE [state |-> row[r].state, epoch |-> row[r].epoch, broadcast |-> row[r].broadcast,
                   accounts |-> references[r],
                   active |-> IF row[r].state = "live" THEN references[r] ELSE {}]]
        /\ watcher' = [r \in Rooms |-> IF r \in Bootstrapped THEN row[r].state ELSE "none"]
        /\ UNCHANGED <<enabled, tables, elapsed, poll, refresh, notified, consumer, left>>
    BY <1>3 DEF StartRoomRuntime
  <2>2. \A r \in Rooms : /\ row[r].state \in States /\ row[r].epoch \in Nat /\ row[r].broadcast \in Nat
                         /\ references[r] \in SUBSET People
    BY <1>1 DEF TableInv, TableTypes
  <2>3. ASSUME NEW r \in Rooms
        PROVE  [state |-> row[r].state, epoch |-> row[r].epoch, broadcast |-> row[r].broadcast,
                accounts |-> references[r],
                active |-> IF row[r].state = "live" THEN references[r] ELSE {}] \in Projections
    BY <2>2 DEF Projections
  <2>4. projection' \in [Rooms -> Projections]
    BY <2>1, <2>3, Initials
  <2>5. Sequence \in Nat
    BY <1>1, LenProperties DEF Sequence, TableInv, TableTypes
  <2>6. ConsumingTypes'
    BY <1>1, <2>1, <2>4, <2>5 DEF ConsumingTypes
  <2>7. WatchingTypes'
    BY <1>1, <2>1, <2>2 DEF WatchingTypes
  <2> QED
    BY <1>1, <2>1, <2>6, <2>7 DEF PollInv, RefreshInv, LeftTypes, EnabledTypes, NotifiedTypes, notified
<1>4. ASSUME NEW p \in People, NEW r \in Rooms \cup {NoRoom}, Rebind(p, r)
      PROVE  /\ EnabledTypes' /\ LeftTypes'
             /\ UNCHANGED <<tables, watching, poll, refresh, notified, consuming, up>>
  <2>1. left.changes - 1 \in Nat
    BY <1>1, <1>4 DEF Rebind, LeftTypes
  <2>2. LeftTypes'
    BY <1>1, <1>4, <2>1 DEF Rebind, LeftTypes
  <2>3. EnabledTypes'
    BY <1>1, <1>4 DEF Rebind, EnabledTypes
  <2> QED
    BY <1>4, <2>2, <2>3 DEF Rebind
<1>5. ASSUME NEW r \in Rooms, GraceElapses(r)
      PROVE  /\ WatchingTypes'
             /\ UNCHANGED <<enabled, tables, poll, refresh, notified, consuming, up, left>>
  BY <1>1, <1>5 DEF GraceElapses, WatchingTypes
<1>6. CASE \E p \in People, r \in Rooms \cup {NoRoom} : Rebind(p, r)
  BY <1>1, <1>4, <1>6 DEF PollInv, RefreshInv, WatchingTypes, ConsumingTypes, NotifiedTypes, watching, consuming, notified
<1>7. CASE \E r \in Rooms : GraceElapses(r)
  BY <1>1, <1>5, <1>7 DEF PollInv, RefreshInv, LeftTypes, ConsumingTypes, EnabledTypes, NotifiedTypes, consuming, notified
<1> QED
  BY <1>2, <1>3, <1>6, <1>7 DEF OtherSteps
PollSteps ==
  \E t \in Threads :
    \/ PollBegins(t) \/ PollReturns(t) \/ PollCancelled(t)
    \/ (\E r \in Rooms : ProbeBegins(t, r)) \/ ProbeIsStale(t) \/ ProbeFails(t) \/ ProbeExhausted(t)
ObserveSteps == \E t \in Threads : (\E o \in {"live", "offline"} : ProbeAnswers(t, o)) \/ ProbeOpens(t)
RefreshSteps == Load \/ SetReferences \/ SetReferencesFails \/ TakeBack

LEMMA Steps ==
  ASSUME RoomNext
  PROVE  PollSteps \/ ObserveSteps \/ RefreshSteps \/ ConsumerSteps \/ OtherSteps
BY DEF RoomNext, PollSteps, ObserveSteps, RefreshSteps, ConsumerSteps, OtherSteps

\* The watcher's steps run in the process, and leave the consumer alone but for a
\* notification.
LEMMA WatcherStep ==
  ASSUME WatchInv, PollSteps \/ ObserveSteps \/ RefreshSteps
  PROVE  /\ WatchInv' /\ Grows /\ up /\ UNCHANGED <<consuming, up>>
         /\ UNCHANGED notified \/ wake' = TRUE
<1>1. /\ TableInv /\ NotifiedTypes /\ WatchingTypes /\ LeftTypes /\ PollInv /\ RefreshInv /\ EnabledTypes
      /\ ConsumingTypes
  BY DEF WatchInv
<1>2. CASE PollSteps
  <2>1. PICK t \in Threads :
          \/ PollBegins(t) \/ PollReturns(t) \/ PollCancelled(t)
          \/ (\E r \in Rooms : ProbeBegins(t, r)) \/ ProbeIsStale(t) \/ ProbeFails(t) \/ ProbeExhausted(t)
    BY <1>2 DEF PollSteps
  <2>2. PollInv' /\ RefreshInv' /\ LeftTypes' /\ UNCHANGED <<enabled, tables, watching, notified, consuming, up>>
    BY <2>1, PollStep
  <2>3. TableInv' /\ Grows
    BY <1>1, <2>2, SameTables
  <2>4. NotifiedTypes'
    BY <1>1, <2>2, <2>3, NotifiedKept
  <2>5. WatchingTypes' /\ ConsumingTypes' /\ EnabledTypes'
    BY <1>1, <2>2 DEF WatchingTypes, ConsumingTypes, EnabledTypes, watching, consuming
  <2>6. up
    BY <2>1 DEF PollBegins, PollReturns, PollCancelled, ProbeBegins, ProbeIsStale, ProbeFails, ProbeExhausted, Unlocked
  <2> QED
    BY <2>2, <2>3, <2>4, <2>5, <2>6 DEF WatchInv
<1>3. CASE ObserveSteps
  <2>1. PICK t \in Threads : (\E o \in {"live", "offline"} : ProbeAnswers(t, o)) \/ ProbeOpens(t)
    BY <1>3 DEF ObserveSteps
  <2>2. /\ TableInv' /\ Grows /\ NotifiedTypes' /\ WatchingTypes' /\ LeftTypes' /\ PollInv'
        /\ UNCHANGED <<enabled, refresh, consuming, up>>
    BY <2>1, ObserveStep
  <2>3. RefreshInv' /\ ConsumingTypes' /\ EnabledTypes'
    BY <1>1, <2>2 DEF RefreshInv, ConsumingTypes, EnabledTypes, consuming
  <2>4. up
    BY <2>1 DEF ProbeAnswers, ProbeOpens, Unlocked
  <2>5. ASSUME NEW r, NEW to, NEW second, Persist(t, r, to, second) PROVE UNCHANGED notified \/ wake' = TRUE
    BY <2>5 DEF Persist, Notify
  <2>6. UNCHANGED notified \/ wake' = TRUE
    BY <2>1, <2>5 DEF ProbeAnswers, ProbeOpens
  <2> QED
    BY <2>2, <2>3, <2>4, <2>6 DEF WatchInv
<1>4. CASE RefreshSteps
  <2>1. /\ TableInv' /\ Grows /\ NotifiedTypes' /\ WatchingTypes' /\ LeftTypes' /\ PollInv' /\ RefreshInv'
        /\ UNCHANGED <<enabled, consuming, up>>
    BY <1>4, RefreshStep DEF RefreshSteps
  <2>2. ConsumingTypes' /\ EnabledTypes'
    BY <1>1, <2>1 DEF ConsumingTypes, EnabledTypes, consuming
  <2>3. up
    BY <1>4 DEF RefreshSteps, Load, SetReferences, SetReferencesFails, TakeBack, Unlocked
  <2>4. UNCHANGED notified \/ wake' = TRUE
    BY <1>4 DEF RefreshSteps, Load, SetReferences, SetReferencesFails, TakeBack, Notify
  <2> QED
    BY <2>1, <2>2, <2>3, <2>4 DEF WatchInv
<1> QED
  BY <1>2, <1>3, <1>4

LEMMA WatchKept ==
  ASSUME WatchInv, ReplayInv, [RoomNext]_vars
  PROVE  WatchInv' /\ Grows
<1>1. /\ TableInv /\ NotifiedTypes /\ WatchingTypes /\ LeftTypes /\ PollInv /\ RefreshInv /\ EnabledTypes
      /\ ConsumingTypes
  BY DEF WatchInv
<1>2. CASE PollSteps \/ ObserveSteps \/ RefreshSteps
  BY <1>2, WatcherStep
<1>3. CASE ConsumerSteps
  <2>1. ConsumingTypes' /\ announced' = announced /\ wake' \in BOOLEAN
        /\ UNCHANGED <<enabled, tables, watching, poll, refresh, up, left>>
    BY <1>3, ConsumerStep
  <2>2. TableInv' /\ Grows
    BY <1>1, <2>1, SameTables
  <2>3. NotifiedTypes'
    BY <1>1, <2>1, <2>2, NotifiedKept
  <2>4. PollInv' /\ RefreshInv' /\ WatchingTypes' /\ LeftTypes' /\ EnabledTypes'
    BY <1>1, <2>1 DEF PollInv, RefreshInv, WatchingTypes, LeftTypes, EnabledTypes, watching
  <2> QED
    BY <2>1, <2>2, <2>3, <2>4 DEF WatchInv
<1>4. CASE OtherSteps
  <2>1. /\ PollInv' /\ RefreshInv' /\ WatchingTypes' /\ LeftTypes' /\ ConsumingTypes' /\ EnabledTypes'
        /\ UNCHANGED tables /\ wake' \in BOOLEAN /\ announced' \subseteq announced
    BY <1>4, OtherStep
  <2>2. TableInv' /\ Grows
    BY <1>1, <2>1, SameTables
  <2>3. NotifiedTypes'
    BY <1>1, <2>1, <2>2, NotifiedKept
  <2> QED
    BY <2>1, <2>2, <2>3 DEF WatchInv
<1>5. CASE UNCHANGED vars
  <2>1. UNCHANGED <<enabled, tables, watching, poll, refresh, notified, consuming, up, left>>
    BY <1>5 DEF vars
  <2>2. TableInv' /\ Grows
    BY <1>1, <2>1, SameTables
  <2>3. NotifiedTypes'
    BY <1>1, <2>1, <2>2, NotifiedKept
  <2>4. PollInv' /\ RefreshInv' /\ WatchingTypes' /\ LeftTypes' /\ EnabledTypes' /\ ConsumingTypes'
    BY <1>1, <2>1 DEF PollInv, RefreshInv, WatchingTypes, LeftTypes, EnabledTypes, ConsumingTypes, watching, consuming
  <2> QED
    BY <2>2, <2>3, <2>4 DEF WatchInv
<1> QED
  BY <1>2, <1>3, <1>4, <1>5, Steps

-----------------------------------------------------------------------------
(***************************************************************************)
(* The wake-ups.                                                           *)
(***************************************************************************)

\* What was announced is applied, or will be by the replay under way, or a wake-up
\* waits for it.
WakeInv ==
  ~wake => \A i \in announced : CASE consumer.at = "waiting" -> i <= cursor
                                  [] consumer.at = "applying" -> i <= consumer.upto
                                  [] OTHER -> TRUE

RoomInv == WatchInv /\ ReplayInv /\ WakeInv

LEMMA RoomInvInit ==
  ASSUME RoomInit
  PROVE  RoomInv
<1>1. RoomAssumption
  BY RoomAssumption
<1>2. /\ enabled \in [People -> Rooms \cup {NoRoom}]
      /\ references = [r \in Rooms |-> {}]
      /\ row = [r \in Rooms |-> [state |-> "offline", epoch |-> 1, broadcast |-> 0]]
      /\ broadcast = [r \in Rooms |-> [last |-> 0, open |-> FALSE]]
      /\ outbox = <<>> /\ watcher = [r \in Rooms |-> "none"] /\ elapsed = {}
      /\ poll = [t \in Threads |-> IdlePoll] /\ refresh = IdleRefresh
      /\ wake = FALSE /\ announced = {} /\ consumer = Waiting /\ cursor = 0
      /\ projection = [r \in Rooms |-> Unprojected] /\ up = TRUE
      /\ left = [faults |-> MaxFaults, changes |-> MaxChanges]
  BY DEF RoomInit
<1>3. outbox \in Seq(Events) /\ Len(outbox) = 0
  BY <1>2, EmptySeq
<1>4. \A r, kind, n : n \in 0..0 => Spoken(outbox, r, kind, n) = {} /\ Broadcasts(outbox, r, n) = {}
  BY DEF Spoken, Broadcasts
<1>5. Ranked(outbox) /\ Faithful(outbox) /\ Orderly(outbox)
  BY <1>3, <1>4 DEF Ranked, Faithful, Orderly
<1>6. ASSUME NEW r \in Rooms
      PROVE  StateSaid(outbox, r, 0) = "offline" /\ EpochSaid(outbox, r, 0) = 1 /\ AccountsSaid(outbox, r, 0) = {}
             /\ Cardinality(Broadcasts(outbox, r, 0)) = 0
  <2>1. 0 \in 0..0
    OBVIOUS
  <2>2. Spoken(outbox, r, "state", 0) = {} /\ Spoken(outbox, r, "refs", 0) = {} /\ Broadcasts(outbox, r, 0) = {}
    BY <1>4, <2>1
  <2> QED
    BY <2>2, FS_EmptySet DEF StateSaid, EpochSaid, AccountsSaid
<1>7. TablesAgree(outbox, references, row, broadcast) /\ Apart(references)
  BY <1>2, <1>3, <1>6 DEF TablesAgree, Apart
<1>8. TableTypes
  BY <1>2, <1>3 DEF TableTypes, States
<1>9. TableInv
  BY <1>5, <1>7, <1>8 DEF TableInv, LogInv
<1>10. PollInv /\ RefreshInv
  BY <1>2, Initials DEF PollInv, RefreshInv
<1>11. NotifiedTypes /\ WatchingTypes /\ EnabledTypes
  BY <1>2 DEF NotifiedTypes, WatchingTypes, EnabledTypes
<1>12. LeftTypes
  BY <1>1, <1>2 DEF LeftTypes, RoomAssumption
<1>13. ConsumingTypes
  BY <1>2, Initials DEF ConsumingTypes
<1>14. WatchInv
  BY <1>9, <1>10, <1>11, <1>12, <1>13 DEF WatchInv
<1>15. ReplayInv /\ WakeInv
  BY <1>2, <1>3 DEF ReplayInv, WakeInv, Waiting, Sequence
<1> QED
  BY <1>14, <1>15 DEF RoomInv

LEMMA ReplayKept ==
  ASSUME RoomInv, [RoomNext]_vars
  PROVE  ReplayInv' /\ WakeInv'
<1>1. WatchInv /\ ReplayInv /\ WakeInv
  BY DEF RoomInv
<1>2. WatchInv' /\ Grows
  BY <1>1, WatchKept
<1>3. Sequence \in Nat /\ Sequence' \in Nat /\ Sequence <= Sequence'
  BY <1>1, <1>2, Longer DEF WatchInv
<1>4. /\ consumer \in Consumers /\ cursor \in Nat /\ consumer.upto \in Nat
      /\ consumer.at \in {"waiting", "reading", "applying"}
      /\ \A i \in announced : i \in Nat /\ i <= Sequence
  BY <1>1, <1>3 DEF WatchInv, ConsumingTypes, Consumers, NotifiedTypes
<1>5. CASE PollSteps \/ ObserveSteps \/ RefreshSteps
  <2>1. up /\ UNCHANGED <<consuming, up>> /\ (UNCHANGED notified \/ wake' = TRUE)
    BY <1>1, <1>5, WatcherStep
  <2>2. ReplayInv'
    BY <1>1, <1>3, <1>4, <2>1 DEF ReplayInv, consuming
  <2>3. WakeInv'
    BY <1>1, <2>1 DEF WakeInv, consuming, notified
  <2> QED
    BY <2>2, <2>3
<1>6. CASE ConsumerSteps
  <2>1. up
    BY <1>6 DEF ConsumerSteps, Wake, Replay, ReplayEnds, OpenBroadcastSession, ApplyRoomEvent, StopAccount, LeaveRoom, StartAccount,
                     Starting, Applying
  <2>2. announced' = announced /\ up' = up
    BY <1>1, <1>6, ConsumerStep
  <2>3. CASE Wake
    <3>1. consumer' = [consumer EXCEPT !.at = "reading"] /\ cursor' = cursor
      BY <2>3 DEF Wake
    <3>2. consumer'.at = "reading" /\ consumer'.upto = consumer.upto
      BY <1>4, <3>1 DEF Consumers
    <3> QED
      BY <1>1, <1>3, <1>4, <2>1, <2>2, <3>1, <3>2 DEF ReplayInv, WakeInv
  <2>4. CASE Replay
    <3>1. consumer' = [at |-> "applying", upto |-> Sequence, resolved |-> FALSE] /\ cursor' = cursor /\ Sequence' = Sequence
      BY <2>4 DEF Replay, Sequence, tables
    <3>2. consumer'.at = "applying" /\ consumer'.upto = Sequence
      BY <3>1
    <3>3. ReplayInv'
      BY <1>1, <1>3, <2>1, <2>2, <3>1, <3>2 DEF ReplayInv
    <3>4. WakeInv'
      BY <1>4, <2>2, <3>2 DEF WakeInv
    <3> QED
      BY <3>3, <3>4
  <2>5. CASE ReplayEnds
    <3>1. consumer' = Waiting /\ cursor' = cursor /\ wake' = wake /\ consumer.at = "applying" /\ cursor = consumer.upto
      BY <2>5 DEF ReplayEnds, notified
    <3>2. consumer'.at = "waiting" /\ consumer'.upto = 0
      BY <3>1 DEF Waiting
    <3>3. ReplayInv'
      BY <1>1, <1>3, <1>4, <2>1, <2>2, <3>1, <3>2 DEF ReplayInv
    <3>4. WakeInv'
      BY <1>1, <2>2, <3>1, <3>2 DEF WakeInv
    <3> QED
      BY <3>3, <3>4
  <2>6. CASE OpenBroadcastSession \/ (\E a \in People : StopAccount(a) \/ (\E r \in Rooms : LeaveRoom(a, r)) \/ StartAccount(a))
    <3>1. consumer' \in {consumer, [consumer EXCEPT !.resolved = TRUE]} /\ cursor' = cursor /\ wake' = wake
      BY <2>6 DEF OpenBroadcastSession, StopAccount, LeaveRoom, StartAccount, notified
    <3>2. consumer'.at = consumer.at /\ consumer'.upto = consumer.upto
      BY <1>4, <3>1 DEF Consumers
    <3>3. ReplayInv'
      BY <1>1, <1>3, <1>4, <2>1, <2>2, <3>1, <3>2 DEF ReplayInv
    <3>4. WakeInv'
      BY <1>1, <2>2, <3>1, <3>2 DEF WakeInv
    <3> QED
      BY <3>3, <3>4
  <2>7. CASE ApplyRoomEvent
    <3>1. consumer' = [consumer EXCEPT !.resolved = FALSE] /\ cursor' = cursor + 1 /\ wake' = wake
          /\ consumer.at = "applying" /\ cursor < consumer.upto
      BY <2>7 DEF ApplyRoomEvent, PassesEvent, Applying, notified
    <3>2. consumer'.at = "applying" /\ consumer'.upto = consumer.upto
      BY <1>4, <3>1 DEF Consumers
    <3>3. ReplayInv'
      BY <1>1, <1>3, <1>4, <2>1, <2>2, <3>1, <3>2 DEF ReplayInv
    <3>4. WakeInv'
      BY <1>1, <2>2, <3>1, <3>2 DEF WakeInv
    <3> QED
      BY <3>3, <3>4
  <2> QED
    BY <1>6, <2>3, <2>4, <2>5, <2>6, <2>7 DEF ConsumerSteps
<1>7. CASE OtherSteps
  <2>1. CASE Crash
    <3>1. up' = FALSE /\ wake' = FALSE /\ announced' = {} /\ consumer' = Waiting /\ cursor' = 0
      BY <2>1 DEF Crash
    <3> QED
      BY <1>3, <3>1 DEF ReplayInv, WakeInv, Waiting
  <2>2. CASE StartRoomRuntime
    <3>1. ~up /\ up' = TRUE /\ cursor' = Sequence /\ consumer' = consumer /\ wake' = wake /\ announced' = announced
      BY <2>2 DEF StartRoomRuntime, notified
    <3>2. consumer' = Waiting /\ announced' = {}
      BY <1>1, <3>1 DEF ReplayInv
    <3> QED
      BY <1>3, <3>1, <3>2 DEF ReplayInv, WakeInv, Waiting
  <2>3. CASE ~Crash /\ ~StartRoomRuntime
    <3>1. UNCHANGED <<consuming, notified, up>>
      BY <1>7, <2>3 DEF OtherSteps, Rebind, GraceElapses
    <3> QED
      BY <1>1, <1>3, <1>4, <3>1 DEF ReplayInv, WakeInv, consuming, notified
  <2> QED
    BY <2>1, <2>2, <2>3
<1>8. CASE UNCHANGED vars
  <2>1. UNCHANGED <<consuming, notified, up>>
    BY <1>8 DEF vars
  <2> QED
    BY <1>1, <1>3, <1>4, <2>1 DEF ReplayInv, WakeInv, consuming, notified
<1> QED
  BY <1>5, <1>6, <1>7, <1>8, Steps

\* The variables of the watcher, its tables and its consumer have their types, and
\* what every transaction leaves in the tables is what the outbox says.
THEOREM RoomsInvariant == RoomSpec => []RoomInv
<1>1. RoomInit => RoomInv
  BY RoomInvInit
<1>2. RoomInv /\ [RoomNext]_vars => RoomInv'
  BY WatchKept, ReplayKept DEF RoomInv
<1> QED
  BY <1>1, <1>2, PTL DEF RoomSpec

\* The outbox alone tells what the tables hold, after any history of transitions,
\* snapshots, failed commits and crashes.
THEOREM OutboxTells == RoomSpec => []OutboxTellsTheRooms
<1>1. RoomInv => OutboxTellsTheRooms
  <2>1. SUFFICES ASSUME RoomInv PROVE OutboxTellsTheRooms
    OBVIOUS
  <2>2. Faithful(outbox) /\ TablesAgree(outbox, references, row, broadcast)
    BY <2>1 DEF RoomInv, WatchInv, TableInv, LogInv
  <2>3. Sequence = Len(outbox)
    BY DEF Sequence
  <2>4. \A i \in 1..Sequence : outbox[i].kind = "state" =>
          /\ outbox[i].from = StateAt(outbox[i].room, i - 1)
          /\ outbox[i].epoch = EpochAt(outbox[i].room, i)
    BY <2>2, <2>3, OutboxForm DEF Faithful
  <2>5. \A r \in Rooms :
          /\ row[r].state = StateAt(r, Sequence) /\ row[r].epoch = EpochAt(r, Sequence)
          /\ references[r] = AccountsAt(r, Sequence)
          /\ broadcast[r].open <=> row[r].state # "offline"
          /\ broadcast[r].last = Cardinality({i \in Said(r, "state", Sequence) : outbox[i].new})
    BY <2>2, <2>3, OutboxForm DEF TablesAgree
  <2> QED
    BY <2>4, <2>5 DEF OutboxTellsTheRooms
<1> QED
  BY <1>1, RoomsInvariant, PTL

\* No notification is lost by the buffer of one: what was announced is applied before
\* the consumer rests, or a wake-up is waiting.
THEOREM WakeUpsLoseNothing == RoomSpec => []CoalescedWakeUpsLoseNothing
<1>1. RoomInv => CoalescedWakeUpsLoseNothing
  BY DEF RoomInv, WakeInv, CoalescedWakeUpsLoseNothing
<1> QED
  BY <1>1, RoomsInvariant, PTL
-----------------------------------------------------------------------------
(***************************************************************************)
(* The probes.  While a thread holds a watcher, the watcher is the room's, *)
(* and no removal of the room has been announced since the probe was       *)
(* begun; between the two transitions of an observation the machine stays  *)
(* offline, because manager.mu keeps everybody else out.                   *)
(***************************************************************************)
Removal(event, r) == event.kind = "refs" /\ event.room = r /\ event.accounts = {}

Attends(log, p, watchers, told) ==
  /\ p.at = "second" => p.held /\ watchers[p.room] = "offline"
  /\ p.held => /\ watchers[p.room] # "none"
               /\ \A j \in told : j > p.began => ~Removal(log[j], p.room)

OneSecond(polls) == \A t, u \in Threads : polls[t].at = "second" /\ polls[u].at = "second" => t = u

ProbeInv ==
  /\ \A t \in Threads : Attends(outbox, poll[t], watcher, announced)
  /\ OneSecond(poll)
  /\ ~up => \A t \in Threads : ~poll[t].held

\* A probe q goes on attending when the log and the watchers change around it.
LEMMA StillAttends ==
  ASSUME NEW log, NEW log2, NEW told, NEW told2, NEW p, NEW q, NEW watchers, NEW watchers2,
         Attends(log, p, watchers, told),
         q.at = p.at /\ q.room = p.room /\ q.began = p.began,
         q.held => p.held, q.at = "second" => q.held /\ watchers2[q.room] = watchers[q.room],
         q.held => watchers2[q.room] # "none",
         \A j \in told : log2[j] = log[j],
         \A j \in told2 \ told : q.held => ~Removal(log2[j], q.room)
  PROVE  Attends(log2, q, watchers2, told2)
<1>1. ASSUME q.held, NEW j \in told2, j > q.began PROVE ~Removal(log2[j], q.room)
  BY <1>1 DEF Attends
<1> QED
  BY <1>1 DEF Attends

\* Who holds nothing attends to nothing.
LEMMA IdleAttends ==
  ASSUME NEW p, ~p.held, p.at # "second", NEW log, NEW watchers, NEW told
  PROVE  Attends(log, p, watchers, told)
BY DEF Attends

\* One thread moves on while the watchers and the log stay.
LEMMA ThreadAttends ==
  ASSUME PollInv, ProbeInv, NEW t \in Threads, NEW p, poll' = [poll EXCEPT ![t] = p], p.at # "second",
         Attends(outbox, p, watcher, announced), up, UNCHANGED <<tables, watching, notified, up>>
  PROVE  ProbeInv'
<1>1. \A u \in Threads : poll'[u] = IF u = t THEN p ELSE poll[u]
  BY DEF PollInv
<1>2. outbox' = outbox /\ watcher' = watcher /\ announced' = announced /\ up'
  BY DEF tables, watching, notified
<1>3. \A u \in Threads : Attends(outbox', poll'[u], watcher', announced')
  BY <1>1, <1>2 DEF ProbeInv
<1>4. OneSecond(poll')
  BY <1>1 DEF ProbeInv, OneSecond
<1> QED
  BY <1>2, <1>3, <1>4 DEF ProbeInv

LEMMA PollAttends ==
  ASSUME WatchInv, ProbeInv, PollSteps
  PROVE  ProbeInv'
<1>1. PollInv /\ NotifiedTypes
  BY DEF WatchInv
<1>2. PICK t \in Threads :
        \/ PollBegins(t) \/ PollReturns(t) \/ PollCancelled(t)
        \/ (\E r \in Rooms : ProbeBegins(t, r)) \/ ProbeIsStale(t) \/ ProbeFails(t) \/ ProbeExhausted(t)
  BY DEF PollSteps
<1>3. up /\ UNCHANGED <<tables, watching, notified, up>>
  BY <1>2 DEF PollBegins, PollReturns, PollCancelled, ProbeBegins, ProbeIsStale, ProbeFails, ProbeExhausted,
              Unlocked
<1>4. poll[t] \in Polls /\ Attends(outbox, poll[t], watcher, announced)
  BY <1>1 DEF PollInv, ProbeInv
<1>5. ASSUME NEW p, poll' = [poll EXCEPT ![t] = p], ~p.held, p.at # "second" PROVE ProbeInv'
  <2>1. Attends(outbox, p, watcher, announced)
    BY <1>5, IdleAttends
  <2> QED
    BY <1>1, <1>3, <1>5, <2>1, ThreadAttends
<1>6. ASSUME NEW result, PollEnds(t, result) PROVE ProbeInv'
  <2>1. poll' = [poll EXCEPT ![t] = IdlePoll] /\ ~IdlePoll.held /\ IdlePoll.at # "second"
    BY <1>6 DEF PollEnds, IdlePoll
  <2> QED
    BY <1>5, <2>1
<1>7. ASSUME NEW result, Onward(t, result) PROVE ProbeInv'
  <2> DEFINE p == [at |-> "next", todo |-> poll[t].todo, room |-> 0, held |-> FALSE,
                   result |-> poll[t].result \cup result, began |-> 0]
  <2>1. poll' = [poll EXCEPT ![t] = p] /\ ~p.held /\ p.at # "second"
    BY <1>7 DEF Onward
  <2> HIDE DEF p
  <2> QED
    BY <1>5, <2>1
<1>8. CASE PollBegins(t)
  <2> DEFINE p == [poll[t] EXCEPT !.at = "next", !.todo = Watched \cap Selected(t)]
  <2>1. poll' = [poll EXCEPT ![t] = p]
    BY <1>1, <1>8 DEF PollBegins, PollInv, Polls
  <2>2. p.at = "next" /\ p.held = poll[t].held /\ p.room = poll[t].room /\ p.began = poll[t].began
    BY <1>4 DEF Polls
  <2> HIDE DEF p
  <2>3. Attends(outbox, p, watcher, announced)
    BY <1>4, <2>2 DEF Attends
  <2> QED
    BY <1>1, <1>3, <2>1, <2>2, <2>3, ThreadAttends
<1>9. CASE \E r \in Rooms : ProbeBegins(t, r)
  <2>1. PICK r \in Rooms : ProbeBegins(t, r)
    BY <1>9
  <2> DEFINE held == r \in Watched \cap Selected(t)
             p == [poll[t] EXCEPT !.todo = poll[t].todo \ {r}, !.at = IF held THEN "probing" ELSE "next",
                                  !.room = IF held THEN r ELSE 0, !.held = held,
                                  !.began = IF held THEN Sequence ELSE 0]
  <2>2. poll' = [poll EXCEPT ![t] = p]
    BY <1>1, <2>1 DEF ProbeBegins, PollInv, Polls
  <2>3. held \in BOOLEAN /\ (held => watcher[r] # "none")
    BY DEF Watched
  <2> HIDE DEF held
  <2>4. p.at # "second" /\ (p.held => held /\ p.room = r /\ p.began = Sequence)
    BY <1>4, <2>3 DEF Polls
  <2> HIDE DEF p
  <2>5. Sequence \in Nat /\ announced \subseteq 1..Sequence
    BY <1>1, LenProperties DEF NotifiedTypes, WatchInv, TableInv, TableTypes, Sequence
  <2>6. \A j \in announced : ~(j > Sequence)
    BY <2>5
  <2>7. Attends(outbox, p, watcher, announced)
    BY <2>3, <2>4, <2>6 DEF Attends
  <2> QED
    BY <1>1, <1>3, <2>2, <2>4, <2>7, ThreadAttends
<1> QED
  BY <1>2, <1>6, <1>7, <1>8, <1>9 DEF PollReturns, PollCancelled, ProbeIsStale, ProbeFails, ProbeExhausted

LEMMA PollsOnly ==
  ASSUME WatchInv, PollSteps
  PROVE  UNCHANGED tables
<1>1. PICK t \in Threads :
        \/ PollBegins(t) \/ PollReturns(t) \/ PollCancelled(t)
        \/ (\E r \in Rooms : ProbeBegins(t, r)) \/ ProbeIsStale(t) \/ ProbeFails(t) \/ ProbeExhausted(t)
  BY DEF PollSteps
<1> QED
  BY <1>1, PollStep

\* What one observed transition does, whichever answer the repository gives.
Persisted(t, r, to, second) ==
  /\ \/ row' = row
     \/ Recordable(r, watcher[r], to) /\ row' = [row EXCEPT ![r] = NewRow(r, watcher[r], to)]
  /\ announced' \subseteq announced \cup Sequence + 1 .. Len(outbox')
  /\ \A j \in 1..Sequence : outbox'[j] = outbox[j]
  /\ \A j \in Sequence + 1 .. Len(outbox') : outbox'[j] = StateEvent(r, watcher[r], to)
  /\ watcher' = watcher \/ watcher' = [watcher EXCEPT ![r] = to]
  /\ \/ second /\ watcher' = [watcher EXCEPT ![r] = to] /\ poll' = [poll EXCEPT ![t].at = "second"]
     \/ \E result \in SUBSET {"error"} : Onward(t, result)

LEMMA PersistDoes ==
  ASSUME WatchInv, NEW t \in Threads, NEW r \in Rooms, NEW to \in States, NEW second \in BOOLEAN,
         Persist(t, r, to, second)
  PROVE  Persisted(t, r, to, second)
<1>1. PICK answer \in Answers \cup {"conflict"} :
    /\ answer # "conflict" <=> Recordable(r, watcher[r], to)
    /\ IF answer \in {"fails", "lost"} THEN Fault ELSE UNCHANGED left
    /\ IF answer \in {"ok", "lost"}
       THEN RecordTransition(r, watcher[r], to)
       ELSE UNCHANGED tables
    /\ elapsed' = IF answer \in {"ok", "lost"} /\ to = "grace" THEN elapsed \ {r} ELSE elapsed
    /\ IF answer = "ok"
       THEN Notify /\ watcher' = [watcher EXCEPT ![r] = to]
       ELSE UNCHANGED <<notified, watcher>>
    /\ IF answer = "ok" /\ second
       THEN poll' = [poll EXCEPT ![t].at = "second"]
       ELSE Onward(t, IF answer = "ok" THEN {} ELSE {"error"})
  BY DEF Persist
<1>2. outbox \in Seq(Events) /\ Sequence = Len(outbox) /\ Sequence \in Nat
  BY LenProperties DEF WatchInv, TableInv, TableTypes, Sequence
<1>3. /\ row' = row \/ (Recordable(r, watcher[r], to) /\ row' = [row EXCEPT ![r] = NewRow(r, watcher[r], to)])
      /\ \A j \in 1..Sequence : outbox'[j] = outbox[j]
      /\ \A j \in Sequence + 1 .. Len(outbox') : outbox'[j] = StateEvent(r, watcher[r], to)
  <2>1. CASE answer \in {"ok", "lost"}
    <3> DEFINE e == StateEvent(r, watcher[r], to)
    <3>1. Recordable(r, watcher[r], to)
      BY <1>1, <2>1
    <3>2. row' = [row EXCEPT ![r] = NewRow(r, watcher[r], to)] /\ outbox' = Append(outbox, e)
      BY <1>1, <2>1 DEF RecordTransition
    <3> HIDE DEF e
    <3>3. /\ Len(outbox') = Sequence + 1 /\ outbox'[Sequence + 1] = e
          /\ \A j \in 1..Sequence : outbox'[j] = outbox[j]
      BY <1>2, <3>2, AppendProperties
    <3>4. Sequence + 1 .. Len(outbox') = {Sequence + 1}
      BY <1>2, <3>3
    <3> QED
      BY <3>1, <3>2, <3>3, <3>4 DEF e
  <2>2. CASE answer \notin {"ok", "lost"}
    <3>1. row' = row /\ outbox' = outbox
      BY <1>1, <2>2 DEF tables
    <3>2. Sequence + 1 .. Len(outbox') = {}
      BY <1>2, <3>1
    <3> QED
      BY <3>1, <3>2
  <2> QED
    BY <2>1, <2>2
<1>4. announced' \subseteq announced \cup Sequence + 1 .. Len(outbox')
  BY <1>1 DEF Notify, notified
<1>5. /\ watcher' = watcher \/ watcher' = [watcher EXCEPT ![r] = to]
      /\ \/ second /\ watcher' = [watcher EXCEPT ![r] = to] /\ poll' = [poll EXCEPT ![t].at = "second"]
         \/ \E result \in SUBSET {"error"} : Onward(t, result)
  <2>1. {} \in SUBSET {"error"} /\ {"error"} \in SUBSET {"error"}
    OBVIOUS
  <2> QED
    BY <1>1, <2>1
<1> QED
  BY <1>3, <1>4, <1>5 DEF Persisted

LEMMA PersistAttends ==
  ASSUME WatchInv, ProbeInv, NEW t \in Threads, NEW r \in Rooms, r = poll[t].room, poll[t].held,
         NEW to \in States, NEW second \in BOOLEAN, second => to = "offline",
         \A u \in Threads \ {t} : poll[u].at # "second", up, UNCHANGED up, Persist(t, r, to, second)
  PROVE  ProbeInv'
<1>1. /\ poll \in [Threads -> Polls] /\ watcher \in [Rooms -> States \cup {"none"}] /\ announced \subseteq 1..Sequence
      /\ \A u \in Threads : Roomed(poll[u])
  BY DEF WatchInv, PollInv, WatchingTypes, NotifiedTypes
<1>2. /\ announced' \subseteq announced \cup Sequence + 1 .. Len(outbox')
      /\ \A j \in 1..Sequence : outbox'[j] = outbox[j]
      /\ \A j \in Sequence + 1 .. Len(outbox') : outbox'[j] = StateEvent(r, watcher[r], to)
      /\ watcher' = watcher \/ watcher' = [watcher EXCEPT ![r] = to]
      /\ \/ second /\ watcher' = [watcher EXCEPT ![r] = to] /\ poll' = [poll EXCEPT ![t].at = "second"]
         \/ \E result \in SUBSET {"error"} : Onward(t, result)
  <2>1. Persisted(t, r, to, second)
    BY PersistDoes
  <2> QED
    BY <2>1 DEF Persisted
<1>3. /\ \A j \in announced : outbox'[j] = outbox[j]
      /\ \A j \in announced' \ announced : \A s : ~Removal(outbox'[j], s)
  <2>1. \A j \in Sequence + 1 .. Len(outbox') : outbox'[j].kind = "state"
    BY <1>2, EventOf
  <2> QED
    BY <1>1, <1>2, <2>1 DEF Removal
<1>4. \A s \in Rooms : watcher[s] # "none" => watcher'[s] # "none"
  BY <1>1, <1>2 DEF States
<1>5. ASSUME NEW u \in Threads \ {t}
      PROVE  Attends(outbox', poll[u], watcher', announced')
  <2>1. Attends(outbox, poll[u], watcher, announced) /\ Roomed(poll[u]) /\ poll[u].at # "second"
    BY <1>1 DEF ProbeInv
  <2>2. poll[u].held => watcher'[poll[u].room] # "none"
    BY <1>4, <2>1 DEF Attends, Roomed
  <2> QED
    BY <1>3, <2>1, <2>2, StillAttends
<1>6. PICK p : /\ poll' = [poll EXCEPT ![t] = p]
               /\ Attends(outbox', p, watcher', announced')
  <2>1. CASE second /\ watcher' = [watcher EXCEPT ![r] = to] /\ poll' = [poll EXCEPT ![t].at = "second"]
    <3> DEFINE p == [poll[t] EXCEPT !.at = "second"]
    <3>1. poll[t] \in Polls /\ Attends(outbox, poll[t], watcher, announced)
      BY <1>1 DEF ProbeInv
    <3>2. p.at = "second" /\ p.room = r /\ p.held = poll[t].held /\ p.began = poll[t].began
      BY <3>1 DEF Polls
    <3>3. poll' = [poll EXCEPT ![t] = p]
      BY <2>1
    <3> HIDE DEF p
    <3>4. watcher'[r] = "offline"
      BY <1>1, <2>1
    <3>5. ASSUME NEW j \in announced', j > p.began PROVE ~Removal(outbox'[j], p.room)
      <4>1. CASE j \in announced
        BY <1>3, <3>1, <3>2, <3>5, <4>1 DEF Attends
      <4>2. CASE j \notin announced
        BY <1>3, <4>2
      <4> QED
        BY <4>1, <4>2
    <3>6. Attends(outbox', p, watcher', announced')
      BY <3>2, <3>4, <3>5 DEF Attends
    <3> QED
      BY <3>3, <3>6
  <2>2. CASE \E result \in SUBSET {"error"} : Onward(t, result)
    <3>1. PICK result \in SUBSET {"error"} : Onward(t, result)
      BY <2>2
    <3> DEFINE p == [at |-> "next", todo |-> poll[t].todo, room |-> 0, held |-> FALSE,
                     result |-> poll[t].result \cup result, began |-> 0]
    <3>2. poll' = [poll EXCEPT ![t] = p] /\ ~p.held /\ p.at # "second"
      BY <3>1 DEF Onward
    <3> HIDE DEF p
    <3>3. Attends(outbox', p, watcher', announced')
      BY <3>2, IdleAttends
    <3> QED
      BY <3>2, <3>3
  <2> QED
    BY <1>2, <2>1, <2>2
<1>7. \A u \in Threads : poll'[u] = IF u = t THEN p ELSE poll[u]
  BY <1>1, <1>6
<1>8. \A u \in Threads : Attends(outbox', poll'[u], watcher', announced')
  BY <1>5, <1>6, <1>7
<1>9. OneSecond(poll')
  BY <1>7 DEF OneSecond
<1> QED
  BY <1>8, <1>9 DEF ProbeInv

\* Who observes holds the watcher, and is the only one between two transitions.
LEMMA Observes ==
  ASSUME WatchInv, ProbeInv, ObserveSteps
  PROVE  \E t \in Threads :
           /\ poll[t].held /\ poll[t].room \in Rooms /\ poll[t].at \in {"probing", "second"}
           /\ \A u \in Threads \ {t} : poll[u].at # "second"
           /\ up /\ UNCHANGED up
           /\ \/ UNCHANGED <<tables, watcher, elapsed, notified>> /\ Onward(t, {})
              \/ \E to \in States, second \in BOOLEAN :
                   /\ second => to = "offline"
                   /\ Persist(t, poll[t].room, to, second)
                   /\ watcher[poll[t].room] = "grace" /\ poll[t].room \in elapsed => to = "offline"
<1>1. PICK t \in Threads : (\E o \in {"live", "offline"} : ProbeAnswers(t, o)) \/ ProbeOpens(t)
  BY DEF ObserveSteps
<1>2. Roomed(poll[t]) /\ Attends(outbox, poll[t], watcher, announced)
  BY DEF WatchInv, PollInv, ProbeInv
<1>3. ASSUME NEW o \in {"live", "offline"}, ProbeAnswers(t, o)
      PROVE  /\ poll[t].held /\ poll[t].room \in Rooms /\ poll[t].at \in {"probing", "second"}
             /\ \A u \in Threads \ {t} : poll[u].at # "second"
             /\ up /\ UNCHANGED up
             /\ \/ UNCHANGED <<tables, watcher, elapsed, notified>> /\ Onward(t, {})
                \/ \E to \in States, second \in BOOLEAN :
                     /\ second => to = "offline"
                     /\ Persist(t, poll[t].room, to, second)
                     /\ watcher[poll[t].room] = "grace" /\ poll[t].room \in elapsed => to = "offline"
  <2> DEFINE r == poll[t].room
             to == Boundary(r, o)
             second == to = "offline" /\ o = "live"
  <2>1. /\ poll[t].held /\ poll[t].at = "probing" /\ up /\ UNCHANGED up
        /\ \A u \in Threads : poll[u].at # "second"
        /\ IF to = "none" THEN Onward(t, {}) /\ UNCHANGED <<tables, watcher, elapsed, notified, left>>
                          ELSE Persist(t, r, to, second)
    BY <1>3 DEF ProbeAnswers, Unlocked, StillReferenced
  <2>2. r \in Rooms
    BY <1>2, <2>1 DEF Roomed
  <2>3. to \in States \cup {"none"}
    BY BoundaryIs
  <2>4. watcher[r] = "grace" /\ r \in elapsed => to = "offline"
    BY DEF Boundary
  <2>5. second \in BOOLEAN /\ (second => to = "offline")
    OBVIOUS
  <2> HIDE DEF to, second
  <2>6. CASE to = "none"
    BY <2>1, <2>2, <2>6
  <2>7. CASE to # "none"
    <3>1. to \in States /\ Persist(t, r, to, second)
      BY <2>1, <2>3, <2>7
    <3> QED
      BY <2>1, <2>2, <2>4, <2>5, <3>1
  <2> QED
    BY <2>6, <2>7
<1>4. ASSUME ProbeOpens(t)
      PROVE  /\ poll[t].held /\ poll[t].room \in Rooms /\ poll[t].at \in {"probing", "second"}
             /\ \A u \in Threads \ {t} : poll[u].at # "second"
             /\ up /\ UNCHANGED up
             /\ \E to \in States, second \in BOOLEAN :
                  /\ second => to = "offline"
                  /\ Persist(t, poll[t].room, to, second)
                  /\ watcher[poll[t].room] = "grace" /\ poll[t].room \in elapsed => to = "offline"
  <2>1. up /\ UNCHANGED up /\ poll[t].at = "second" /\ Persist(t, poll[t].room, "live", FALSE)
    BY <1>4 DEF ProbeOpens
  <2>2. poll[t].held /\ poll[t].room \in Rooms /\ watcher[poll[t].room] = "offline"
    BY <1>2, <2>1 DEF Attends, Roomed
  <2>3. \A u \in Threads \ {t} : poll[u].at # "second"
    BY <2>1 DEF ProbeInv, OneSecond
  <2>4. "live" \in States /\ FALSE \in BOOLEAN
    BY DEF States
  <2> QED
    BY <2>1, <2>2, <2>3, <2>4
<1> QED
  BY <1>1, <1>3, <1>4

LEMMA ObserveAttends ==
  ASSUME WatchInv, ProbeInv, ObserveSteps
  PROVE  ProbeInv'
<1>1. PICK t \in Threads :
        /\ poll[t].held /\ poll[t].room \in Rooms /\ poll[t].at \in {"probing", "second"}
        /\ \A u \in Threads \ {t} : poll[u].at # "second"
        /\ up /\ UNCHANGED up
        /\ \/ UNCHANGED <<tables, watcher, elapsed, notified>> /\ Onward(t, {})
           \/ \E to \in States, second \in BOOLEAN :
                /\ second => to = "offline"
                /\ Persist(t, poll[t].room, to, second)
                /\ watcher[poll[t].room] = "grace" /\ poll[t].room \in elapsed => to = "offline"
  BY Observes
<1>2. CASE UNCHANGED <<tables, watcher, elapsed, notified>> /\ Onward(t, {})
  <2> DEFINE p == [at |-> "next", todo |-> poll[t].todo, room |-> 0, held |-> FALSE,
                   result |-> poll[t].result \cup {}, began |-> 0]
  <2>1. poll' = [poll EXCEPT ![t] = p] /\ ~p.held /\ p.at # "second"
    BY <1>2 DEF Onward
  <2> HIDE DEF p
  <2>2. Attends(outbox, p, watcher, announced)
    BY <2>1, IdleAttends
  <2>3. UNCHANGED <<tables, watching, notified, up>>
    BY <1>1, <1>2 DEF watching
  <2> QED
    BY <1>1, <2>1, <2>2, <2>3, ThreadAttends DEF WatchInv
<1>3. ASSUME NEW to \in States, NEW second \in BOOLEAN, second => to = "offline", Persist(t, poll[t].room, to, second)
      PROVE  ProbeInv'
  <2>1. PICK r \in Rooms : r = poll[t].room
    BY <1>1
  <2>2. Persist(t, r, to, second)
    BY <1>3, <2>1
  <2> QED
    BY <1>1, <1>3, <2>1, <2>2, PersistAttends
<1> QED
  BY <1>1, <1>2, <1>3

\* What the transaction of SyncReferences adds: snapshots of the new references,
\* and transitions to offline.
LEMMA SyncDoes ==
  ASSUME RoomsTypeOK, NEW refs \in [Rooms -> SUBSET People], NEW terminal \in SUBSET Rooms,
         \A r \in terminal : Recordable(r, watcher[r], "offline"), SyncReferences(refs, terminal)
  PROVE  /\ \A r \in Rooms : row'[r] = row[r] \/ row'[r].state = "offline"
         /\ \A j \in 1..Sequence : outbox'[j] = outbox[j]
         /\ \A j \in Sequence + 1 .. Len(outbox') :
              /\ outbox'[j].room \in Rooms
              /\ outbox'[j].kind = "refs" => outbox'[j].accounts = refs[outbox'[j].room]
              /\ outbox'[j].kind = "state" => outbox'[j].to = "offline"
<1>1. PICK losing \in InOrder(Losing(refs)), others \in InOrder(Changed(refs) \ Losing(refs)),
           closing \in InOrder(terminal) :
           outbox' = outbox \o ReferenceEvents(refs, losing, others, closing)
  BY DEF SyncReferences
<1> DEFINE events == ReferenceEvents(refs, losing, others, closing)
<1>2. /\ row' = [r \in Rooms |-> IF r \in terminal THEN NewRow(r, watcher[r], "offline") ELSE row[r]]
      /\ broadcast' = [r \in Rooms |-> IF r \in terminal THEN [broadcast[r] EXCEPT !.open = FALSE] ELSE broadcast[r]]
  BY DEF SyncReferences
<1>3. \A r \in Rooms : /\ row'[r] = IF r \in terminal THEN NewRow(r, watcher[r], "offline") ELSE row[r]
                       /\ broadcast'[r] = IF r \in terminal THEN [broadcast[r] EXCEPT !.open = FALSE] ELSE broadcast[r]
  BY <1>2
<1> HIDE DEF events
<1>4. /\ events \in Seq(Events) /\ Sole(events) /\ RefsFirst(events)
      /\ References(events, references, refs)
      /\ Transitions(events, row, broadcast, row', broadcast')
  BY <1>3, SyncSays DEF events
<1>5. outbox' = outbox \o events /\ outbox \in Seq(Events) /\ Sequence = Len(outbox) /\ Sequence \in Nat
  BY <1>1, LenProperties DEF events, RoomsTypeOK, Sequence
<1>6. Len(outbox') = Sequence + Len(events) /\ Len(events) \in Nat
  BY <1>4, <1>5, ConcatProperties, LenProperties
<1>7. /\ \A j \in 1..Sequence : outbox'[j] = outbox[j]
      /\ \A j \in Sequence + 1 .. Len(outbox') : outbox'[j] = events[j - Sequence]
  <2>1. \A j \in 1 .. Len(outbox) + Len(events) :
          outbox'[j] = IF j <= Len(outbox) THEN outbox[j] ELSE events[j - Len(outbox)]
    BY <1>4, <1>5, ConcatProperties
  <2> QED
    BY <1>5, <1>6, <2>1
<1>8. \A r \in Rooms : row'[r] = row[r] \/ row'[r].state = "offline"
  <2>1. \A r \in Rooms : NewRow(r, watcher[r], "offline").state = "offline"
    BY EventOf
  <2> QED
    BY <1>3, <2>1
<1>9. ASSUME NEW j \in Sequence + 1 .. Len(outbox')
      PROVE  /\ outbox'[j].room \in Rooms
             /\ outbox'[j].kind = "refs" => outbox'[j].accounts = refs[outbox'[j].room]
             /\ outbox'[j].kind = "state" => outbox'[j].to = "offline"
  <2>1. PICK k \in 1..Len(events) : outbox'[j] = events[k]
    <3>1. j - Sequence \in 1..Len(events)
      BY <1>5, <1>6, <1>9
    <3> QED
      BY <1>7, <3>1
  <2>2. events[k].room \in Rooms
    BY <1>4, EventFields
  <2>3. PICK r \in Rooms : r = events[k].room
    BY <2>2
  <2>4. events[k].kind = "refs" => events[k].accounts = refs[r]
    BY <1>4, <2>3 DEF References
  <2>5. ASSUME events[k].kind = "state" PROVE events[k].to = "offline"
    <3>1. events[k].epoch = row[r].epoch + 1 /\ events[k].to = row'[r].state /\ events[k].epoch = row'[r].epoch
      BY <1>4, <2>3, <2>5 DEF Transitions
    <3>2. row[r].epoch \in Nat
      BY DEF RoomsTypeOK
    <3>3. row'[r] # row[r]
      BY <3>1, <3>2
    <3> QED
      BY <1>8, <3>1, <3>3
  <2> QED
    BY <2>1, <2>2, <2>3, <2>4, <2>5
<1> QED
  BY <1>7, <1>8, <1>9

\* SetReferences makes that transaction with the references it has read.
LEMMA RefreshDoes ==
  ASSUME WatchInv, \A r \in Terminal : Recordable(r, watcher[r], "offline"),
         SyncReferences(refresh.refs, Terminal)
  PROVE  /\ \A r \in Rooms : row'[r] = row[r] \/ row'[r].state = "offline"
         /\ \A j \in 1..Sequence : outbox'[j] = outbox[j]
         /\ \A j \in Sequence + 1 .. Len(outbox') :
              /\ outbox'[j].room \in Rooms
              /\ outbox'[j].kind = "refs" => outbox'[j].accounts = refresh.refs[outbox'[j].room]
              /\ outbox'[j].kind = "state" => outbox'[j].to = "offline"
<1>1. PICK refs \in [Rooms -> SUBSET People] : refs = refresh.refs
  BY DEF WatchInv, RefreshInv, Refreshes
<1>2. PICK terminal \in SUBSET Rooms : terminal = Terminal
  BY DEF Terminal, Removed, Watched
<1>3. RoomsTypeOK /\ SyncReferences(refs, terminal) /\ \A r \in terminal : Recordable(r, watcher[r], "offline")
  BY <1>1, <1>2, WatchTypes
<1>4. /\ \A r \in Rooms : row'[r] = row[r] \/ row'[r].state = "offline"
      /\ \A j \in 1..Sequence : outbox'[j] = outbox[j]
      /\ \A j \in Sequence + 1 .. Len(outbox') :
           /\ outbox'[j].room \in Rooms
           /\ outbox'[j].kind = "refs" => outbox'[j].accounts = refs[outbox'[j].room]
           /\ outbox'[j].kind = "state" => outbox'[j].to = "offline"
  BY <1>3, SyncDoes
<1> QED
  BY <1>1, <1>4

\* Around the probes: nobody is between two transitions, who goes on holding a watcher
\* held it before, and no removal of its room is announced.
LEMMA AllAttend ==
  ASSUME PollInv, NotifiedTypes, ProbeInv, Unlocked, UNCHANGED up, \A j \in announced : outbox'[j] = outbox[j],
         NEW gone, poll' = poll \/ poll' = Outdated(gone),
         \A t \in Threads : poll'[t].held =>
           /\ watcher'[poll[t].room] # "none"
           /\ \A j \in announced' \ announced : ~Removal(outbox'[j], poll[t].room)
  PROVE  ProbeInv'
<1>1. ASSUME NEW t \in Threads
      PROVE  /\ Attends(outbox', poll'[t], watcher', announced')
             /\ poll'[t].at # "second"
  <2>1. poll[t] \in Polls /\ Attends(outbox, poll[t], watcher, announced) /\ poll[t].at # "second"
    BY DEF PollInv, ProbeInv, Unlocked
  <2>2. PICK held \in BOOLEAN : (held => poll[t].held) /\ poll'[t] = [poll[t] EXCEPT !.held = held]
    <3>1. CASE poll' = poll
      <4>1. [poll[t] EXCEPT !.held = poll[t].held] = poll[t] /\ poll[t].held \in BOOLEAN
        BY <2>1 DEF Polls
      <4> QED
        BY <3>1, <4>1
    <3>2. CASE poll' = Outdated(gone)
      <4> DEFINE held == poll[t].held /\ poll[t].room \notin gone
      <4>1. poll'[t] = [poll[t] EXCEPT !.held = held]
        BY <3>2 DEF Outdated
      <4>2. held \in BOOLEAN /\ (held => poll[t].held)
        BY <2>1 DEF Polls
      <4> HIDE DEF held
      <4> QED
        BY <4>1, <4>2
    <3> QED
      BY <3>1, <3>2
  <2>3. /\ poll'[t].at = poll[t].at /\ poll'[t].room = poll[t].room /\ poll'[t].began = poll[t].began
        /\ poll'[t].held => poll[t].held
    BY <2>1, <2>2 DEF Polls
  <2>4. /\ poll'[t].held => watcher'[poll'[t].room] # "none"
        /\ \A j \in announced' \ announced : poll'[t].held => ~Removal(outbox'[j], poll'[t].room)
    BY <2>3
  <2>5. PICK q : q = poll'[t]
    OBVIOUS
  <2>6. Attends(outbox', q, watcher', announced')
    BY <2>1, <2>3, <2>4, <2>5, StillAttends
  <2> QED
    BY <2>1, <2>3, <2>5, <2>6
<1>2. OneSecond(poll')
  BY <1>1 DEF OneSecond
<1>3. up'
  BY DEF Unlocked
<1> QED
  BY <1>1, <1>2, <1>3 DEF ProbeInv

LEMMA RefreshAttends ==
  ASSUME WatchInv, ProbeInv, RefreshSteps
  PROVE  ProbeInv'
<1>1. PollInv /\ NotifiedTypes /\ watcher \in [Rooms -> States \cup {"none"}]
      /\ refresh.refs \in [Rooms -> SUBSET People]
  BY DEF WatchInv, WatchingTypes, RefreshInv, Refreshes
<1>2. \A t \in Threads : poll[t].held => poll[t].room \in Rooms /\ watcher[poll[t].room] # "none"
  BY <1>1 DEF PollInv, Roomed, ProbeInv, Attends
<1>3. CASE Load
  <2>1. poll' = poll /\ outbox' = outbox /\ watcher' = watcher /\ announced' = announced /\ up' = up
    BY <1>3 DEF Load, tables, watching, notified
  <2> QED
    BY <2>1 DEF ProbeInv
<1>4. CASE SetReferences
  <2>1. /\ Unlocked /\ \A r \in Terminal : Recordable(r, watcher[r], "offline")
        /\ SyncReferences(refresh.refs, Terminal) /\ Notify
        /\ watcher' = Rewatched /\ poll' = Outdated(Removed) /\ UNCHANGED up
    BY <1>4 DEF SetReferences
  <2>2. /\ \A j \in 1..Sequence : outbox'[j] = outbox[j]
        /\ \A j \in Sequence + 1 .. Len(outbox') :
             /\ outbox'[j].room \in Rooms
             /\ outbox'[j].kind = "refs" => outbox'[j].accounts = refresh.refs[outbox'[j].room]
    BY <2>1, RefreshDoes
  <2>3. \A j \in announced' \ announced : j \in Sequence + 1 .. Len(outbox')
    BY <2>1 DEF Notify, notified
  <2>4. \A j \in announced : outbox'[j] = outbox[j]
    BY <1>1, <2>2 DEF NotifiedTypes
  <2>5. ASSUME NEW t \in Threads, poll'[t].held
        PROVE  /\ watcher'[poll[t].room] # "none"
               /\ \A j \in announced' \ announced : ~Removal(outbox'[j], poll[t].room)
    <3>1. poll[t].held /\ poll[t].room \notin Removed
      <4> DEFINE held == poll[t].held /\ poll[t].room \notin Removed
      <4>1. poll'[t] = [poll[t] EXCEPT !.held = held] /\ poll[t] \in Polls
        BY <1>1, <2>1 DEF Outdated, PollInv
      <4> HIDE DEF held
      <4>2. poll'[t].held = held
        BY <4>1 DEF Polls
      <4> QED
        BY <2>5, <4>2 DEF held
    <3>2. PICK r \in Rooms : r = poll[t].room /\ watcher[r] # "none"
      BY <1>2, <3>1
    <3>3. r \in Watched /\ refresh.refs[r] # {}
      BY <3>1, <3>2 DEF Watched, Removed
    <3>4. watcher'[r] = watcher[r]
      BY <2>1, <3>1, <3>2, <3>3 DEF Rewatched, Added
    <3>5. \A j \in announced' \ announced : ~Removal(outbox'[j], r)
      BY <2>2, <2>3, <3>3 DEF Removal
    <3> QED
      BY <3>2, <3>4, <3>5
  <2> QED
    BY <1>1, <2>1, <2>4, <2>5, AllAttend
<1>5. CASE SetReferencesFails
  <2>1. /\ Unlocked /\ UNCHANGED <<watching, poll, notified, up>>
        /\ \/ UNCHANGED tables
           \/ /\ \A r \in Terminal : Recordable(r, watcher[r], "offline")
              /\ SyncReferences(refresh.refs, Terminal)
    BY <1>5 DEF SetReferencesFails
  <2>2. \A j \in 1..Sequence : outbox'[j] = outbox[j]
    BY <2>1, RefreshDoes DEF tables
  <2>3. \A j \in announced : outbox'[j] = outbox[j]
    BY <1>1, <2>2 DEF NotifiedTypes
  <2>4. watcher' = watcher /\ announced' = announced /\ poll' = poll
    BY <2>1 DEF watching, notified
  <2> QED
    BY <1>1, <1>2, <2>1, <2>3, <2>4, AllAttend
<1>6. CASE TakeBack
  <2>1. /\ Unlocked /\ poll' = Outdated(refresh.added) /\ UNCHANGED <<tables, notified, up>>
        /\ watcher' = [r \in Rooms |-> IF r \in refresh.added THEN "none" ELSE watcher[r]]
    BY <1>6 DEF TakeBack
  <2>2. announced' = announced /\ outbox' = outbox
    BY <2>1 DEF notified, tables
  <2>3. ASSUME NEW t \in Threads, poll'[t].held
        PROVE  watcher'[poll[t].room] # "none"
    <3> DEFINE held == poll[t].held /\ poll[t].room \notin refresh.added
    <3>1. poll'[t] = [poll[t] EXCEPT !.held = held] /\ poll[t] \in Polls
      BY <1>1, <2>1 DEF Outdated, PollInv
    <3> HIDE DEF held
    <3>2. poll'[t].held = held
      BY <3>1 DEF Polls
    <3>3. held
      BY <2>3, <3>2
    <3> QED
      BY <1>2, <2>1, <3>3 DEF held
  <2> QED
    BY <1>1, <2>1, <2>2, <2>3, AllAttend
<1> QED
  BY <1>3, <1>4, <1>5, <1>6 DEF RefreshSteps

LEMMA OtherAttends ==
  ASSUME WatchInv, ProbeInv, OtherSteps
  PROVE  ProbeInv'
<1>1. CASE Crash
  <2>1. /\ poll' = [t \in Threads |-> IdlePoll] /\ ~IdlePoll.held /\ IdlePoll.at # "second"
    BY <1>1 DEF Crash, IdlePoll
  <2>2. \A t \in Threads : ~poll'[t].held /\ poll'[t].at # "second"
    BY <2>1
  <2>3. \A t \in Threads : Attends(outbox', poll'[t], watcher', announced')
    BY <2>2 DEF Attends
  <2> QED
    BY <2>2, <2>3 DEF ProbeInv, OneSecond
<1>2. CASE StartRoomRuntime
  <2>1. ~up /\ poll' = poll /\ up'
    BY <1>2 DEF StartRoomRuntime
  <2>2. \A t \in Threads : ~poll'[t].held /\ poll'[t].at # "second"
    BY <2>1 DEF ProbeInv, Attends
  <2>3. \A t \in Threads : Attends(outbox', poll'[t], watcher', announced')
    BY <2>2 DEF Attends
  <2> QED
    BY <2>1, <2>2, <2>3 DEF ProbeInv, OneSecond
<1>3. CASE (\E p \in People, r \in Rooms \cup {NoRoom} : Rebind(p, r)) \/ (\E r \in Rooms : GraceElapses(r))
  <2>1. poll' = poll /\ outbox' = outbox /\ watcher' = watcher /\ announced' = announced /\ up' = up
    BY <1>3 DEF Rebind, GraceElapses, tables, watching, notified
  <2> QED
    BY <2>1 DEF ProbeInv
<1> QED
  BY <1>1, <1>2, <1>3 DEF OtherSteps

LEMMA ProbeKept ==
  ASSUME RoomInv, ProbeInv, [RoomNext]_vars
  PROVE  ProbeInv'
<1>1. WatchInv /\ ReplayInv
  BY DEF RoomInv
<1>2. CASE ConsumerSteps
  <2>1. announced' = announced /\ UNCHANGED <<tables, watching, poll, up>>
    BY <1>1, <1>2, ConsumerStep
  <2>2. outbox' = outbox /\ watcher' = watcher
    BY <2>1 DEF tables, watching
  <2> QED
    BY <2>1, <2>2 DEF ProbeInv
<1>3. CASE UNCHANGED vars
  <2>1. poll' = poll /\ outbox' = outbox /\ watcher' = watcher /\ announced' = announced /\ up' = up
    BY <1>3 DEF vars, tables, watching, notified
  <2> QED
    BY <2>1 DEF ProbeInv
<1> QED
  BY <1>1, <1>2, <1>3, Steps, PollAttends, ObserveAttends, RefreshAttends, OtherAttends

LEMMA ProbesInvariant == RoomSpec => [](RoomInv /\ ProbeInv)
<1>1. RoomInit => RoomInv /\ ProbeInv
  <2>1. SUFFICES ASSUME RoomInit PROVE ProbeInv
    BY RoomInvInit
  <2>2. poll = [t \in Threads |-> IdlePoll] /\ ~IdlePoll.held /\ IdlePoll.at # "second"
    BY <2>1 DEF RoomInit, IdlePoll
  <2>3. \A t \in Threads : ~poll[t].held /\ poll[t].at # "second"
    BY <2>2
  <2> QED
    BY <2>3, IdleAttends DEF ProbeInv, OneSecond
<1>2. RoomInv /\ ProbeInv /\ [RoomNext]_vars => (RoomInv /\ ProbeInv)'
  BY WatchKept, ReplayKept, ProbeKept DEF RoomInv
<1> QED
  BY <1>1, <1>2, PTL DEF RoomSpec

\* A broadcast whose grace period is over is ended by whatever is recorded of its room
\* next: the observation of a late live answer too, and the removal of the room.
THEOREM GraceAlwaysEnds == RoomSpec => ExpiredGraceEndsTheBroadcast
<1>1. ASSUME RoomInv, ProbeInv, [RoomNext]_vars, NEW r \in elapsed, row[r].state = "grace", row'[r] # row[r]
      PROVE  row'[r].state = "offline"
  <2>1. WatchInv /\ ReplayInv /\ r \in Rooms /\ row \in [Rooms -> [state : States, epoch : Nat, broadcast : Nat]]
    BY <1>1 DEF RoomInv, WatchInv, WatchingTypes, TableInv, TableTypes
  <2>2. CASE ObserveSteps
    <3>1. PICK t \in Threads :
            /\ poll[t].room \in Rooms
            /\ \/ UNCHANGED <<tables, watcher, elapsed, notified>> /\ Onward(t, {})
               \/ \E to \in States, second \in BOOLEAN :
                    /\ second => to = "offline"
                    /\ Persist(t, poll[t].room, to, second)
                    /\ watcher[poll[t].room] = "grace" /\ poll[t].room \in elapsed => to = "offline"
      BY <1>1, <2>1, <2>2, Observes
    <3>2. PICK s \in Rooms : s = poll[t].room
      BY <3>1
    <3>3. PICK to \in States, second \in BOOLEAN :
            Persist(t, s, to, second) /\ (watcher[s] = "grace" /\ s \in elapsed => to = "offline")
      BY <1>1, <3>1, <3>2 DEF tables
    <3>4. Recordable(s, watcher[s], to) /\ row' = [row EXCEPT ![s] = NewRow(s, watcher[s], to)]
      BY <1>1, <2>1, <3>3, PersistDoes DEF Persisted
    <3>5. s = r /\ row'[r] = NewRow(r, watcher[r], to)
      BY <1>1, <2>1, <3>4
    <3>6. watcher[r] = "grace"
      BY <1>1, <3>4, <3>5 DEF Recordable
    <3> QED
      BY <3>3, <3>5, <3>6, EventOf
  <2>3. CASE RefreshSteps
    <3>1. /\ \A x \in Terminal : Recordable(x, watcher[x], "offline")
          /\ SyncReferences(refresh.refs, Terminal)
      BY <1>1, <2>3 DEF RefreshSteps, Load, SetReferences, SetReferencesFails, TakeBack, tables
    <3>2. \A x \in Rooms : row'[x] = row[x] \/ row'[x].state = "offline"
      BY <2>1, <3>1, RefreshDoes
    <3> QED
      BY <1>1, <2>1, <3>2
  <2>4. CASE PollSteps
    BY <1>1, <2>1, <2>4, PollsOnly DEF tables
  <2>5. CASE ConsumerSteps
    BY <1>1, <2>1, <2>5, ConsumerStep DEF tables
  <2>6. CASE OtherSteps
    BY <1>1, <2>1, <2>6, OtherStep DEF tables
  <2>7. CASE UNCHANGED vars
    BY <1>1, <2>7 DEF vars, tables
  <2> QED
    BY <1>1, <2>2, <2>3, <2>4, <2>5, <2>6, <2>7, Steps
<1>2. RoomInv /\ ProbeInv /\ [RoomNext]_vars =>
        [\A r \in elapsed : row[r].state = "grace" /\ row'[r] # row[r] => row'[r].state = "offline"]_vars
  BY <1>1
<1> QED
  BY <1>2, ProbesInvariant, PTL DEF RoomSpec, ExpiredGraceEndsTheBroadcast

\* A room goes live or into grace only on an observation begun after the last removal
\* of the room that was announced, whatever was removed and added while it ran.
THEOREM ObservationsAlwaysOfThisReference == RoomSpec => ObservationsAreOfThisReference
<1>1. ASSUME RoomInv, ProbeInv, [RoomNext]_vars, NEW i \in Sequence + 1 .. Len(outbox'),
             outbox'[i].kind = "state", outbox'[i].to # "offline"
      PROVE  \E t \in Threads :
               /\ poll[t].at \in {"probing", "second"}
               /\ \A j \in announced : j > poll[t].began =>
                    ~(outbox[j].kind = "refs" /\ outbox[j].room = outbox'[i].room /\ outbox[j].accounts = {})
  <2>1. WatchInv /\ ReplayInv /\ Sequence = Len(outbox) /\ Sequence \in Nat
    BY <1>1, LenProperties DEF RoomInv, WatchInv, TableInv, TableTypes, Sequence
  <2>2. outbox' # outbox
    BY <1>1, <2>1
  <2>3. CASE ObserveSteps
    <3>1. PICK t \in Threads :
            /\ poll[t].held /\ poll[t].room \in Rooms /\ poll[t].at \in {"probing", "second"}
            /\ \/ UNCHANGED <<tables, watcher, elapsed, notified>> /\ Onward(t, {})
               \/ \E to \in States, second \in BOOLEAN :
                    /\ second => to = "offline"
                    /\ Persist(t, poll[t].room, to, second)
                    /\ watcher[poll[t].room] = "grace" /\ poll[t].room \in elapsed => to = "offline"
      BY <1>1, <2>1, <2>3, Observes
    <3>2. PICK s \in Rooms : s = poll[t].room
      BY <3>1
    <3>3. PICK to \in States, second \in BOOLEAN : Persist(t, s, to, second)
      BY <2>2, <3>1, <3>2 DEF tables
    <3>4. outbox'[i] = StateEvent(s, watcher[s], to)
      BY <1>1, <2>1, <3>3, PersistDoes DEF Persisted
    <3>5. outbox'[i].room = poll[t].room
      BY <3>2, <3>4, EventOf
    <3>6. Attends(outbox, poll[t], watcher, announced)
      BY <1>1 DEF ProbeInv
    <3> QED
      BY <3>1, <3>5, <3>6 DEF Attends, Removal
  <2>4. CASE RefreshSteps
    <3>1. /\ \A x \in Terminal : Recordable(x, watcher[x], "offline")
          /\ SyncReferences(refresh.refs, Terminal)
      BY <2>2, <2>4 DEF RefreshSteps, Load, SetReferences, SetReferencesFails, TakeBack, tables
    <3>2. \A j \in Sequence + 1 .. Len(outbox') : outbox'[j].kind = "state" => outbox'[j].to = "offline"
      BY <2>1, <3>1, RefreshDoes
    <3> QED
      BY <1>1, <3>2
  <2>5. CASE PollSteps
    BY <2>1, <2>2, <2>5, PollsOnly DEF tables
  <2>6. CASE ConsumerSteps
    BY <2>1, <2>2, <2>6, ConsumerStep DEF tables
  <2>7. CASE OtherSteps
    BY <2>1, <2>2, <2>7, OtherStep DEF tables
  <2>8. CASE UNCHANGED vars
    BY <2>2, <2>8 DEF vars, tables
  <2> QED
    BY <1>1, <2>3, <2>4, <2>5, <2>6, <2>7, <2>8, Steps
<1>2. RoomInv /\ ProbeInv /\ [RoomNext]_vars =>
        [\A i \in Sequence + 1 .. Len(outbox') :
           outbox'[i].kind = "state" /\ outbox'[i].to # "offline" =>
             \E t \in Threads :
               /\ poll[t].at \in {"probing", "second"}
               /\ \A j \in announced : j > poll[t].began =>
                    ~(outbox[j].kind = "refs" /\ outbox[j].room = outbox'[i].room /\ outbox[j].accounts = {})]_vars
  BY <1>1
<1> QED
  BY <1>2, ProbesInvariant, PTL DEF RoomSpec, ObservationsAreOfThisReference

-----------------------------------------------------------------------------
(***************************************************************************)
(* The projection.  Between two events every room is settled; the room of  *)
(* the event under way is somewhere between what it was and what it will   *)
(* be.  An account that a room has lost to another one, before the outbox  *)
(* says so, is Pending: the snapshot that says so comes before anything    *)
(* that would start it again in the one, or stop it in the other.          *)
(***************************************************************************)
MidEvent == consumer.at = "applying" /\ cursor < consumer.upto

Matches(log, proj, n) ==
  \A r \in Rooms :
    /\ proj[r].state = StateSaid(log, r, n)
    /\ proj[r].epoch # 0 => proj[r].epoch = EpochSaid(log, r, n)
    /\ proj[r].accounts \subseteq AccountsSaid(log, r, n)

\* Room s runs the account, or the event under way is about to start it there.
Houses(proj, s, a, mid, event) ==
  \/ a \in proj[s].active
  \/ mid /\ s = event.room /\ proj[s].state = "live"

Accounted(log, proj, n, mid) ==
  \A r \in Rooms : \A a \in AccountsSaid(log, r, n) \ proj[r].accounts :
    \E s \in Rooms \ {r} : Houses(proj, s, a, mid, log[n + 1]) /\ Pending(log, r, a, s, n)

OneHome(proj) == \A r, s \in Rooms : r # s => proj[r].active \cap proj[s].active = {}

\* What a room is when no event is under way for it, and what the event under way
\* leaves true until it is passed.
Settled(p) ==
  /\ p.state = "live" => p.active = p.accounts
  /\ p.state = "offline" => p.active = {}
  /\ p.active \subseteq p.accounts

Midway(p, event) ==
  /\ event.kind = "refs" => (p.state = "offline" => p.active = {})
  /\ event.kind = "state" /\ event.to # "offline" => p.active \subseteq p.accounts

Runs(proj, mid, event) ==
  \A r \in Rooms : IF mid /\ r = event.room THEN Midway(proj[r], event) ELSE Settled(proj[r])

ProjectionInv ==
  up => /\ Matches(outbox, projection, cursor) /\ Accounted(outbox, projection, cursor, MidEvent)
        /\ OneHome(projection) /\ Runs(projection, MidEvent, outbox[cursor + 1])

LEMMA SettledIsMidway ==
  ASSUME NEW p, Settled(p), NEW event
  PROVE  Midway(p, event)
BY DEF Settled, Midway

\* What the next event of a log changes.
LEMMA NextSaid ==
  ASSUME NEW log \in Seq(Events), Ranked(log), NEW n \in Nat, n + 1 \in 1..Len(log), NEW r \in Rooms
  PROVE  LET e == log[n + 1] IN
         /\ ~(e.kind = "state" /\ e.room = r) =>
              /\ StateSaid(log, r, n + 1) = StateSaid(log, r, n)
              /\ EpochSaid(log, r, n + 1) = EpochSaid(log, r, n)
         /\ e.kind = "state" /\ e.room = r => StateSaid(log, r, n + 1) = e.to
         /\ ~(e.kind = "refs" /\ e.room = r) => AccountsSaid(log, r, n + 1) = AccountsSaid(log, r, n)
         /\ e.kind = "refs" /\ e.room = r => AccountsSaid(log, r, n + 1) = e.accounts
<1> DEFINE e == log[n + 1]
<1>1. \A i \in 1..n + 1 : i \in 1..n \/ i = n + 1
  OBVIOUS
<1>2. \A i \in 1..n : i \in 1..n + 1 /\ i <= n + 1
  OBVIOUS
<1>3. n + 1 \in 1..n + 1 /\ n \in 0..n + 1 /\ n <= Len(log) /\ Len(log) \in Nat
  OBVIOUS
<1>4. ASSUME NEW kind \in Kinds, ~(e.kind = kind /\ e.room = r)
      PROVE  Spoken(log, r, kind, n + 1) = Spoken(log, r, kind, n)
  BY <1>1, <1>2, <1>4 DEF Spoken
<1>5. ASSUME NEW kind \in Kinds, e.kind = kind, e.room = r
      PROVE  Latest(Spoken(log, r, kind, n + 1)) = n + 1 /\ Spoken(log, r, kind, n + 1) # {}
  <2>1. Spoken(log, r, kind, n + 1) \in SUBSET Nat
    BY SpokenFinite
  <2>2. n + 1 \in Spoken(log, r, kind, n + 1) /\ \A j \in Spoken(log, r, kind, n + 1) : j <= n + 1
    BY <1>3, <1>5 DEF Spoken
  <2> QED
    BY <2>1, <2>2, LatestIs
<1>6. \A i \in 1..n : log[i] = log[i]
  OBVIOUS
<1> HIDE DEF e
<1>7. ~(e.kind = "state" /\ e.room = r) =>
              /\ StateSaid(log, r, n + 1) = StateSaid(log, r, n)
              /\ EpochSaid(log, r, n + 1) = EpochSaid(log, r, n)
  <2>1. ~(e.kind = "state" /\ e.room = r) => Alike(log, n + 1, log, n, r, "state")
    BY <1>3, <1>4, <1>6 DEF Kinds, Alike
  <2> QED
    BY <2>1, SameSaid
<1>8. ~(e.kind = "refs" /\ e.room = r) => AccountsSaid(log, r, n + 1) = AccountsSaid(log, r, n)
  <2>1. ~(e.kind = "refs" /\ e.room = r) => Alike(log, n + 1, log, n, r, "refs")
    BY <1>3, <1>4, <1>6 DEF Kinds, Alike
  <2> QED
    BY <2>1, SameSaid
<1>9. e.kind = "state" /\ e.room = r => StateSaid(log, r, n + 1) = log[n + 1].to
  BY <1>5 DEF StateSaid, Kinds
<1>10. e.kind = "refs" /\ e.room = r => AccountsSaid(log, r, n + 1) = log[n + 1].accounts
  BY <1>5 DEF AccountsSaid, Kinds
<1> QED
  BY <1>7, <1>8, <1>9, <1>10 DEF e

\* What is pending says what the next event can be.
LEMMA PendingNext ==
  ASSUME NEW log, Len(log) \in Nat, NEW n \in Nat
  PROVE  \A r, a, s : Pending(log, r, a, s, n) =>
           /\ log[n + 1].kind = "refs"
           /\ log[n + 1].room = r => a \notin log[n + 1].accounts
           /\ log[n + 1].room = s => a \in log[n + 1].accounts
           /\ log[n + 1].room # r => Pending(log, r, a, s, n + 1)
<1> SUFFICES ASSUME NEW r, NEW a, NEW s, Pending(log, r, a, s, n)
             PROVE  /\ log[n + 1].kind = "refs"
                    /\ log[n + 1].room = r => a \notin log[n + 1].accounts
                    /\ log[n + 1].room = s => a \in log[n + 1].accounts
                    /\ log[n + 1].room # r => Pending(log, r, a, s, n + 1)
  OBVIOUS
<1>1. PICK m \in n + 1..Len(log) :
        /\ log[m].kind = "refs" /\ log[m].room = r /\ a \notin log[m].accounts
        /\ \A j \in n + 1..m : /\ log[j].kind = "refs"
                               /\ j < m => log[j].room # r
                               /\ log[j].room = s => a \in log[j].accounts
  BY DEF Pending
<1>2. n + 1 \in n + 1..m /\ (n + 1 = m \/ n + 1 < m)
  BY <1>1
<1>3. log[n + 1].room # r => m \in (n + 1) + 1..Len(log)
  BY <1>1, <1>2
<1>4. \A j \in (n + 1) + 1..m : j \in n + 1..m
  OBVIOUS
<1>5. log[n + 1].room # r => Pending(log, r, a, s, n + 1)
  BY <1>1, <1>3, <1>4 DEF Pending
<1> QED
  BY <1>1, <1>2, <1>5

\* The watcher's steps leave the projection as it is.
LEMMA ProjectionWaits ==
  ASSUME RoomInv, ProjectionInv, Grows, UNCHANGED <<consuming, up>>
  PROVE  ProjectionInv'
<1>1. SUFFICES ASSUME up PROVE ProjectionInv'
  BY DEF ProjectionInv
<1>2. PICK events \in Seq(Events) : outbox' = outbox \o events
  BY DEF Grows
<1>3. /\ outbox \in Seq(Events) /\ Ranked(outbox) /\ cursor \in Nat /\ Len(outbox) \in Nat
      /\ cursor <= Len(outbox) /\ consumer \in Consumers /\ consumer.upto <= Len(outbox) /\ consumer.upto \in Nat
  BY LenProperties DEF RoomInv, WatchInv, TableInv, TableTypes, LogInv, ConsumingTypes, ReplayInv, Sequence, Consumers
<1>4. cursor \in 0..Len(outbox) /\ (MidEvent => cursor + 1 \in 1..Len(outbox))
  BY <1>3 DEF MidEvent
<1>5. /\ \A r \in Rooms : /\ StateSaid(outbox', r, cursor) = StateSaid(outbox, r, cursor)
                          /\ EpochSaid(outbox', r, cursor) = EpochSaid(outbox, r, cursor)
                          /\ AccountsSaid(outbox', r, cursor) = AccountsSaid(outbox, r, cursor)
      /\ MidEvent => outbox'[cursor + 1] = outbox[cursor + 1]
  BY <1>2, <1>3, <1>4, Before
<1>6. \A r, a, s : Pending(outbox, r, a, s, cursor) => Pending(outbox', r, a, s, cursor)
  BY <1>2, <1>3, StillPending
<1>7. Matches(outbox, projection, cursor) /\ Accounted(outbox, projection, cursor, MidEvent)
      /\ OneHome(projection) /\ Runs(projection, MidEvent, outbox[cursor + 1])
  BY <1>1 DEF ProjectionInv
<1>8. projection' = projection /\ cursor' = cursor /\ MidEvent' = MidEvent
  BY DEF consuming, MidEvent
<1>9. Matches(outbox', projection, cursor)
  BY <1>5, <1>7 DEF Matches
<1>10. Accounted(outbox', projection, cursor, MidEvent)
  BY <1>5, <1>6, <1>7 DEF Accounted, Houses
<1>11. Runs(projection, MidEvent, outbox'[cursor + 1])
  <2>1. CASE MidEvent
    BY <1>5, <1>7, <2>1
  <2>2. CASE ~MidEvent
    BY <1>7, <2>2 DEF Runs
  <2> QED
    BY <2>1, <2>2
<1> QED
  BY <1>7, <1>8, <1>9, <1>10, <1>11 DEF ProjectionInv

LEMMA StopKeeps ==
  ASSUME RoomInv, ProjectionInv, NEW a \in People, StopAccount(a)
  PROVE  ProjectionInv'
<1> DEFINE e == outbox[cursor + 1]
           q == [projection EXCEPT ![e.room].active = @ \ {a}]
<1>1. Applying /\ a \in ToStop /\ projection' = q /\ up /\ UNCHANGED <<tables, consumer, cursor, up>>
  BY DEF StopAccount, Applying, Event
<1>2. /\ cursor + 1 \in 1..Len(outbox) /\ cursor \in Nat /\ e.kind \in Kinds /\ e.room \in Rooms
      /\ e.kind = "state" => e.to \in States
      /\ projection \in [Rooms -> Projections]
  BY <1>1, ApplyingIs DEF RoomInv, WatchInv, ReplayInv, ConsumingTypes, Event
<1>3. Matches(outbox, projection, cursor) /\ Accounted(outbox, projection, cursor, MidEvent)
      /\ OneHome(projection) /\ Runs(projection, MidEvent, e)
  BY <1>1 DEF ProjectionInv
<1>4. MidEvent /\ MidEvent' /\ outbox' = outbox
  BY <1>1 DEF MidEvent, Applying, tables
<1>5. /\ e.kind = "refs" => a \notin e.accounts
      /\ e.kind = "state" => e.to = "offline"
  BY <1>1, <1>2 DEF ToStop, Event, Kinds, States
<1> HIDE DEF e
<1>6. \A r \in Rooms : /\ q[r].state = projection[r].state /\ q[r].epoch = projection[r].epoch
                       /\ q[r].accounts = projection[r].accounts
                       /\ q[r].active \subseteq projection[r].active
                       /\ r # e.room => q[r].active = projection[r].active
                       /\ \A b : b \in projection[r].active /\ b # a => b \in q[r].active
  <2>1. ASSUME NEW r \in Rooms
        PROVE  /\ q[r].state = projection[r].state /\ q[r].epoch = projection[r].epoch
               /\ q[r].accounts = projection[r].accounts
               /\ q[r].active = IF r = e.room THEN projection[r].active \ {a} ELSE projection[r].active
    <3>1. projection[r] \in Projections
      BY <1>2
    <3>2. q[r] = IF r = e.room THEN [projection[r] EXCEPT !.active = projection[r].active \ {a}] ELSE projection[r]
      BY <1>2, <2>1 DEF Projections
    <3> QED
      BY <3>1, <3>2 DEF Projections
  <2> HIDE DEF q
  <2> QED
    BY <2>1
<1> HIDE DEF q
<1>7. Matches(outbox, q, cursor)
  BY <1>3, <1>6 DEF Matches
<1>8. Accounted(outbox, q, cursor, MidEvent)
  <2>1. SUFFICES ASSUME NEW r \in Rooms, NEW b \in AccountsSaid(outbox, r, cursor), b \notin q[r].accounts
                 PROVE  \E s \in Rooms \ {r} : Houses(q, s, b, MidEvent, e) /\ Pending(outbox, r, b, s, cursor)
    BY DEF Accounted, e
  <2>2. PICK s \in Rooms \ {r} : Houses(projection, s, b, MidEvent, e) /\ Pending(outbox, r, b, s, cursor)
    BY <1>3, <1>6, <2>1 DEF Accounted, e
  <2>3. e.kind = "refs" /\ (e.room = s => b \in e.accounts)
    BY <1>2, <2>2, PendingNext, LenProperties DEF e, RoomInv, WatchInv, TableInv, TableTypes
  <2>4. ~(b = a /\ s = e.room)
    BY <1>5, <2>3
  <2>5. Houses(q, s, b, MidEvent, e)
    BY <1>6, <2>2, <2>4 DEF Houses
  <2> QED
    BY <2>2, <2>5
<1>9. OneHome(q)
  BY <1>3, <1>6 DEF OneHome
<1>10. Runs(q, MidEvent, e)
  <2>1. SUFFICES ASSUME NEW r \in Rooms
                 PROVE  IF MidEvent /\ r = e.room THEN Midway(q[r], e) ELSE Settled(q[r])
    BY DEF Runs
  <2>2. CASE r = e.room
    <3>1. Midway(projection[r], e)
      BY <1>3, <1>4, <2>2 DEF Runs
    <3>2. Midway(q[r], e)
      BY <1>5, <1>6, <3>1 DEF Midway
    <3> QED
      BY <1>4, <2>2, <3>2
  <2>3. CASE r # e.room
    <3>1. Settled(projection[r])
      BY <1>3, <2>3 DEF Runs
    <3>2. Settled(q[r])
      BY <1>6, <2>3, <3>1 DEF Settled
    <3> QED
      BY <2>3, <3>2
  <2> QED
    BY <2>2, <2>3
<1> QED
  BY <1>1, <1>4, <1>7, <1>8, <1>9, <1>10 DEF ProjectionInv, e

\* The room that the account leaves says so only later; it is the event under way that
\* starts the account in its own room.
LEMMA LeaveKeeps ==
  ASSUME RoomInv, ProjectionInv, NEW a \in People, NEW home \in Rooms, LeaveRoom(a, home)
  PROVE  ProjectionInv'
<1> DEFINE e == outbox[cursor + 1]
           q == [projection EXCEPT ![home].active = @ \ {a}, ![home].accounts = @ \ {a}]
<1>1. Applying /\ a \in ToStart /\ projection' = q /\ up /\ UNCHANGED <<tables, consumer, cursor, up>>
  BY DEF LeaveRoom, Starting, Applying
<1>2. /\ cursor + 1 \in 1..Len(outbox) /\ cursor \in Nat /\ e.kind \in Kinds /\ e.room \in Rooms
      /\ e.kind = "state" => e.to \in States
      /\ projection \in [Rooms -> Projections]
  BY <1>1, ApplyingIs DEF RoomInv, WatchInv, ReplayInv, ConsumingTypes, Event
<1>3. Matches(outbox, projection, cursor) /\ Accounted(outbox, projection, cursor, MidEvent)
      /\ OneHome(projection) /\ Runs(projection, MidEvent, e)
  BY <1>1 DEF ProjectionInv
<1>4. MidEvent /\ MidEvent' /\ outbox' = outbox
  BY <1>1 DEF MidEvent, Applying, tables
<1>5. /\ e.kind = "refs" => a \in e.accounts /\ projection[e.room].state = "live"
      /\ e.kind = "state" => e.to = "live" /\ a \in projection[e.room].accounts
  BY <1>1, <1>2 DEF ToStart, Event, Kinds, States
<1>6. home # e.room /\ a \in projection[home].active
  BY DEF LeaveRoom, Elsewhere, Event
<1>o. Orderly(outbox) /\ Len(outbox) \in Nat /\ cursor \in 0..Len(outbox) - 1
  BY <1>2, LenProperties DEF RoomInv, WatchInv, TableInv, TableTypes, LogInv
<1>7. /\ e.kind = "refs" =>
           \A r \in Rooms \ {e.room} : \A b \in AccountsSaid(outbox, r, cursor) \cap e.accounts :
             Pending(outbox, r, b, e.room, cursor)
      /\ e.kind = "state" =>
           \A r, s \in Rooms : r # s => AccountsSaid(outbox, r, cursor) \cap AccountsSaid(outbox, s, cursor) = {}
  BY <1>o DEF Orderly
<1>8. \A r, b, s : Pending(outbox, r, b, s, cursor) =>
        /\ e.kind = "refs" /\ (e.room = r => b \notin e.accounts)
  BY <1>2, <1>o, PendingNext
<1> HIDE DEF e
<1>9. ASSUME NEW r \in Rooms
      PROVE  /\ q[r].state = projection[r].state /\ q[r].epoch = projection[r].epoch
             /\ q[r].active = IF r = home THEN projection[r].active \ {a} ELSE projection[r].active
             /\ q[r].accounts = IF r = home THEN projection[r].accounts \ {a} ELSE projection[r].accounts
  <2>1. projection[r] \in Projections
    BY <1>2
  <2>2. q[r] = IF r = home THEN [projection[r] EXCEPT !.active = projection[r].active \ {a},
                                                      !.accounts = projection[r].accounts \ {a}]
               ELSE projection[r]
    BY <1>2 DEF Projections
  <2> HIDE DEF q
  <2> QED
    BY <2>1, <2>2 DEF Projections
<1> HIDE DEF q
<1>10. Matches(outbox, q, cursor)
  BY <1>3, <1>9 DEF Matches
<1>11. Accounted(outbox, q, cursor, MidEvent)
  <2>1. SUFFICES ASSUME NEW r \in Rooms, NEW b \in AccountsSaid(outbox, r, cursor), b \notin q[r].accounts
                 PROVE  \E s \in Rooms \ {r} : Houses(q, s, b, MidEvent, e) /\ Pending(outbox, r, b, s, cursor)
    BY DEF Accounted, e
  <2>2. CASE b # a
    <3>1. b \notin projection[r].accounts
      BY <1>9, <2>1, <2>2
    <3>2. PICK s \in Rooms \ {r} : Houses(projection, s, b, MidEvent, e) /\ Pending(outbox, r, b, s, cursor)
      BY <1>3, <2>1, <3>1 DEF Accounted, e
    <3>3. Houses(q, s, b, MidEvent, e)
      BY <1>9, <2>2, <3>2 DEF Houses
    <3> QED
      BY <3>2, <3>3
  <2>3. CASE b = a /\ r = e.room
    <3>1. PICK s \in Rooms \ {r} : Pending(outbox, r, b, s, cursor)
      BY <1>3, <1>6, <1>9, <2>1, <2>3 DEF Accounted
    <3> QED
      BY <1>5, <1>8, <2>3, <3>1
  <2>4. CASE b = a /\ r # e.room
    <3>1. CASE e.kind = "refs"
      <4>1. Pending(outbox, r, a, e.room, cursor)
        BY <1>5, <1>7, <2>1, <2>4, <3>1
      <4>2. Houses(q, e.room, a, MidEvent, e)
        BY <1>2, <1>4, <1>5, <1>9, <3>1 DEF Houses
      <4> QED
        BY <1>2, <2>4, <4>1, <4>2
    <3>2. CASE e.kind = "state"
      <4>1. a \in AccountsSaid(outbox, e.room, cursor)
        BY <1>2, <1>3, <1>5, <3>2 DEF Matches
      <4> QED
        BY <1>2, <1>7, <2>1, <2>4, <3>2, <4>1
    <3> QED
      BY <1>2, <3>1, <3>2 DEF Kinds
  <2> QED
    BY <2>2, <2>3, <2>4
<1>12. OneHome(q)
  <2>1. \A r \in Rooms : q[r].active \subseteq projection[r].active
    BY <1>9
  <2> QED
    BY <1>3, <2>1 DEF OneHome
<1>13. Runs(q, MidEvent, e)
  <2>1. SUFFICES ASSUME NEW r \in Rooms
                 PROVE  IF MidEvent /\ r = e.room THEN Midway(q[r], e) ELSE Settled(q[r])
    BY DEF Runs
  <2>2. CASE r = e.room
    <3>1. Midway(projection[r], e)
      BY <1>3, <1>4, <2>2 DEF Runs
    <3>2. Midway(q[r], e)
      BY <1>6, <1>9, <2>2, <3>1 DEF Midway
    <3> QED
      BY <1>4, <2>2, <3>2
  <2>3. CASE r # e.room
    <3>1. Settled(projection[r])
      BY <1>3, <2>3 DEF Runs
    <3>2. Settled(q[r])
      BY <1>9, <3>1 DEF Settled
    <3> QED
      BY <2>3, <3>2
  <2> QED
    BY <2>2, <2>3
<1> QED
  BY <1>1, <1>4, <1>10, <1>11, <1>12, <1>13 DEF ProjectionInv, e

LEMMA StartKeeps ==
  ASSUME RoomInv, ProjectionInv, NEW a \in People, StartAccount(a)
  PROVE  ProjectionInv'
<1> DEFINE e == outbox[cursor + 1]
           q == [projection EXCEPT ![e.room].active = @ \cup {a}]
<1>1. Applying /\ a \in ToStart /\ Elsewhere(a) = {} /\ projection' = q /\ up /\ UNCHANGED <<tables, consumer, cursor, up>>
  BY DEF StartAccount, Starting, Applying, Event
<1>2. /\ cursor + 1 \in 1..Len(outbox) /\ cursor \in Nat /\ e.kind \in Kinds /\ e.room \in Rooms
      /\ e.kind = "state" => e.to \in States
      /\ projection \in [Rooms -> Projections]
  BY <1>1, ApplyingIs DEF RoomInv, WatchInv, ReplayInv, ConsumingTypes, Event
<1>3. Matches(outbox, projection, cursor) /\ Accounted(outbox, projection, cursor, MidEvent)
      /\ OneHome(projection) /\ Runs(projection, MidEvent, e)
  BY <1>1 DEF ProjectionInv
<1>4. MidEvent /\ MidEvent' /\ outbox' = outbox
  BY <1>1 DEF MidEvent, Applying, tables
<1>5. /\ e.kind = "refs" => a \in e.accounts /\ projection[e.room].state = "live"
      /\ e.kind = "state" => e.to = "live" /\ a \in projection[e.room].accounts
  BY <1>1, <1>2 DEF ToStart, Event, Kinds, States
<1>6. \A r \in Rooms : r # e.room => a \notin projection[r].active
  BY <1>1 DEF Elsewhere, Event
<1> HIDE DEF e
<1>7. ASSUME NEW r \in Rooms
      PROVE  /\ q[r].state = projection[r].state /\ q[r].epoch = projection[r].epoch
             /\ q[r].accounts = projection[r].accounts
             /\ q[r].active = IF r = e.room THEN projection[r].active \cup {a} ELSE projection[r].active
  <2>1. projection[r] \in Projections
    BY <1>2
  <2>2. q[r] = IF r = e.room THEN [projection[r] EXCEPT !.active = projection[r].active \cup {a}] ELSE projection[r]
    BY <1>2 DEF Projections
  <2> HIDE DEF q
  <2> QED
    BY <2>1, <2>2 DEF Projections
<1> HIDE DEF q
<1>8. Matches(outbox, q, cursor)
  BY <1>3, <1>7 DEF Matches
<1>9. Accounted(outbox, q, cursor, MidEvent)
  <2>1. \A s \in Rooms : \A b : Houses(projection, s, b, MidEvent, e) => Houses(q, s, b, MidEvent, e)
    BY <1>7 DEF Houses
  <2> QED
    BY <1>3, <1>7, <2>1 DEF Accounted, e
<1>10. OneHome(q)
  <2>1. SUFFICES ASSUME NEW r \in Rooms, NEW s \in Rooms, r # s PROVE q[r].active \cap q[s].active = {}
    BY DEF OneHome
  <2>2. projection[r].active \cap projection[s].active = {}
    BY <1>3, <2>1 DEF OneHome
  <2>3. \A u \in Rooms : u = e.room => q[u].active = projection[u].active \cup {a}
    BY <1>7
  <2>4. \A u \in Rooms : u # e.room => q[u].active = projection[u].active /\ a \notin projection[u].active
    BY <1>6, <1>7
  <2>5. CASE r = e.room
    BY <2>1, <2>2, <2>3, <2>4, <2>5
  <2>6. CASE s = e.room
    BY <2>1, <2>2, <2>3, <2>4, <2>6
  <2>7. CASE r # e.room /\ s # e.room
    BY <2>2, <2>4, <2>7
  <2> QED
    BY <2>5, <2>6, <2>7
<1>11. Runs(q, MidEvent, e)
  <2>1. SUFFICES ASSUME NEW r \in Rooms
                 PROVE  IF MidEvent /\ r = e.room THEN Midway(q[r], e) ELSE Settled(q[r])
    BY DEF Runs
  <2>2. CASE r = e.room
    <3>1. Midway(projection[r], e)
      BY <1>3, <1>4, <2>2 DEF Runs
    <3>2. /\ q[r].state = projection[r].state /\ q[r].accounts = projection[r].accounts
          /\ q[r].active = projection[r].active \cup {a}
      BY <1>7, <2>2
    <3>3. /\ e.kind = "refs" => q[r].state # "offline"
          /\ e.kind = "state" => a \in projection[r].accounts
      BY <1>5, <2>2, <3>2
    <3>4. Midway(q[r], e)
      BY <3>1, <3>2, <3>3 DEF Midway
    <3> QED
      BY <1>4, <2>2, <3>4
  <2>3. CASE r # e.room
    <3>1. Settled(projection[r])
      BY <1>3, <2>3 DEF Runs
    <3>2. Settled(q[r])
      BY <1>7, <2>3, <3>1 DEF Settled
    <3> QED
      BY <2>3, <3>2
  <2> QED
    BY <2>2, <2>3
<1> QED
  BY <1>1, <1>4, <1>8, <1>9, <1>10, <1>11 DEF ProjectionInv, e

LEMMA ApplyKeeps ==
  ASSUME RoomInv, ProjectionInv, ApplyRoomEvent
  PROVE  ProjectionInv'
<1> DEFINE e == outbox[cursor + 1]
           p == projection[e.room]
           q == [projection EXCEPT ![e.room] = Projected]
<1>1. /\ Applying /\ ToStop = {} /\ ToStart = {} /\ projection' = q /\ cursor' = cursor + 1
      /\ UNCHANGED tables /\ up /\ up' = up
  BY DEF ApplyRoomEvent, Applying, PassesEvent, Event
<1>2. /\ cursor + 1 \in 1..Len(outbox) /\ cursor \in Nat /\ e.kind \in Kinds /\ e.room \in Rooms
      /\ e.kind = "state" => e.to \in States
      /\ projection \in [Rooms -> Projections] /\ p \in Projections
  BY <1>1, ApplyingIs DEF RoomInv, WatchInv, ReplayInv, ConsumingTypes, Event
<1>3. Matches(outbox, projection, cursor) /\ Accounted(outbox, projection, cursor, MidEvent)
      /\ OneHome(projection) /\ Runs(projection, MidEvent, e)
  BY <1>1 DEF ProjectionInv
<1>4. MidEvent /\ outbox' = outbox
  BY <1>1 DEF MidEvent, Applying, tables
<1>5. /\ outbox \in Seq(Events) /\ Ranked(outbox) /\ Faithful(outbox) /\ Len(outbox) \in Nat
  BY LenProperties DEF RoomInv, WatchInv, TableInv, TableTypes, LogInv
<1>6. /\ e.kind = "refs" => p.active \subseteq e.accounts
      /\ e.kind = "refs" /\ p.state = "live" => e.accounts \subseteq p.active
      /\ e.kind = "state" /\ e.to = "offline" => p.active = {}
      /\ e.kind = "state" /\ e.to = "live" => p.accounts \subseteq p.active
  BY <1>1, <1>2 DEF ToStop, ToStart, Event
<1>7. /\ e.kind = "refs" => /\ Projected.accounts = e.accounts /\ Projected.state = p.state
                            /\ Projected.epoch = p.epoch /\ Projected.active = p.active
      /\ e.kind = "state" => /\ Projected.accounts = p.accounts /\ Projected.state = e.to
                             /\ Projected.epoch = e.epoch /\ Projected.active = p.active
  <2>1. e.kind = "refs" => Projected = [p EXCEPT !.accounts = e.accounts]
    BY DEF Projected, Event
  <2>2. e.kind = "state" => Projected = [p EXCEPT !.state = e.to, !.epoch = e.epoch,
                                         !.broadcast = IF e.to = "offline" THEN 0 ELSE p.broadcast]
    BY DEF Projected, Event
  <2> HIDE DEF p, e
  <2> QED
    BY <1>2, <2>1, <2>2 DEF Projections
<1>8. \A r \in Rooms : /\ r = e.room => q[r] = Projected
                       /\ r # e.room => q[r] = projection[r]
  BY <1>2
<1>9. e.kind = "state" => e.epoch = EpochSaid(outbox, e.room, cursor + 1)
  BY <1>2, <1>5 DEF Faithful
<1>10. \A r \in Rooms :
         /\ ~(e.kind = "state" /\ e.room = r) =>
              /\ StateSaid(outbox, r, cursor + 1) = StateSaid(outbox, r, cursor)
              /\ EpochSaid(outbox, r, cursor + 1) = EpochSaid(outbox, r, cursor)
         /\ e.kind = "state" /\ e.room = r => StateSaid(outbox, r, cursor + 1) = e.to
         /\ ~(e.kind = "refs" /\ e.room = r) => AccountsSaid(outbox, r, cursor + 1) = AccountsSaid(outbox, r, cursor)
         /\ e.kind = "refs" /\ e.room = r => AccountsSaid(outbox, r, cursor + 1) = e.accounts
  BY <1>2, <1>5, NextSaid
<1>11. \A r, a, s : Pending(outbox, r, a, s, cursor) =>
         /\ e.kind = "refs" /\ (e.room = s => a \in e.accounts)
         /\ e.room # r => Pending(outbox, r, a, s, cursor + 1)
  <2>1. Len(outbox) \in Nat /\ cursor \in Nat
    BY <1>2, <1>5
  <2> QED
    BY <2>1, PendingNext
<1>12. Midway(p, e) /\ \A r \in Rooms : r # e.room => Settled(projection[r])
  BY <1>2, <1>3, <1>4 DEF Runs
<1> HIDE DEF e, q
<1>13. Kinds = {"state", "refs"} /\ "refs" # "state"
  BY DEF Kinds
<1>14. Matches(outbox, q, cursor + 1)
  <2>1. SUFFICES ASSUME NEW r \in Rooms
                 PROVE  /\ q[r].state = StateSaid(outbox, r, cursor + 1)
                        /\ q[r].epoch # 0 => q[r].epoch = EpochSaid(outbox, r, cursor + 1)
                        /\ q[r].accounts \subseteq AccountsSaid(outbox, r, cursor + 1)
    BY DEF Matches
  <2>2. /\ projection[r].state = StateSaid(outbox, r, cursor)
        /\ projection[r].epoch # 0 => projection[r].epoch = EpochSaid(outbox, r, cursor)
        /\ projection[r].accounts \subseteq AccountsSaid(outbox, r, cursor)
    BY <1>3 DEF Matches
  <2>3. CASE r # e.room
    BY <1>8, <1>10, <2>2, <2>3
  <2>4. CASE r = e.room /\ e.kind = "refs"
    BY <1>7, <1>8, <1>10, <1>13, <2>2, <2>4
  <2>5. CASE r = e.room /\ e.kind = "state"
    BY <1>7, <1>8, <1>9, <1>10, <1>13, <2>2, <2>5
  <2> QED
    BY <1>2, <1>13, <2>3, <2>4, <2>5
<1>15. \A r \in Rooms : q[r].active = projection[r].active
  BY <1>2, <1>7, <1>8, <1>13
<1>16. \A mid : Accounted(outbox, q, cursor + 1, mid)
  <2>1. SUFFICES ASSUME NEW r \in Rooms, NEW a \in AccountsSaid(outbox, r, cursor + 1), a \notin q[r].accounts
                 PROVE  \E s \in Rooms \ {r} : a \in q[s].active /\ Pending(outbox, r, a, s, cursor + 1)
    BY DEF Accounted, Houses
  <2>2. ~(r = e.room /\ e.kind = "refs")
    BY <1>7, <1>8, <1>10, <2>1
  <2>3. a \in AccountsSaid(outbox, r, cursor)
    BY <1>10, <2>1, <2>2
  <2>4. a \notin projection[r].accounts
    BY <1>2, <1>7, <1>8, <1>13, <2>1, <2>2
  <2>5. PICK s \in Rooms \ {r} : Houses(projection, s, a, MidEvent, e) /\ Pending(outbox, r, a, s, cursor)
    BY <1>3, <2>3, <2>4 DEF Accounted, e
  <2>7. a \in projection[s].active
    BY <1>6, <1>11, <2>5 DEF Houses
  <2>6. e.room # r /\ Pending(outbox, r, a, s, cursor + 1)
    BY <1>11, <2>2, <2>5
  <2> QED
    BY <1>15, <2>5, <2>6, <2>7
<1>17. OneHome(q)
  BY <1>3, <1>15 DEF OneHome
<1>18. ASSUME NEW r \in Rooms PROVE Settled(q[r])
  <2> HIDE DEF p
  <2>1. CASE r # e.room
    BY <1>8, <1>12, <2>1
  <2>2. CASE r = e.room /\ e.kind = "refs"
    <3>1. q[r].accounts = e.accounts /\ q[r].state = p.state /\ q[r].active = p.active
      BY <1>7, <1>8, <2>2
    <3>2. p.state = "offline" => p.active = {}
      BY <1>12, <2>2 DEF Midway
    <3>3. p.active \subseteq e.accounts /\ (p.state = "live" => p.active = e.accounts)
      BY <1>6, <2>2
    <3> HIDE DEF Projected
    <3> QED
      BY <3>1, <3>2, <3>3 DEF Settled
  <2>3. CASE r = e.room /\ e.kind = "state"
    <3>1. q[r].accounts = p.accounts /\ q[r].state = e.to /\ q[r].active = p.active
      BY <1>7, <1>8, <2>3
    <3>2. e.to # "offline" => p.active \subseteq p.accounts
      BY <1>12, <2>3 DEF Midway
    <3>3. (e.to = "offline" => p.active = {}) /\ (e.to = "live" => p.accounts \subseteq p.active)
      BY <1>6, <2>3
    <3>4. p.active \subseteq p.accounts
      BY <3>2, <3>3
    <3>5. e.to = "live" => p.active = p.accounts
      BY <3>3, <3>4
    <3> QED
      BY <3>1, <3>3, <3>4, <3>5 DEF Settled
  <2> QED
    BY <1>2, <1>13, <2>1, <2>2, <2>3
<1>19. \A mid, event : Runs(q, mid, event)
  BY <1>18, SettledIsMidway DEF Runs
<1> QED
  BY <1>1, <1>4, <1>14, <1>16, <1>17, <1>19 DEF ProjectionInv

LEMMA ReplayProjects ==
  ASSUME RoomInv, ProjectionInv, Wake \/ Replay \/ ReplayEnds \/ OpenBroadcastSession
  PROVE  ProjectionInv'
<1>1. /\ up /\ up' = up /\ outbox' = outbox /\ cursor' = cursor
      /\ Matches(outbox, projection, cursor) /\ Accounted(outbox, projection, cursor, MidEvent)
      /\ OneHome(projection) /\ Runs(projection, MidEvent, outbox[cursor + 1])
  BY DEF ProjectionInv, Wake, Replay, ReplayEnds, OpenBroadcastSession, Applying, tables
<1>2. /\ consumer \in Consumers /\ consumer.upto \in Nat /\ cursor \in Nat /\ Sequence \in Nat
      /\ consumer.upto <= Sequence /\ projection \in [Rooms -> Projections]
  BY LenProperties DEF RoomInv, WatchInv, ReplayInv, ConsumingTypes, Consumers, Sequence, TableInv, TableTypes
<1>3. \A event : ~MidEvent => Runs(projection, FALSE, event)
  BY <1>1 DEF Runs
<1>4. CASE Wake
  <2>1. consumer' = [consumer EXCEPT !.at = "reading"] /\ consumer.at = "waiting" /\ projection' = projection
    BY <1>4 DEF Wake
  <2>2. ~MidEvent /\ ~MidEvent'
    BY <1>2, <2>1 DEF MidEvent, Consumers
  <2> QED
    BY <1>1, <2>1, <2>2 DEF ProjectionInv, Runs, Accounted, Houses
<1>5. CASE Replay
  <2>1. consumer' = [at |-> "applying", upto |-> Sequence, resolved |-> FALSE] /\ projection' = projection
    BY <1>5 DEF Replay
  <2>2. MidEvent => MidEvent'
    BY <1>1, <1>2, <2>1 DEF MidEvent
  <2>3. Runs(projection, MidEvent', outbox[cursor + 1])
    <3>1. CASE MidEvent
      BY <1>1, <2>2, <3>1 DEF Runs
    <3>2. CASE ~MidEvent
      <4>1. \A r \in Rooms : Settled(projection[r])
        BY <1>1, <3>2 DEF Runs
      <4> QED
        BY <4>1, SettledIsMidway DEF Runs
    <3> QED
      BY <3>1, <3>2
  <2>4. Accounted(outbox, projection, cursor, MidEvent')
    BY <1>1, <2>2 DEF Accounted, Houses
  <2> QED
    BY <1>1, <2>1, <2>3, <2>4 DEF ProjectionInv
<1>6. CASE ReplayEnds
  <2>1. consumer' = Waiting /\ cursor = consumer.upto /\ projection' = projection
    BY <1>6 DEF ReplayEnds
  <2>2. ~MidEvent /\ ~MidEvent'
    BY <1>2, <2>1 DEF MidEvent, Waiting
  <2> QED
    BY <1>1, <2>1, <2>2 DEF ProjectionInv, Runs, Accounted, Houses
<1>7. CASE OpenBroadcastSession
  <2> DEFINE q == [projection EXCEPT ![Event.room].broadcast = broadcast[Event.room].last]
  <2>1. consumer' = [consumer EXCEPT !.resolved = TRUE] /\ projection' = q
    BY <1>7 DEF OpenBroadcastSession
  <2>2. MidEvent' = MidEvent
    BY <1>1, <1>2, <2>1 DEF MidEvent, Consumers
  <2>3. ASSUME NEW r \in Rooms
        PROVE  /\ q[r].state = projection[r].state /\ q[r].epoch = projection[r].epoch
               /\ q[r].accounts = projection[r].accounts /\ q[r].active = projection[r].active
    <3>1. projection[r] \in Projections
      BY <1>2
    <3>2. q[r] = IF r = Event.room THEN [projection[r] EXCEPT !.broadcast = broadcast[Event.room].last] ELSE projection[r]
      BY <1>2 DEF Projections
    <3> HIDE DEF q
    <3> QED
      BY <3>1, <3>2 DEF Projections
  <2> HIDE DEF q
  <2>4. Matches(outbox, q, cursor)
    BY <1>1, <2>3 DEF Matches
  <2>5. Accounted(outbox, q, cursor, MidEvent)
    BY <1>1, <2>3 DEF Accounted, Houses
  <2>6. OneHome(q)
    BY <1>1, <2>3 DEF OneHome
  <2>7. Runs(q, MidEvent, outbox[cursor + 1])
    <3>1. \A r \in Rooms : Settled(projection[r]) => Settled(q[r])
      BY <2>3 DEF Settled
    <3>2. \A r \in Rooms : \A event : Midway(projection[r], event) => Midway(q[r], event)
      BY <2>3 DEF Midway
    <3> QED
      BY <1>1, <3>1, <3>2 DEF Runs
  <2> QED
    BY <1>1, <2>1, <2>2, <2>4, <2>5, <2>6, <2>7 DEF ProjectionInv
<1> QED
  BY <1>4, <1>5, <1>6, <1>7

LEMMA StartProjects ==
  ASSUME RoomInv, StartRoomRuntime
  PROVE  ProjectionInv'
<1>1. /\ ~up /\ cursor' = Sequence /\ outbox' = outbox /\ consumer' = consumer
      /\ projection' = [r \in Rooms |->
           IF r \notin Bootstrapped THEN Unprojected
           ELSE [state |-> row[r].state, epoch |-> row[r].epoch, broadcast |-> row[r].broadcast,
                 accounts |-> references[r],
                 active |-> IF row[r].state = "live" THEN references[r] ELSE {}]]
  BY DEF StartRoomRuntime, tables
<1>2. TablesAgree(outbox, references, row, broadcast) /\ Apart(references) /\ Sequence = Len(outbox)
  BY DEF RoomInv, WatchInv, TableInv, LogInv, Sequence
<1>3. consumer'.at = "waiting"
  BY <1>1 DEF RoomInv, ReplayInv, Waiting
<1>4. ASSUME NEW r \in Rooms
      PROVE  /\ projection'[r].state = row[r].state
             /\ projection'[r].epoch # 0 => projection'[r].epoch = row[r].epoch
             /\ projection'[r].accounts = references[r]
             /\ projection'[r].active = IF row[r].state = "live" THEN references[r] ELSE {}
  <2>1. CASE r \in Bootstrapped
    BY <1>1, <2>1
  <2>2. CASE r \notin Bootstrapped
    <3>1. references[r] = {} /\ row[r].state = "offline"
      BY <2>2 DEF Bootstrapped
    <3>2. projection'[r] = Unprojected
      BY <1>1, <2>2
    <3> QED
      BY <3>1, <3>2 DEF Unprojected
  <2> QED
    BY <2>1, <2>2
<1>5. Matches(outbox, projection', Sequence)
  BY <1>2, <1>4 DEF Matches, TablesAgree
<1>6. \A mid : Accounted(outbox, projection', Sequence, mid)
  BY <1>2, <1>4 DEF Accounted, TablesAgree
<1>7. OneHome(projection')
  <2>1. \A r \in Rooms : projection'[r].active \subseteq references[r]
    BY <1>4
  <2> QED
    BY <1>2, <2>1 DEF OneHome, Apart
<1>8. \A r \in Rooms : Settled(projection'[r])
  BY <1>4 DEF Settled
<1>9. ~MidEvent'
  BY <1>3 DEF MidEvent
<1>10. \A event : Runs(projection', MidEvent', event)
  BY <1>8, <1>9 DEF Runs
<1> QED
  BY <1>1, <1>5, <1>6, <1>7, <1>10 DEF ProjectionInv

LEMMA ProjectionInit ==
  ASSUME RoomInit
  PROVE  ProjectionInv
<1>1. /\ references = [r \in Rooms |-> {}]
      /\ row = [r \in Rooms |-> [state |-> "offline", epoch |-> 1, broadcast |-> 0]]
      /\ cursor = 0 /\ outbox = <<>> /\ consumer = Waiting
      /\ projection = [r \in Rooms |-> Unprojected]
  BY DEF RoomInit
<1>2. TablesAgree(outbox, references, row, broadcast) /\ Len(outbox) = 0
  BY <1>1, RoomInvInit DEF RoomInv, WatchInv, TableInv, LogInv
<1>3. \A r \in Rooms : StateSaid(outbox, r, 0) = "offline" /\ AccountsSaid(outbox, r, 0) = {}
  BY <1>1, <1>2 DEF TablesAgree
<1>4. \A r \in Rooms : /\ projection[r].state = "offline" /\ projection[r].epoch = 0
                       /\ projection[r].accounts = {} /\ projection[r].active = {}
  BY <1>1 DEF Unprojected
<1>5. Matches(outbox, projection, 0) /\ Accounted(outbox, projection, 0, MidEvent) /\ OneHome(projection)
  BY <1>3, <1>4 DEF Matches, Accounted, OneHome
<1>6. ~MidEvent
  BY <1>1 DEF MidEvent, Waiting
<1>7. \A event : Runs(projection, MidEvent, event)
  BY <1>4, <1>6 DEF Runs, Settled
<1> QED
  BY <1>1, <1>5, <1>7 DEF ProjectionInv

LEMMA ProjectionKept ==
  ASSUME RoomInv, ProjectionInv, [RoomNext]_vars
  PROVE  ProjectionInv'
<1>1. WatchInv /\ ReplayInv
  BY DEF RoomInv
<1>2. Grows
  BY <1>1, WatchKept
<1>3. CASE PollSteps \/ ObserveSteps \/ RefreshSteps
  BY <1>1, <1>2, <1>3, WatcherStep, ProjectionWaits
<1>4. CASE ConsumerSteps
  BY <1>4, ReplayProjects, ApplyKeeps, StopKeeps, LeaveKeeps, StartKeeps DEF ConsumerSteps
<1>5. CASE OtherSteps
  <2>1. CASE Crash
    BY <2>1 DEF Crash, ProjectionInv
  <2>2. CASE StartRoomRuntime
    BY <2>2, StartProjects
  <2>3. CASE ~Crash /\ ~StartRoomRuntime
    <3>1. UNCHANGED <<consuming, up>>
      BY <1>5, <2>3 DEF OtherSteps, Rebind, GraceElapses
    <3> QED
      BY <1>2, <3>1, ProjectionWaits
  <2> QED
    BY <2>1, <2>2, <2>3
<1>6. CASE UNCHANGED vars
  <2>1. UNCHANGED <<consuming, up>>
    BY <1>6 DEF vars
  <2> QED
    BY <1>2, <2>1, ProjectionWaits
<1> QED
  BY <1>3, <1>4, <1>5, <1>6, Steps

\* The projection is what the outbox says up to the cursor, an account runs in one room
\* at most, and a room lacks an account of its snapshot only while another one runs it
\* or the event under way is moving it there.
THEOREM ProjectionFollows == RoomSpec => []ProjectionFollowsTheOutbox
<1>1. RoomInit => RoomInv /\ ProjectionInv
  BY RoomInvInit, ProjectionInit
<1>2. RoomInv /\ ProjectionInv /\ [RoomNext]_vars => RoomInv' /\ ProjectionInv'
  BY WatchKept, ReplayKept, ProjectionKept DEF RoomInv
<1>3. RoomInv /\ ProjectionInv => ProjectionFollowsTheOutbox
  <2>1. SUFFICES ASSUME RoomInv, ProjectionInv, up, NEW r \in Rooms
                 PROVE  LET p == projection[r] IN
                   /\ p.state = StateAt(r, cursor)
                   /\ p.epoch # 0 => p.epoch = EpochAt(r, cursor)
                   /\ p.accounts \subseteq AccountsAt(r, cursor)
                   /\ \A a \in AccountsAt(r, cursor) \ p.accounts :
                        \/ \E s \in Rooms \ {r} : a \in projection[s].active
                        \/ Applying /\ Event.room # r /\ a \in ToStart
                   /\ \A s \in Rooms \ {r} : p.active \cap projection[s].active = {}
                   /\ consumer.at = "waiting" =>
                        p.active = CASE p.state = "live" -> p.accounts
                                     [] p.state = "offline" -> {}
                                     [] OTHER -> p.active \cap p.accounts
    BY DEF ProjectionFollowsTheOutbox
  <2>2. Matches(outbox, projection, cursor) /\ Accounted(outbox, projection, cursor, MidEvent)
        /\ OneHome(projection) /\ Runs(projection, MidEvent, outbox[cursor + 1])
    BY <2>1 DEF ProjectionInv
  <2>3. /\ projection[r].state = StateAt(r, cursor)
        /\ projection[r].epoch # 0 => projection[r].epoch = EpochAt(r, cursor)
        /\ projection[r].accounts \subseteq AccountsAt(r, cursor)
    BY <2>2, OutboxForm DEF Matches
  <2>4. ASSUME NEW a \in AccountsAt(r, cursor) \ projection[r].accounts
        PROVE  \/ \E s \in Rooms \ {r} : a \in projection[s].active
               \/ Applying /\ Event.room # r /\ a \in ToStart
    <3>1. PICK s \in Rooms \ {r} : /\ Houses(projection, s, a, MidEvent, outbox[cursor + 1])
                                  /\ Pending(outbox, r, a, s, cursor)
      BY <2>2, <2>4, OutboxForm DEF Accounted
    <3>2. Len(outbox) \in Nat /\ cursor \in Nat
      BY <2>1, LenProperties DEF RoomInv, WatchInv, TableInv, TableTypes, ConsumingTypes
    <3>3. outbox[cursor + 1].kind = "refs" /\ (outbox[cursor + 1].room = s => a \in outbox[cursor + 1].accounts)
      BY <3>1, <3>2, PendingNext
    <3>4. CASE a \in projection[s].active
      BY <3>4
    <3>5. CASE a \notin projection[s].active
      <4>1. MidEvent /\ s = Event.room /\ projection[s].state = "live"
        BY <3>1, <3>5 DEF Houses, Event
      <4>2. a \in ToStart
        BY <3>3, <3>5, <4>1 DEF ToStart, Event
      <4> QED
        BY <2>1, <4>1, <4>2 DEF Applying, MidEvent
    <3> QED
      BY <3>4, <3>5
  <2>5. \A s \in Rooms \ {r} : projection[r].active \cap projection[s].active = {}
    BY <2>2 DEF OneHome
  <2>6. consumer.at = "waiting" =>
          projection[r].active = CASE projection[r].state = "live" -> projection[r].accounts
                                   [] projection[r].state = "offline" -> {}
                                   [] OTHER -> projection[r].active \cap projection[r].accounts
    <3>1. consumer.at = "waiting" => Settled(projection[r])
      BY <2>2 DEF Runs, MidEvent
    <3> QED
      BY <3>1 DEF Settled
  <2> QED
    BY <2>3, <2>4, <2>5, <2>6
<1> QED
  BY <1>1, <1>2, <1>3, PTL DEF RoomSpec

(***************************************************************************)
(* The gateway's breaker (Gateway).  While the breaker holds, no flight is *)
(* admitted and the hold outlasts those under way; so the trials that come *)
(* after it are alone.  The hold also fills the buckets, from which a      *)
(* probe on trial would otherwise be turned away without a record.         *)
(***************************************************************************)
Rate(b) == Capacity(b) \div Minute
Elapsed == HoldTime - breaker.hold

GatewayTypes ==
  /\ breaker \in [hold : -1..HoldTime, halfOpen : BOOLEAN, successes : 0..(Trials - 1)]
  /\ budget \in [Buckets -> Nat]
  /\ flight \in [Flights -> [at : {"none", "admitted", "asking"}, scope : Scopes, age : Nat, trial : BOOLEAN]]

\* What is under way is a trial exactly while the hold is over and the breaker not closed.
TrialsAlone ==
  /\ breaker.halfOpen => breaker.hold = 0
  /\ \A f \in InFlight : flight[f].trial <=> breaker.hold = 0
  /\ breaker.hold = 0 => /\ \A f, g \in InFlight : f = g
                         /\ breaker.halfOpen <=> InFlight # {}

\* While the breaker holds, a flight is as old as the hold; only at its start may one not
\* have been charged yet.
HoldOutlasts ==
  /\ \A f \in InFlight : flight[f].age <= Patience
  /\ breaker.hold > 0 => \A f \in InFlight : /\ Elapsed <= flight[f].age
                                             /\ flight[f].at = "admitted" => Elapsed = 0

\* The hold fills the buckets for as many trials as are needed to close the breaker.
BudgetsSuffice ==
  \A b \in Buckets :
    /\ breaker.hold > 0 => budget[b] >= Capacity(b) \/ budget[b] >= Elapsed * Rate(b)
    /\ breaker.hold = 0 =>
         budget[b] + (IF \E f \in InFlight : flight[f].at = "asking" THEN 1 ELSE 0) + breaker.successes >= Trials

GatewayInv == GatewayTypes /\ TrialsAlone /\ HoldOutlasts /\ BudgetsSuffice

LEMMA Capacities ==
  ASSUME NEW b
  PROVE  Capacity(b) \in Nat /\ Capacity(b) >= Trials /\ Rate(b) \in Nat /\ Capacity(b) = Minute * Rate(b)
<1>1. Capacity(b) \in {GlobalBudget, AccountBudget, EndpointBudget, ProbeBudget}
  BY DEF Capacity
<1>2. Capacity(b) \in Nat /\ Capacity(b) >= Trials /\ Capacity(b) % Minute = 0 /\ Minute \in Nat \ {0}
  BY <1>1, GatewayAssumption
<1> DEFINE c == Capacity(b)
<1>3. c \in Nat /\ c % Minute = 0
  BY <1>2
<1> HIDE DEF c
<1>4. c \div Minute \in Nat /\ c = Minute * (c \div Minute)
  BY <1>2, <1>3
<1> QED
  BY <1>2, <1>4 DEF c, Rate

LEMMA Refilling ==
  ASSUME NEW b \in Buckets, budget[b] \in Nat
  PROVE  /\ Refilled(b) \in Nat
         /\ Refilled(b) = Capacity(b) \/ (Refilled(b) = budget[b] + Rate(b) /\ Refilled(b) <= Capacity(b))
         /\ budget[b] >= Capacity(b) => Refilled(b) = Capacity(b)
<1>1. Capacity(b) \in Nat /\ Rate(b) \in Nat /\ budget[b] + Rate(b) \in Nat
  BY Capacities
<1>2. ASSUME NEW x \in Nat, NEW y \in Nat PROVE Min({x, y}) = IF x <= y THEN x ELSE y
  BY DEF Min
<1>3. Refilled(b) = IF Capacity(b) <= budget[b] + Rate(b) THEN Capacity(b) ELSE budget[b] + Rate(b)
  BY <1>1, <1>2 DEF Refilled, Rate
<1> QED
  BY <1>1, <1>3

\* What one step makes of one flight.
LEMMA FlightMoves ==
  ASSUME GatewayTypes, NEW f \in Flights, NEW w \in [at : {"none", "admitted", "asking"}, scope : Scopes, age : Nat, trial : BOOLEAN],
         flight' = [flight EXCEPT ![f] = w]
  PROVE  /\ flight' \in [Flights -> [at : {"none", "admitted", "asking"}, scope : Scopes, age : Nat, trial : BOOLEAN]]
         /\ flight'[f] = w /\ \A g \in Flights \ {f} : flight'[g] = flight[g]
         /\ InFlight' = IF w.at = "none" THEN InFlight \ {f} ELSE InFlight \cup {f}
<1>1. /\ flight' \in [Flights -> [at : {"none", "admitted", "asking"}, scope : Scopes, age : Nat, trial : BOOLEAN]]
      /\ flight'[f] = w /\ \A g \in Flights \ {f} : flight'[g] = flight[g]
  BY DEF GatewayTypes
<1>2. InFlight' = {g \in Flights : flight'[g].at # "none"}
  BY DEF InFlight
<1> QED
  BY <1>1, <1>2 DEF InFlight

\* How a flight may end for the breaker: it is opened, or tried once more; or it was not on
\* trial and at most forgets its successes.
Records(asked) ==
  \/ breaker' = Opened
  \/ ~breaker.halfOpen /\ breaker' \in {breaker, [breaker EXCEPT !.successes = 0]}
  \/ breaker.halfOpen /\ breaker' = [hold |-> Unheld, halfOpen |-> FALSE, successes |-> 0]
  \/ /\ asked /\ breaker.halfOpen /\ breaker.successes + 1 < Trials
     /\ breaker' = [breaker EXCEPT !.halfOpen = FALSE, !.successes = breaker.successes + 1]

LEMMA LandingKeeps ==
  ASSUME GatewayInv, NEW f \in InFlight, Lands(f), UNCHANGED budget, Records(flight[f].at = "asking")
  PROVE  GatewayInv'
<1>1. /\ f \in Flights /\ InFlight' = InFlight \ {f} /\ \A g \in InFlight' : flight'[g] = flight[g]
      /\ flight' \in [Flights -> [at : {"none", "admitted", "asking"}, scope : Scopes, age : Nat, trial : BOOLEAN]]
  <2>1. /\ f \in Flights /\ NoFlight.at = "none"
        /\ NoFlight \in [at : {"none", "admitted", "asking"}, scope : Scopes, age : Nat, trial : BOOLEAN]
    BY DEF InFlight, NoFlight, Scopes
  <2> HIDE DEF NoFlight
  <2>2. GatewayTypes /\ flight' = [flight EXCEPT ![f] = NoFlight]
    BY DEF GatewayInv, Lands
  <2>3. InFlight' = InFlight \ {f} /\ (\A g \in Flights \ {f} : flight'[g] = flight[g])
        /\ flight' \in [Flights -> [at : {"none", "admitted", "asking"}, scope : Scopes, age : Nat, trial : BOOLEAN]]
    BY <2>1, <2>2, FlightMoves
  <2>4. InFlight \subseteq Flights
    BY DEF InFlight
  <2> QED
    BY <2>1, <2>3, <2>4
<1>2. /\ breaker \in [hold : -1..HoldTime, halfOpen : BOOLEAN, successes : 0..(Trials - 1)]
      /\ budget \in [Buckets -> Nat] /\ budget' = budget
      /\ Minute \in Nat \ {0} /\ Trials \in Nat \ {0} /\ HoldTime = 2 * Minute
      /\ breaker.halfOpen \in BOOLEAN
      /\ \A g \in InFlight : flight[g].age \in Nat
  BY GatewayAssumption DEF GatewayInv, GatewayTypes, HoldTime, InFlight
<1>3. TrialsAlone /\ HoldOutlasts /\ BudgetsSuffice
  BY DEF GatewayInv
<1>4. /\ breaker.hold = 0 => InFlight' = {}
      /\ breaker.halfOpen <=> breaker.hold = 0
  BY <1>1, <1>2, <1>3 DEF TrialsAlone
<1>5. \A b : Rate(b) \in Nat
  BY Capacities
<1>6. CASE breaker' = Opened
  <2>1. breaker'.hold = 2 * Minute /\ breaker'.halfOpen = FALSE /\ Elapsed' = 0
    BY <1>2, <1>6 DEF Opened, Elapsed, HoldTime
  <2>2. GatewayTypes'
    BY <1>1, <1>2, <1>6 DEF GatewayTypes, Opened, HoldTime
  <2>3. TrialsAlone'
    BY <1>1, <1>2, <1>3, <1>4, <2>1 DEF TrialsAlone
  <2>4. HoldOutlasts'
    BY <1>1, <1>2, <1>3, <2>1 DEF HoldOutlasts
  <2>5. ASSUME NEW b \in Buckets PROVE budget'[b] >= Elapsed' * Rate(b)
    BY <1>2, <1>5, <2>1
  <2>6. BudgetsSuffice'
    BY <1>2, <2>1, <2>5 DEF BudgetsSuffice
  <2> QED
    BY <2>2, <2>3, <2>4, <2>6 DEF GatewayInv
<1>7. CASE ~breaker.halfOpen /\ breaker' \in {breaker, [breaker EXCEPT !.successes = 0]}
  <2>1. /\ breaker'.hold = breaker.hold /\ breaker'.halfOpen = FALSE /\ Elapsed' = Elapsed /\ breaker.hold # 0
        /\ breaker' \in [hold : -1..HoldTime, halfOpen : BOOLEAN, successes : 0..(Trials - 1)]
    BY <1>2, <1>4, <1>7 DEF Elapsed, HoldTime
  <2>2. GatewayTypes'
    BY <1>1, <1>2, <2>1 DEF GatewayTypes, HoldTime
  <2>3. TrialsAlone'
    BY <1>1, <1>3, <2>1 DEF TrialsAlone
  <2>4. HoldOutlasts'
    BY <1>1, <1>3, <2>1 DEF HoldOutlasts
  <2>5. BudgetsSuffice'
    BY <1>2, <1>3, <2>1 DEF BudgetsSuffice
  <2> QED
    BY <2>2, <2>3, <2>4, <2>5 DEF GatewayInv
<1>8. CASE breaker.halfOpen /\ breaker' = [hold |-> Unheld, halfOpen |-> FALSE, successes |-> 0]
  <2>1. breaker'.hold = -1 /\ breaker'.halfOpen = FALSE /\ InFlight' = {}
    BY <1>4, <1>8 DEF Unheld
  <2>2. GatewayTypes'
    BY <1>1, <1>2, <1>8 DEF GatewayTypes, HoldTime, Unheld
  <2>3. TrialsAlone' /\ HoldOutlasts' /\ BudgetsSuffice'
    BY <2>1 DEF TrialsAlone, HoldOutlasts, BudgetsSuffice
  <2> QED
    BY <2>2, <2>3 DEF GatewayInv
<1>9. CASE /\ flight[f].at = "asking" /\ breaker.halfOpen /\ breaker.successes + 1 < Trials
           /\ breaker' = [breaker EXCEPT !.halfOpen = FALSE, !.successes = breaker.successes + 1]
  <2>1. /\ breaker'.hold = 0 /\ breaker'.halfOpen = FALSE /\ InFlight' = {} /\ breaker.hold = 0
        /\ breaker'.successes = breaker.successes + 1 /\ breaker.successes \in Nat
        /\ breaker' \in [hold : -1..HoldTime, halfOpen : BOOLEAN, successes : 0..(Trials - 1)]
    <3>1. breaker.hold = 0 /\ breaker.successes + 1 \in 0..(Trials - 1) /\ breaker.successes \in Nat /\ 0 \in -1..HoldTime
      BY <1>2, <1>4, <1>9
    <3>2. breaker' = [hold |-> breaker.hold, halfOpen |-> FALSE, successes |-> breaker.successes + 1]
      BY <1>2, <1>9
    <3> QED
      BY <1>4, <3>1, <3>2
  <2>2. GatewayTypes'
    BY <1>1, <1>2, <2>1 DEF GatewayTypes, HoldTime
  <2>3. TrialsAlone' /\ HoldOutlasts'
    BY <2>1 DEF TrialsAlone, HoldOutlasts
  <2>4. ASSUME NEW b \in Buckets PROVE budget'[b] + breaker'.successes >= Trials
    <3>1. budget[b] + 1 + breaker.successes >= Trials
      BY <1>2, <1>3, <1>9, <2>1 DEF BudgetsSuffice
    <3> QED
      BY <1>2, <2>1, <3>1
  <2>5. BudgetsSuffice'
    BY <1>2, <2>1, <2>4 DEF BudgetsSuffice
  <2> QED
    BY <2>2, <2>3, <2>5 DEF GatewayInv
<1> QED
  BY <1>6, <1>7, <1>8, <1>9 DEF Records

LEMMA FlightEnds ==
  ASSUME GatewayInv, NEW f \in Flights, IsRefused(f) \/ IsAnswered(f) \/ IsRejected(f) \/ FlightFails(f)
  PROVE  GatewayInv'
<1>1. /\ f \in InFlight /\ Lands(f) /\ budget' = budget
  BY DEF IsRefused, IsAnswered, IsRejected, FlightFails, InFlight
<1>2. /\ breaker \in [hold : -1..HoldTime, halfOpen : BOOLEAN, successes : 0..(Trials - 1)]
      /\ budget \in [Buckets -> Nat] /\ Trials \in Nat \ {0} /\ breaker.successes \in Nat
  BY GatewayAssumption DEF GatewayInv, GatewayTypes
<1>3. ASSUME RecordFailure PROVE Records(flight[f].at = "asking")
  BY <1>3 DEF RecordFailure, Records
<1>4. ASSUME RecordSuccess, flight[f].at = "asking" PROVE Records(flight[f].at = "asking")
  <2>1. CASE ~breaker.halfOpen
    BY <1>4, <2>1 DEF RecordSuccess, Records
  <2>2. CASE breaker.halfOpen /\ breaker.successes + 1 >= Trials
    BY <1>4, <2>2 DEF RecordSuccess, Records
  <2>3. CASE breaker.halfOpen /\ ~(breaker.successes + 1 >= Trials)
    <3>1. breaker' = [breaker EXCEPT !.halfOpen = FALSE, !.successes = breaker.successes + 1]
      BY <1>4, <2>3 DEF RecordSuccess
    <3>2. breaker.successes + 1 < Trials
      BY <1>2, <2>3
    <3> QED
      BY <1>4, <2>3, <3>1, <3>2 DEF Records
  <2> QED
    BY <2>1, <2>2, <2>3
<1>5. ASSUME NEW scope, RecordRisk(scope) PROVE Records(flight[f].at = "asking")
  <2>1. CASE breaker.halfOpen
    BY <1>5, <2>1 DEF RecordRisk, Records
  <2>2. CASE ~breaker.halfOpen
    <3>1. breaker' \in {breaker, Opened}
      BY <1>5, <2>2 DEF RecordRisk
    <3> QED
      BY <2>2, <3>1 DEF Records
  <2> QED
    BY <2>1, <2>2
<1>6. CASE IsAnswered(f)
  BY <1>1, <1>4, <1>6, LandingKeeps DEF IsAnswered, RecordAnswer
<1>7. CASE IsRejected(f)
  BY <1>1, <1>5, <1>7, LandingKeeps DEF IsRejected
<1>8. CASE FlightFails(f)
  BY <1>1, <1>3, <1>8, LandingKeeps DEF FlightFails
<1>9. CASE IsRefused(f) /\ f # Probe
  BY <1>1, <1>3, <1>9, LandingKeeps DEF IsRefused
\* A probe that is turned away is not on trial: the hold has filled its buckets.
<1>10. CASE IsRefused(f) /\ f = Probe
  <2>1. flight[f].at = "admitted" /\ breaker' = breaker
    BY <1>10 DEF IsRefused
  <2>2. PICK b \in Charged(f) : budget[b] < 1
    BY <1>10 DEF IsRefused
  <2>3. b \in Buckets
    BY <1>10, <2>2 DEF Charged, Buckets
  <2>4. ASSUME breaker.hold = 0 PROVE FALSE
    <3>1. ~\E g \in InFlight : flight[g].at = "asking"
      BY <1>1, <2>1, <2>4 DEF GatewayInv, TrialsAlone
    <3>2. budget[b] + 0 + breaker.successes >= Trials
      BY <2>3, <2>4, <3>1 DEF GatewayInv, BudgetsSuffice
    <3>3. budget[b] \in Nat /\ breaker.successes \in 0..(Trials - 1)
      BY <1>2, <2>3
    <3> QED
      BY <1>2, <2>2, <3>2, <3>3
  <2>5. ~breaker.halfOpen
    BY <2>4 DEF GatewayInv, TrialsAlone
  <2>6. Records(flight[f].at = "asking")
    BY <2>1, <2>5 DEF Records
  <2> QED
    BY <1>1, <2>6, LandingKeeps
<1> QED
  BY <1>6, <1>7, <1>8, <1>9, <1>10

LEMMA FlightBegins ==
  ASSUME GatewayInv, NEW f \in Flights, Begins(f)
  PROVE  GatewayInv'
<1>1. PICK scope \in IF f = Probe THEN {Prober} ELSE Accounts :
        flight' = [flight EXCEPT ![f] = [at |-> "admitted", scope |-> scope, age |-> 0, trial |-> IsTrial]]
  BY DEF Begins
<1> DEFINE w == [at |-> "admitted", scope |-> scope, age |-> 0, trial |-> IsTrial]
<1>2. w \in [at : {"none", "admitted", "asking"}, scope : Scopes, age : Nat, trial : BOOLEAN]
      /\ w.at = "admitted" /\ w.age = 0 /\ (w.trial <=> breaker.hold = 0)
  BY <1>1 DEF Scopes, IsTrial
<1>3. /\ flight' \in [Flights -> [at : {"none", "admitted", "asking"}, scope : Scopes, age : Nat, trial : BOOLEAN]]
      /\ flight'[f] = w /\ (\A g \in Flights \ {f} : flight'[g] = flight[g])
      /\ InFlight' = InFlight \cup {f}
  <2>1. GatewayTypes /\ flight' = [flight EXCEPT ![f] = w]
    BY <1>1 DEF GatewayInv
  <2> HIDE DEF w
  <2> QED
    BY <1>2, <2>1, FlightMoves
<1> HIDE DEF w
<1>4. /\ breaker \in [hold : -1..HoldTime, halfOpen : BOOLEAN, successes : 0..(Trials - 1)]
      /\ budget \in [Buckets -> Nat] /\ budget' = budget /\ Patience \in Nat /\ Minute \in Nat \ {0}
      /\ f \notin InFlight /\ InFlight \subseteq Flights
  BY GatewayAssumption DEF GatewayInv, GatewayTypes, InFlight, Begins
<1>5. /\ breaker.hold = -1 \/ (breaker.hold = 0 /\ ~breaker.halfOpen)
      /\ breaker' = [breaker EXCEPT !.halfOpen = breaker.halfOpen \/ breaker.hold = 0]
  BY DEF Begins, Admits, IsTrial, Unheld
<1>6. /\ breaker'.hold = breaker.hold /\ breaker'.successes = breaker.successes
      /\ breaker'.halfOpen = (breaker.hold = 0)
      /\ breaker' \in [hold : -1..HoldTime, halfOpen : BOOLEAN, successes : 0..(Trials - 1)]
  <2>1. breaker.halfOpen \/ breaker.hold = 0 <=> breaker.hold = 0
    BY DEF GatewayInv, TrialsAlone
  <2> QED
    BY <1>4, <1>5, <2>1
<1>7. GatewayTypes'
  BY <1>3, <1>4, <1>6 DEF GatewayTypes, HoldTime
<1>8. breaker.hold = 0 => InFlight = {}
  BY <1>5 DEF GatewayInv, TrialsAlone
<1>9. TrialsAlone'
  BY <1>2, <1>3, <1>4, <1>6, <1>8 DEF GatewayInv, TrialsAlone
<1>10. HoldOutlasts'
  BY <1>2, <1>3, <1>4, <1>5, <1>6 DEF GatewayInv, HoldOutlasts
<1>11. BudgetsSuffice'
  <2>1. SUFFICES ASSUME NEW b \in Buckets, breaker.hold = 0
                 PROVE  /\ \A g \in InFlight' : flight'[g].at # "asking"
                        /\ budget[b] + 0 + breaker.successes >= Trials
    BY <1>4, <1>5, <1>6 DEF BudgetsSuffice
  <2>2. \A g \in InFlight' : flight'[g].at # "asking"
    BY <1>2, <1>3, <1>8, <2>1
  <2> QED
    BY <1>8, <2>1, <2>2 DEF GatewayInv, BudgetsSuffice
<1> QED
  BY <1>7, <1>9, <1>10, <1>11 DEF GatewayInv

LEMMA FlightIsCharged ==
  ASSUME GatewayInv, NEW f \in Flights, Charges(f)
  PROVE  GatewayInv'
<1> DEFINE w == [at |-> "asking", scope |-> flight[f].scope, age |-> flight[f].age, trial |-> flight[f].trial]
<1>1. /\ breaker \in [hold : -1..HoldTime, halfOpen : BOOLEAN, successes : 0..(Trials - 1)]
      /\ budget \in [Buckets -> Nat] /\ breaker' = breaker /\ Minute \in Nat \ {0} /\ Trials \in Nat \ {0}
      /\ flight[f] \in [at : {"none", "admitted", "asking"}, scope : Scopes, age : Nat, trial : BOOLEAN]
      /\ flight[f].at = "admitted" /\ f \in InFlight /\ InFlight \subseteq Flights
  BY GatewayAssumption DEF GatewayInv, GatewayTypes, InFlight, Charges
<1>2. /\ w \in [at : {"none", "admitted", "asking"}, scope : Scopes, age : Nat, trial : BOOLEAN]
      /\ w.at = "asking" /\ w.age = flight[f].age /\ w.trial = flight[f].trial
      /\ flight' = [flight EXCEPT ![f] = w]
  <2>1. flight' = [flight EXCEPT ![f] = [flight[f] EXCEPT !.at = "asking"]]
    BY DEF Charges, Proceeds, GatewayInv, GatewayTypes
  <2>2. [flight[f] EXCEPT !.at = "asking"] = w
    BY <1>1
  <2> QED
    BY <1>1, <2>1, <2>2
<1> HIDE DEF w
<1>3. /\ flight' \in [Flights -> [at : {"none", "admitted", "asking"}, scope : Scopes, age : Nat, trial : BOOLEAN]]
      /\ flight'[f] = w /\ (\A g \in Flights \ {f} : flight'[g] = flight[g])
      /\ InFlight' = InFlight
  <2>1. InFlight' = InFlight \cup {f} /\ flight'[f] = w /\ (\A g \in Flights \ {f} : flight'[g] = flight[g])
        /\ flight' \in [Flights -> [at : {"none", "admitted", "asking"}, scope : Scopes, age : Nat, trial : BOOLEAN]]
    BY <1>2, FlightMoves DEF GatewayInv
  <2> QED
    BY <1>1, <2>1
<1>4. \A b \in Buckets : budget'[b] = budget[b] \/ (budget'[b] = budget[b] - 1 /\ budget[b] >= 1)
  BY DEF Charges
<1>5. budget' \in [Buckets -> Nat]
  <2>1. budget' = [b \in Buckets |-> IF b \in Charged(f) THEN budget[b] - 1 ELSE budget[b]]
    BY DEF Charges
  <2>2. \A b \in Buckets : (IF b \in Charged(f) THEN budget[b] - 1 ELSE budget[b]) \in Nat
    BY <1>1 DEF Charges
  <2> QED
    BY <2>1, <2>2
<1>6. GatewayTypes' /\ TrialsAlone' /\ Elapsed' = Elapsed
  BY <1>1, <1>2, <1>3, <1>5 DEF GatewayInv, GatewayTypes, TrialsAlone, HoldTime, Elapsed
<1>7. HoldOutlasts'
  <2>1. \A g \in InFlight : /\ flight'[g].age = flight[g].age
                            /\ flight'[g].at = "admitted" => flight[g].at = "admitted"
    BY <1>1, <1>2, <1>3
  <2> QED
    BY <1>1, <1>3, <1>6, <2>1 DEF GatewayInv, HoldOutlasts
<1>8. BudgetsSuffice'
  <2>1. SUFFICES ASSUME NEW b \in Buckets
                 PROVE  /\ breaker.hold > 0 => budget'[b] >= Elapsed * Rate(b)
                        /\ breaker.hold = 0 => budget'[b] + 1 + breaker.successes >= Trials
    <3>1. \E g \in InFlight' : flight'[g].at = "asking"
      BY <1>1, <1>2, <1>3
    <3> QED
      BY <1>1, <1>6, <2>1, <3>1 DEF BudgetsSuffice
  <2>2. Rate(b) \in Nat /\ budget'[b] \in Nat /\ budget[b] \in Nat
    BY <1>1, <1>5, Capacities
  <2>3. ASSUME breaker.hold > 0 PROVE budget'[b] >= Elapsed * Rate(b)
    <3>1. Elapsed = 0
      BY <1>1, <2>3 DEF GatewayInv, HoldOutlasts
    <3> QED
      BY <2>2, <3>1
  <2>4. ASSUME breaker.hold = 0 PROVE budget'[b] + 1 + breaker.successes >= Trials
    <3>1. ~\E g \in InFlight : flight[g].at = "asking"
      BY <1>1, <2>4 DEF GatewayInv, TrialsAlone
    <3>2. budget[b] + 0 + breaker.successes >= Trials
      BY <2>4, <3>1 DEF GatewayInv, BudgetsSuffice
    <3> QED
      BY <1>1, <1>4, <2>2, <3>2
  <2> QED
    BY <2>3, <2>4
<1> QED
  BY <1>6, <1>7, <1>8 DEF GatewayInv

LEMMA TimeKeeps ==
  ASSUME GatewayInv, TimePasses
  PROVE  GatewayInv'
<1>1. /\ breaker \in [hold : -1..HoldTime, halfOpen : BOOLEAN, successes : 0..(Trials - 1)]
      /\ budget \in [Buckets -> Nat] /\ InFlight \subseteq Flights
      /\ flight \in [Flights -> [at : {"none", "admitted", "asking"}, scope : Scopes, age : Nat, trial : BOOLEAN]]
      /\ Minute \in Nat \ {0} /\ Trials \in Nat \ {0} /\ Patience \in Nat /\ Patience < 2 * Minute /\ HoldTime = 2 * Minute
  BY GatewayAssumption DEF GatewayInv, GatewayTypes, HoldTime, InFlight
<1>2. /\ breaker' = [breaker EXCEPT !.hold = IF breaker.hold > 0 THEN breaker.hold - 1 ELSE breaker.hold]
      /\ budget' = [b \in Buckets |-> Refilled(b)]
      /\ flight' = [f \in Flights |-> IF flight[f].at = "none" THEN flight[f]
                                      ELSE [flight[f] EXCEPT !.age = flight[f].age + 1]]
      /\ \A f \in InFlight : flight[f].at = "asking" /\ flight[f].age < Patience
  BY <1>1 DEF TimePasses, InFlight
<1>3. /\ breaker'.hold = IF breaker.hold > 0 THEN breaker.hold - 1 ELSE breaker.hold
      /\ breaker'.halfOpen = breaker.halfOpen /\ breaker'.successes = breaker.successes
      /\ breaker' \in [hold : -1..HoldTime, halfOpen : BOOLEAN, successes : 0..(Trials - 1)]
  <2>1. (IF breaker.hold > 0 THEN breaker.hold - 1 ELSE breaker.hold) \in -1..HoldTime
    BY <1>1
  <2> QED
    BY <1>1, <1>2, <2>1
<1>4. ASSUME NEW f \in Flights
      PROVE  /\ flight'[f] \in [at : {"none", "admitted", "asking"}, scope : Scopes, age : Nat, trial : BOOLEAN]
             /\ flight'[f].at = flight[f].at /\ flight'[f].trial = flight[f].trial
             /\ flight[f].at # "none" => flight'[f].age = flight[f].age + 1
  <2>1. flight[f] \in [at : {"none", "admitted", "asking"}, scope : Scopes, age : Nat, trial : BOOLEAN]
    BY <1>1
  <2>2. CASE flight[f].at = "none"
    BY <1>2, <2>1, <2>2
  <2>3. CASE flight[f].at # "none"
    <3>1. flight'[f] = [flight[f] EXCEPT !.age = flight[f].age + 1]
      BY <1>2, <2>3
    <3> QED
      BY <2>1, <2>3, <3>1
  <2> QED
    BY <2>2, <2>3
<1>5. InFlight' = InFlight /\ \A f \in InFlight : flight'[f].age = flight[f].age + 1 /\ flight[f].age \in Nat
  BY <1>1, <1>4 DEF InFlight
<1>6. flight' \in [Flights -> [at : {"none", "admitted", "asking"}, scope : Scopes, age : Nat, trial : BOOLEAN]]
  <2>1. flight' = [f \in Flights |-> flight'[f]]
    BY <1>2
  <2> QED
    BY <1>4, <2>1
<1>7. budget' \in [Buckets -> Nat] /\ \A b \in Buckets : budget'[b] = Refilled(b) /\ budget[b] \in Nat
  BY <1>1, <1>2, Refilling
<1>8. GatewayTypes'
  BY <1>3, <1>6, <1>7 DEF GatewayTypes, HoldTime
\* The hold does not end before the flights that it found.
<1>9. breaker.hold > 0 /\ breaker'.hold = 0 => InFlight = {}
  <2>1. SUFFICES ASSUME breaker.hold = 1, NEW f \in InFlight PROVE FALSE
    BY <1>1, <1>3
  <2>2. Elapsed <= flight[f].age /\ flight[f].age < Patience
    BY <1>2, <2>1 DEF GatewayInv, HoldOutlasts
  <2> QED
    BY <1>1, <1>5, <2>1, <2>2 DEF Elapsed
<1>10. TrialsAlone'
  <2>1. breaker'.halfOpen => breaker'.hold = 0
    BY <1>1, <1>3 DEF GatewayInv, TrialsAlone
  <2>2. \A f \in InFlight' : flight'[f].trial <=> breaker'.hold = 0
    BY <1>1, <1>3, <1>4, <1>5, <1>9 DEF GatewayInv, TrialsAlone
  <2>3. breaker'.hold = 0 => /\ \A f, g \in InFlight' : f = g
                             /\ breaker'.halfOpen <=> InFlight' # {}
    <3>1. CASE breaker.hold > 0
      BY <1>3, <1>5, <1>9, <3>1 DEF GatewayInv, TrialsAlone
    <3>2. CASE ~(breaker.hold > 0)
      BY <1>1, <1>3, <1>5, <3>2 DEF GatewayInv, TrialsAlone
    <3> QED
      BY <3>1, <3>2
  <2> QED
    BY <2>1, <2>2, <2>3 DEF TrialsAlone
<1>11. breaker.hold > 0 => Elapsed' = Elapsed + 1 /\ Elapsed \in Nat
  BY <1>1, <1>3 DEF Elapsed, HoldTime
<1>12. HoldOutlasts'
  <2>1. \A f \in InFlight' : flight'[f].age <= Patience /\ flight'[f].at # "admitted"
    BY <1>1, <1>2, <1>4, <1>5
  <2>2. breaker'.hold > 0 => breaker.hold > 0
    BY <1>1, <1>3
  <2>3. breaker'.hold > 0 => \A f \in InFlight' : Elapsed' <= flight'[f].age
    BY <1>5, <1>11, <2>2 DEF GatewayInv, HoldOutlasts
  <2> QED
    BY <2>1, <2>3 DEF HoldOutlasts
<1>13. BudgetsSuffice'
  <2>1. SUFFICES ASSUME NEW b \in Buckets
                 PROVE  /\ breaker'.hold > 0 => budget'[b] >= Capacity(b) \/ budget'[b] >= Elapsed' * Rate(b)
                        /\ breaker'.hold = 0 =>
                             budget'[b] + (IF \E f \in InFlight' : flight'[f].at = "asking" THEN 1 ELSE 0)
                               + breaker'.successes >= Trials
    BY DEF BudgetsSuffice
  <2>2. /\ Capacity(b) \in Nat /\ Capacity(b) >= Trials /\ Rate(b) \in Nat /\ Capacity(b) = Minute * Rate(b)
        /\ budget[b] \in Nat /\ budget'[b] \in Nat /\ breaker.successes \in Nat
    BY <1>1, <1>7, Capacities
  <2>3. /\ budget'[b] = Capacity(b) \/ budget'[b] = budget[b] + Rate(b)
        /\ budget[b] >= Capacity(b) => budget'[b] = Capacity(b)
    BY <1>7, Refilling
  <2>4. ASSUME breaker.hold > 0 PROVE budget'[b] >= Capacity(b) \/ budget'[b] >= Elapsed' * Rate(b)
    <3>1. budget[b] >= Capacity(b) \/ budget[b] >= Elapsed * Rate(b)
      BY <2>4 DEF GatewayInv, BudgetsSuffice
    <3>2. (Elapsed + 1) * Rate(b) = Elapsed * Rate(b) + Rate(b) /\ Elapsed * Rate(b) \in Nat
      BY <1>11, <2>2, <2>4
    <3> QED
      BY <1>11, <2>2, <2>3, <2>4, <3>1, <3>2
  <2>5. CASE breaker.hold > 0 /\ breaker'.hold = 0
    <3>1. Elapsed' = 2 * Minute
      BY <1>1, <2>5 DEF Elapsed, HoldTime
    <3>2. Elapsed' * Rate(b) >= Minute * Rate(b)
      BY <1>1, <2>2, <3>1
    <3>3. budget'[b] >= Capacity(b)
      BY <1>1, <2>2, <2>4, <2>5, <3>1, <3>2
    <3> QED
      BY <1>1, <1>3, <2>2, <2>5, <3>3
  <2>6. CASE breaker.hold = 0
    <3>1. budget[b] + (IF \E f \in InFlight : flight[f].at = "asking" THEN 1 ELSE 0) + breaker.successes >= Trials
      BY <2>6 DEF GatewayInv, BudgetsSuffice
    <3>2. (\E f \in InFlight' : flight'[f].at = "asking") <=> (\E f \in InFlight : flight[f].at = "asking")
      BY <1>1, <1>4, <1>5
    <3>3. breaker'.hold = 0
      BY <1>3, <2>6
    <3> QED
      BY <1>1, <1>3, <2>2, <2>3, <2>6, <3>1, <3>2, <3>3
  <2> QED
    BY <1>1, <1>3, <2>4, <2>5, <2>6
<1> QED
  BY <1>8, <1>10, <1>12, <1>13 DEF GatewayInv

LEMMA GatewayKept ==
  ASSUME GatewayInv, [GatewayNext]_gatewayVars
  PROVE  GatewayInv'
<1>1. ASSUME NEW f \in Flights,
             Begins(f) \/ Charges(f) \/ IsRefused(f) \/ IsAnswered(f) \/ IsRejected(f) \/ FlightFails(f)
      PROVE  GatewayInv'
  BY <1>1, FlightBegins, FlightIsCharged, FlightEnds
<1>2. ASSUME UNCHANGED <<breaker, budget, flight>> PROVE GatewayInv'
  BY <1>2 DEF GatewayInv, GatewayTypes, TrialsAlone, HoldOutlasts, BudgetsSuffice, InFlight, Elapsed, HoldTime
<1> QED
  BY <1>1, <1>2, TimeKeeps DEF GatewayNext, AnswerExpires, gatewayVars

\* Half open, the breaker waits for the answer of one flight, which is under way; and
\* while the egress is tried nothing else is, whatever was under way when it was closed.
THEOREM TrialsAlwaysAnswered == GatewaySpec => []TrialsAreAnswered
<1>1. GatewayInit => GatewayInv
  <2>1. SUFFICES ASSUME GatewayInit PROVE GatewayInv
    OBVIOUS
  <2>2. InFlight = {}
    BY <2>1 DEF GatewayInit, InFlight, NoFlight
  <2>3. \A b \in Buckets : Capacity(b) \in Nat
    BY Capacities
  <2>4. GatewayTypes
    BY <2>1, <2>3, GatewayAssumption DEF GatewayInit, GatewayTypes, NoFlight, Scopes, Unheld, HoldTime
  <2>5. breaker.hold = -1 /\ ~breaker.halfOpen
    BY <2>1 DEF GatewayInit, Unheld
  <2> QED
    BY <2>2, <2>4, <2>5 DEF GatewayInv, TrialsAlone, HoldOutlasts, BudgetsSuffice
<1>2. GatewayInv /\ [GatewayNext]_gatewayVars => GatewayInv'
  BY GatewayKept
<1>3. GatewayInv => TrialsAreAnswered
  <2>1. SUFFICES ASSUME GatewayInv PROVE TrialsAreAnswered
    OBVIOUS
  <2>2. breaker.halfOpen <=> \E f \in InFlight : flight[f].trial
    BY <2>1 DEF GatewayInv, TrialsAlone
  <2>3. ASSUME breaker.hold = 0 PROVE Cardinality(InFlight) <= 1
    <3>1. CASE InFlight = {}
      BY <3>1, FS_EmptySet
    <3>2. CASE InFlight # {}
      <4>1. PICK f : f \in InFlight
        BY <3>2
      <4>2. InFlight = {f}
        BY <2>1, <2>3, <4>1 DEF GatewayInv, TrialsAlone
      <4> QED
        BY <4>2, FS_Singleton
    <3> QED
      BY <3>1, <3>2
  <2> QED
    BY <2>2, <2>3 DEF TrialsAreAnswered
<1> QED
  BY <1>1, <1>2, <1>3, PTL DEF GatewaySpec

-----------------------------------------------------------------------------
(***************************************************************************)
(* The service's credential (ServiceCredential).  One Replace at a time is *)
(* behind the lock of the identity: its authorization stays valid, the     *)
(* version that it has written stays the next one, and the code that it    *)
(* took is no credential's yet, because it was open until it was consumed. *)
(***************************************************************************)
Stages == {"idle", "asks", "upstream", "stored", "checks", "begun", "reserves", "writes", "written", "failed", "commits"}
QRCodes == [ended : {"new", "open", "refused", "consumed", "forgotten", "expired"}, cookies : BOOLEAN,
            polling : BOOLEAN, consuming : BOOLEAN, cancel : Requests \cup {NoOne}]
RequestRecords == [at : Stages, code : Codes \cup {NoOne}, by : Confirmed \cup {NoOne}, cancelled : BOOLEAN,
                   version : Nat]
CredentialRows == [version : Nat, active : BOOLEAN, code : Codes, by : Confirmed]

CredentialTypes ==
  /\ code \in [Codes -> QRCodes] /\ request \in [Requests -> RequestRecords]
  /\ spent \in [Confirmed -> {"new", "valid", "overdue", "consumed"}]
  /\ credentials \in Seq(CredentialRows)
  /\ \A q \in Codes : code[q].ended = "new" => ~code[q].polling /\ ~code[q].consuming
  /\ \A r \in Requests : request[r].at # "idle" => request[r].code \in Codes
  /\ \A r \in Requests : request[r].at = "begun" => request[r].by \in Confirmed
  /\ \A r \in Requests : request[r].at \notin {"idle", "asks", "upstream", "stored", "checks"} => r \in Replacers

\* Past the lock of the identity.
HasIdentity(r) == request[r].at \notin {"idle", "begun"}

OneReplaces ==
  /\ \A r, s \in Replacers : HasIdentity(r) /\ HasIdentity(s) => r = s
  /\ \A r \in Replacers : HasIdentity(r) =>
       /\ request[r].by \in Confirmed /\ spent[request[r].by] = "valid"
       /\ request[r].at \in {"written", "commits"} => request[r].version = Len(credentials) + 1
       /\ request[r].at = "commits" => /\ code[request[r].code].ended = "consumed"
                                       /\ \A n \in DOMAIN credentials : credentials[n].code # request[r].code

SpentBy == {credentials[n].by : n \in DOMAIN credentials}

CredentialRowsAreWhole ==
  /\ \A n \in DOMAIN credentials :
       /\ credentials[n].version = n
       /\ credentials[n].active <=> n = Len(credentials)
       /\ code[credentials[n].code].ended = "consumed"
       /\ \A m \in DOMAIN credentials : m # n => credentials[m].code # credentials[n].code
  /\ {a \in Confirmed : spent[a] = "consumed"} = SpentBy
  /\ IsFiniteSet(SpentBy) /\ Cardinality(SpentBy) = Len(credentials)

\* Who holds a code will give it back.
Held(q) ==
  Open(q) =>
    /\ code[q].polling => \E r \in Requests : request[r].code = q /\ request[r].at \in {"upstream", "stored"}
    /\ code[q].consuming => \E r \in Replacers :
         request[r].code = q /\ request[r].at \in {"writes", "written", "failed"}

CredentialInv ==
  /\ CredentialTypes /\ OneReplaces /\ CredentialRowsAreWhole /\ \A q \in Codes : Held(q)

SameRequest(r) ==
  /\ request'[r].at = request[r].at /\ request'[r].code = request[r].code
  /\ request'[r].by = request[r].by /\ request'[r].version = request[r].version

\* A section of r under the adapter's mutex, or a statement, about the code q.
SectionOf(r, q) ==
  /\ code' \in [Codes -> QRCodes] /\ \A x \in Codes \ {q} : code'[x] = code[x]
  /\ IF code[q].ended = "open" THEN code'[q].ended # "new" ELSE code'[q] = code[q]
  /\ request' \in [Requests -> RequestRecords] /\ \A s \in Requests \ {r} : SameRequest(s)
  /\ request'[r].at # "idle" => /\ request'[r].code = request[r].code /\ request'[r].by = request[r].by
                                /\ (request'[r].at = "begun" <=> request[r].at = "begun") /\ request[r].at # "idle"
  /\ request'[r].at \notin {"idle", "asks", "upstream", "stored", "checks"} => r \in Replacers
  /\ request'[r].at \in {"written", "commits"} =>
       request'[r].version = Len(credentials) + 1 \/ (request[r].at = "written" /\ request'[r].version = request[r].version)
  /\ request'[r].at = "commits" => code[q].ended = "open" /\ code'[q].ended = "consumed" /\ request[r].code = q
  /\ UNCHANGED <<spent, credentials, closed>>

LEMMA HeldStays ==
  ASSUME NEW q \in Codes, Held(q), code'[q] = code[q], UNCHANGED closed,
         \A s \in Requests : request[s].code = q => request'[s].at = request[s].at /\ request'[s].code = request[s].code
  PROVE  Held(q)'
BY DEF Held, Open, Requests

LEMMA RowsStay ==
  ASSUME CredentialInv, UNCHANGED <<spent, credentials>>,
         \A q \in Codes : code[q].ended = "consumed" => code'[q].ended = "consumed"
  PROVE  CredentialRowsAreWhole'
<1>1. SpentBy' = SpentBy
  BY DEF SpentBy
<1>2. \A n \in DOMAIN credentials : credentials[n].code \in Codes
  <2>1. \A n \in DOMAIN credentials : credentials[n] \in CredentialRows
    BY DEF CredentialInv, CredentialTypes
  <2> QED
    BY <2>1 DEF CredentialRows
<1> QED
  BY <1>1, <1>2 DEF CredentialInv, CredentialRowsAreWhole

LEMMA SectionKeeps ==
  ASSUME CredentialInv, NEW r \in Requests, NEW q \in Codes, request[r].code = q, SectionOf(r, q), Held(q)'
  PROVE  CredentialInv'
<1>1. \A x \in Codes : code[x].ended = "consumed" => code'[x].ended = "consumed"
  BY DEF SectionOf
<1>2. CredentialRowsAreWhole'
  BY <1>1, RowsStay DEF SectionOf
<1>3. \A x \in Codes : Held(x)'
  <2>1. SUFFICES ASSUME NEW x \in Codes, x # q PROVE Held(x)'
    OBVIOUS
  <2>2. \A s \in Requests : request[s].code = x => request'[s].at = request[s].at /\ request'[s].code = request[s].code
    BY <2>1 DEF SectionOf, SameRequest
  <2> QED
    BY <2>1, <2>2, HeldStays DEF CredentialInv, SectionOf
<1>4. CredentialTypes'
  BY DEF CredentialInv, CredentialTypes, SectionOf, SameRequest
<1>5. \A s \in Requests : HasIdentity(s)' => HasIdentity(s) /\ request'[s].by = request[s].by
                                             /\ request'[s].code = request[s].code
  BY DEF SectionOf, SameRequest, HasIdentity
<1>6. ASSUME NEW s \in Replacers, HasIdentity(s)'
      PROVE  /\ request'[s].by \in Confirmed /\ spent'[request'[s].by] = "valid"
             /\ request'[s].at \in {"written", "commits"} => request'[s].version = Len(credentials') + 1
             /\ request'[s].at = "commits" =>
                  /\ code'[request'[s].code].ended = "consumed"
                  /\ \A n \in DOMAIN credentials' : credentials'[n].code # request'[s].code
  <2>1. s \in Requests /\ HasIdentity(s) /\ request'[s].by = request[s].by /\ request'[s].code = request[s].code
    BY <1>5, <1>6 DEF Requests
  <2>2. spent' = spent /\ credentials' = credentials
    BY DEF SectionOf
  <2>3. request'[s].by \in Confirmed /\ spent'[request'[s].by] = "valid"
    BY <2>1, <2>2 DEF CredentialInv, OneReplaces
  <2>4. request'[s].at \in {"written", "commits"} => request'[s].version = Len(credentials') + 1
    BY <2>1, <2>2 DEF CredentialInv, OneReplaces, SectionOf, SameRequest
  <2>5. ASSUME request'[s].at = "commits"
        PROVE  /\ code'[request'[s].code].ended = "consumed"
               /\ \A n \in DOMAIN credentials' : credentials'[n].code # request'[s].code
    <3>1. CASE s # r
      <4>1. request[s].at = "commits" /\ request[s].code \in Codes
        BY <2>1, <2>5, <3>1 DEF SectionOf, SameRequest, CredentialInv, CredentialTypes
      <4> QED
        BY <1>1, <2>1, <2>2, <4>1 DEF CredentialInv, OneReplaces
    <3>2. CASE s = r
      BY <2>1, <2>2, <2>5, <3>2 DEF CredentialInv, CredentialRowsAreWhole, SectionOf
    <3> QED
      BY <3>1, <3>2
  <2> QED
    BY <2>3, <2>4, <2>5
<1>7. OneReplaces'
  <2>1. \A x, y \in Replacers : HasIdentity(x)' /\ HasIdentity(y)' => x = y
    BY <1>5 DEF CredentialInv, OneReplaces, Requests
  <2> QED
    BY <1>6, <2>1 DEF OneReplaces
<1> QED
  BY <1>2, <1>3, <1>4, <1>7 DEF CredentialInv

LEMMA RequestMoves ==
  ASSUME CredentialTypes, NEW r \in Requests, NEW to \in Stages, Moves(r, to)
  PROVE  /\ request' \in [Requests -> RequestRecords] /\ \A s \in Requests \ {r} : SameRequest(s)
         /\ request'[r].at = to /\ request'[r].code = request[r].code /\ request'[r].by = request[r].by
         /\ request'[r].version = request[r].version
<1>1. PICK w \in RequestRecords : /\ w = [request[r] EXCEPT !.at = to] /\ w.at = to /\ w.code = request[r].code
                                  /\ w.by = request[r].by /\ w.version = request[r].version
  <2>1. PICK v \in RequestRecords : v = request[r]
    BY DEF CredentialTypes
  <2>2. /\ [v EXCEPT !.at = to] \in RequestRecords /\ [v EXCEPT !.at = to].at = to
        /\ [v EXCEPT !.at = to].code = v.code /\ [v EXCEPT !.at = to].by = v.by
        /\ [v EXCEPT !.at = to].version = v.version
    BY DEF RequestRecords
  <2> QED
    BY <2>1, <2>2
<1>2. request' = [request EXCEPT ![r] = w]
  BY <1>1 DEF Moves
<1> QED
  BY <1>1, <1>2 DEF CredentialTypes, SameRequest

LEMMA RequestReturns ==
  ASSUME CredentialTypes, NEW r \in Requests, Returns(r)
  PROVE  /\ request' \in [Requests -> RequestRecords] /\ \A s \in Requests \ {r} : SameRequest(s)
         /\ request'[r].at = "idle" /\ request'[r].code = NoOne
<1>1. PICK w \in RequestRecords : w = NoRequest /\ w.at = "idle" /\ w.code = NoOne
  <2>1. NoRequest \in RequestRecords /\ NoRequest.at = "idle" /\ NoRequest.code = NoOne
    BY DEF NoRequest, RequestRecords, Stages
  <2> QED
    BY <2>1
<1>2. request' = [request EXCEPT ![r] = w]
  BY <1>1 DEF Returns
<1> QED
  BY <1>1, <1>2 DEF CredentialTypes, SameRequest

LEMMA CodeTurns ==
  ASSUME CredentialTypes, NEW q \in Codes, NEW w \in QRCodes, code' = [code EXCEPT ![q] = w]
  PROVE  code' \in [Codes -> QRCodes] /\ code'[q] = w /\ \A x \in Codes \ {q} : code'[x] = code[x]
BY DEF CredentialTypes

LEMMA PollingTurns ==
  ASSUME CredentialTypes, NEW q \in Codes, NEW r \in Requests \cup {NoOne}, NEW b \in BOOLEAN,
         code' = [code EXCEPT ![q].polling = b, ![q].cancel = r]
  PROVE  /\ code' \in [Codes -> QRCodes] /\ \A x \in Codes \ {q} : code'[x] = code[x]
         /\ code'[q].ended = code[q].ended /\ code'[q].consuming = code[q].consuming /\ code'[q].polling = b
<1>1. PICK v \in QRCodes : v = code[q]
  BY DEF CredentialTypes
<1> DEFINE w == [v EXCEPT !.polling = b, !.cancel = r]
<1>2. w \in QRCodes /\ w.ended = v.ended /\ w.consuming = v.consuming /\ w.polling = b
  BY DEF QRCodes
<1>3. code' = [code EXCEPT ![q] = w]
  BY <1>1 DEF CredentialTypes
<1> HIDE DEF w
<1> QED
  BY <1>1, <1>2, <1>3, CodeTurns

LEMMA ConsumingTurns ==
  ASSUME CredentialTypes, NEW q \in Codes, NEW r \in Requests \cup {NoOne}, NEW b \in BOOLEAN,
         code' = [code EXCEPT ![q].consuming = b, ![q].cancel = r]
  PROVE  /\ code' \in [Codes -> QRCodes] /\ \A x \in Codes \ {q} : code'[x] = code[x]
         /\ code'[q].ended = code[q].ended /\ code'[q].consuming = b /\ code'[q].polling = code[q].polling
<1>1. PICK v \in QRCodes : v = code[q]
  BY DEF CredentialTypes
<1> DEFINE w == [v EXCEPT !.consuming = b, !.cancel = r]
<1>2. w \in QRCodes /\ w.ended = v.ended /\ w.consuming = b /\ w.polling = v.polling
  BY DEF QRCodes
<1>3. code' = [code EXCEPT ![q] = w]
  BY <1>1 DEF CredentialTypes
<1> HIDE DEF w
<1> QED
  BY <1>1, <1>2, <1>3, CodeTurns

LEMMA CookiesAreStored ==
  ASSUME CredentialTypes, NEW q \in Codes, code' = [code EXCEPT ![q].cookies = TRUE]
  PROVE  /\ code' \in [Codes -> QRCodes] /\ \A x \in Codes \ {q} : code'[x] = code[x]
         /\ code'[q].ended = code[q].ended /\ code'[q].consuming = code[q].consuming
         /\ code'[q].polling = code[q].polling
<1>1. PICK v \in QRCodes : v = code[q]
  BY DEF CredentialTypes
<1> DEFINE w == [v EXCEPT !.cookies = TRUE]
<1>2. w \in QRCodes /\ w.ended = v.ended /\ w.consuming = v.consuming /\ w.polling = v.polling
  BY DEF QRCodes
<1>3. code' = [code EXCEPT ![q] = w]
  BY <1>1 DEF CredentialTypes
<1> HIDE DEF w
<1> QED
  BY <1>1, <1>2, <1>3, CodeTurns

LEMMA CodeIsReleased ==
  ASSUME CredentialTypes, NEW q \in Codes, code' = Released(q)
  PROVE  /\ code' \in [Codes -> QRCodes] /\ \A x \in Codes \ {q} : code'[x] = code[x]
         /\ code'[q].ended = code[q].ended /\ code'[q].consuming = code[q].consuming
         /\ IF code[q].ended = "open" THEN ~code'[q].polling ELSE code'[q] = code[q]
<1>1. CASE code[q].ended = "open"
  BY <1>1, PollingTurns DEF Released
<1>2. CASE code[q].ended # "open"
  BY <1>2 DEF Released, CredentialTypes
<1> QED
  BY <1>1, <1>2

LEMMA CodeIsOver ==
  ASSUME NEW cause \in {"refused", "consumed", "forgotten", "expired"}
  PROVE  [NewCode EXCEPT !.ended = cause] \in QRCodes /\ [NewCode EXCEPT !.ended = cause].ended = cause
BY DEF NewCode, QRCodes

\* The sections of a poll.
LEMMA PollSections ==
  ASSUME CredentialInv, NEW r \in Requests,
         Asks(r) \/ StaysUnverified(r) \/ IsScanned(r) \/ FinishesPoll(r) \/ ChecksCode(r)
  PROVE  CredentialInv'
<1>1. PICK q \in Codes :
      /\ q = request[r].code /\ CredentialTypes /\ UNCHANGED <<spent, credentials, closed>> /\ Held(q)
      /\ request[r].at \in {"asks", "upstream", "stored", "checks"} /\ code[q] \in QRCodes
  BY DEF CredentialInv, CredentialTypes, Asks, StaysUnverified, IsScanned, FinishesPoll, ChecksCode
<1>2. ASSUME code' \in [Codes -> QRCodes], \A x \in Codes \ {q} : code'[x] = code[x], code'[q].ended = code[q].ended,
             code[q].ended # "open" => code'[q] = code[q],
             \/ Returns(r)
             \/ \E to \in {"upstream", "stored", "checks"} : Moves(r, to)
             \/ r \in Replacers /\ Moves(r, "reserves")
      PROVE  SectionOf(r, q)
  <2>1. CASE Returns(r)
    BY <1>1, <1>2, <2>1, RequestReturns DEF SectionOf
  <2>2. ASSUME NEW to \in {"upstream", "stored", "checks", "reserves"}, Moves(r, to), to = "reserves" => r \in Replacers
        PROVE  SectionOf(r, q)
    <3>1. to \in Stages
      BY DEF Stages
    <3> QED
      BY <1>1, <1>2, <2>2, <3>1, RequestMoves DEF SectionOf
  <2> QED
    BY <1>2, <2>1, <2>2
<1>3. ASSUME code' = code, Returns(r) \/ (r \in Replacers /\ Moves(r, "reserves")),
             request[r].at \notin {"upstream", "stored"} \/ ~Open(q)
      PROVE  CredentialInv'
  <2>1. SectionOf(r, q)
    BY <1>1, <1>2, <1>3 DEF CredentialTypes
  <2>2. Held(q)'
    BY <1>1, <1>3, <2>1 DEF SectionOf, SameRequest, Held, Open, Requests
  <2> QED
    BY <1>1, <2>1, <2>2, SectionKeeps
<1>4. CASE (Asks(r) /\ UNCHANGED code /\ (IsVerified(r) \/ Returns(r))) \/ ChecksCode(r)
  <2>1. code' = code /\ (Returns(r) \/ (r \in Replacers /\ Moves(r, "reserves"))) /\ request[r].at \in {"asks", "checks"}
    BY <1>1, <1>4 DEF Asks, ChecksCode, IsVerified
  <2> QED
    BY <1>3, <2>1
<1>5. CASE Asks(r) /\ ~(UNCHANGED code /\ (IsVerified(r) \/ Returns(r)))
  <2>1. /\ Open(q) /\ ~code[q].consuming /\ Moves(r, "upstream")
        /\ code' \in [Codes -> QRCodes] /\ \A x \in Codes \ {q} : code'[x] = code[x]
        /\ code'[q].ended = code[q].ended /\ code'[q].consuming = code[q].consuming
    BY <1>1, <1>5, PollingTurns DEF Asks
  <2>2. SectionOf(r, q)
    BY <1>2, <2>1 DEF Open
  <2>3. request'[r].code = q /\ request'[r].at = "upstream"
    BY <1>1, <2>1, RequestMoves DEF Stages
  <2>4. Held(q)'
    BY <2>1, <2>3 DEF Held
  <2> QED
    BY <1>1, <2>2, <2>4, SectionKeeps
<1>6. CASE StaysUnverified(r) \/ FinishesPoll(r)
  <2>1. /\ Returns(r) \/ Moves(r, "checks")
        /\ code' \in [Codes -> QRCodes] /\ \A x \in Codes \ {q} : code'[x] = code[x]
        /\ code'[q].ended = code[q].ended /\ code'[q].consuming = code[q].consuming
        /\ IF code[q].ended = "open" THEN ~code'[q].polling ELSE code'[q] = code[q]
    BY <1>1, <1>6, CodeIsReleased DEF StaysUnverified, FinishesPoll
  <2>2. SectionOf(r, q)
    BY <1>2, <2>1
  <2>3. \A s \in Replacers : request[s].at \in {"writes", "written", "failed"} =>
          request'[s].at = request[s].at /\ request'[s].code = request[s].code
    BY <1>6, <2>2 DEF StaysUnverified, FinishesPoll, SectionOf, SameRequest, Requests
  <2>4. Held(q)'
    BY <1>1, <2>1, <2>3 DEF Held, Open
  <2> QED
    BY <1>1, <2>2, <2>4, SectionKeeps
<1>7. CASE IsScanned(r) /\ Open(q)
  <2>1. /\ Moves(r, "stored") /\ request[r].at = "upstream"
        /\ code' \in [Codes -> QRCodes] /\ \A x \in Codes \ {q} : code'[x] = code[x]
        /\ code'[q].ended = code[q].ended /\ code'[q].consuming = code[q].consuming
    BY <1>1, <1>7, CookiesAreStored DEF IsScanned
  <2>2. SectionOf(r, q)
    BY <1>2, <1>7, <2>1 DEF Open
  <2>3. request'[r].code = q /\ request'[r].at = "stored"
    BY <1>1, <2>1, RequestMoves DEF Stages
  <2>4. \A s \in Replacers : request[s].at \in {"writes", "written", "failed"} =>
          request'[s].at = request[s].at /\ request'[s].code = request[s].code
    BY <2>1, <2>2 DEF SectionOf, SameRequest, Requests
  <2>5. Held(q)'
    BY <1>1, <2>1, <2>3, <2>4 DEF Held, Open
  <2> QED
    BY <1>1, <2>2, <2>5, SectionKeeps
<1>8. CASE IsScanned(r) /\ ~Open(q)
  BY <1>1, <1>3, <1>8 DEF IsScanned
<1> QED
  BY <1>4, <1>5, <1>6, <1>7, <1>8

\* The sections of Replace, until it commits.
LEMMA ReplaceSections ==
  ASSUME CredentialInv, NEW r \in Requests,
         Reserves(r) \/ WritesCredential(r) \/ WritingFails(r) \/ EndsConsumption(r) \/ CommitOfCredentialFails(r)
  PROVE  CredentialInv'
<1>1. PICK q \in Codes :
      /\ q = request[r].code /\ CredentialTypes /\ UNCHANGED <<spent, credentials, closed>> /\ Held(q)
      /\ request[r].at \in {"reserves", "writes", "written", "failed", "commits"} /\ code[q] \in QRCodes
      /\ r \in Replacers /\ code \in [Codes -> QRCodes]
      /\ \A s \in Replacers \ {r} : ~HasIdentity(s)
  BY DEF CredentialInv, CredentialTypes, OneReplaces, HasIdentity, Reserves, WritesCredential, WritingFails,
         EndsConsumption, CommitOfCredentialFails
<1>2. ASSUME code' \in [Codes -> QRCodes], \A x \in Codes \ {q} : code'[x] = code[x],
             code[q].ended # "open" => code'[q] = code[q], code'[q].ended \in {code[q].ended, "consumed"},
             \/ Returns(r)
             \/ Moves(r, "writes") \/ Moves(r, "failed")
             \/ Moves(r, "commits") /\ request[r].at = "written" /\ code[q].ended = "open" /\ code'[q].ended = "consumed"
      PROVE  SectionOf(r, q)
  <2>1. CASE Returns(r)
    BY <1>1, <1>2, <2>1, RequestReturns DEF SectionOf
  <2>2. ASSUME NEW to \in {"writes", "failed"}, Moves(r, to) PROVE SectionOf(r, q)
    <3>1. to \in Stages
      BY DEF Stages
    <3> QED
      BY <1>1, <1>2, <2>2, <3>1, RequestMoves DEF SectionOf
  <2>3. ASSUME Moves(r, "commits"), request[r].at = "written", code[q].ended = "open", code'[q].ended = "consumed"
        PROVE  SectionOf(r, q)
    <3>1. "commits" \in Stages
      BY DEF Stages
    <3> QED
      BY <1>1, <1>2, <2>3, <3>1, RequestMoves DEF SectionOf
  <2> QED
    BY <1>2, <2>1, <2>2, <2>3
\* Nobody else is between the poll and the end of the consumption.
<1>3. ASSUME code'[q].polling = code[q].polling, code'[q].ended = code[q].ended,
             code'[q].consuming => request'[r].at \in {"writes", "written", "failed"},
             SectionOf(r, q), request'[r].at # "idle" \/ request[r].at \notin {"upstream", "stored"}
      PROVE  Held(q)'
  <2>1. \A s \in Requests : request[s].at \in {"upstream", "stored"} =>
          request'[s].at = request[s].at /\ request'[s].code = request[s].code
    BY <1>1, <1>3 DEF SectionOf, SameRequest
  <2>2. request'[r].at # "idle" => request'[r].code = q
    BY <1>1, <1>3 DEF SectionOf
  <2> QED
    BY <1>1, <1>3, <2>1, <2>2 DEF Held, Open, SectionOf
<1>4. ASSUME UNCHANGED code, Returns(r), ~Open(q) \/ ~code[q].consuming PROVE CredentialInv'
  <2>1. SectionOf(r, q)
    BY <1>1, <1>2, <1>4
  <2>2. Held(q)'
    BY <1>1, <1>3, <1>4, <2>1 DEF Held, Open, SectionOf
  <2> QED
    BY <1>1, <2>1, <2>2, SectionKeeps
<1>5. CASE Reserves(r)
  <2>1. CASE Moves(r, "writes") /\ ~Returns(r)
    <3>1. /\ Open(q)
          /\ code' \in [Codes -> QRCodes] /\ \A x \in Codes \ {q} : code'[x] = code[x]
          /\ code'[q].ended = code[q].ended /\ code'[q].polling = code[q].polling
      BY <1>1, <1>5, <2>1, ConsumingTurns DEF Reserves
    <3>2. SectionOf(r, q)
      BY <1>2, <2>1, <3>1 DEF Open
    <3>3. request'[r].at = "writes"
      BY <1>1, <2>1, RequestMoves DEF Stages
    <3> QED
      BY <1>1, <1>3, <3>1, <3>2, <3>3, SectionKeeps
  <2>2. CASE Returns(r)
    <3>1. request'[r].at = "idle"
      BY <1>1, <2>2, RequestReturns
    <3>2. ~Moves(r, "writes")
      BY <1>1, <3>1, RequestMoves DEF Stages
    <3>3. UNCHANGED code /\ ~(Open(q) /\ ~code[q].consuming /\ code[q].cookies)
      BY <1>1, <1>5, <3>2 DEF Reserves
    <3>4. SectionOf(r, q)
      BY <1>1, <1>2, <2>2, <3>3
    <3>5. Held(q)'
      BY <1>1, <1>5, <3>3, <3>4 DEF Held, Open, SectionOf, SameRequest, Requests, Reserves
    <3> QED
      BY <1>1, <3>4, <3>5, SectionKeeps
  <2> QED
    BY <1>5, <2>1, <2>2 DEF Reserves
<1>6. CASE WritesCredential(r)
  <2>1. PICK w \in RequestRecords : /\ request' = [request EXCEPT ![r] = w] /\ w.at = "written" /\ w.code = q
                                    /\ w.by = request[r].by /\ w.version = Len(credentials) + 1
    <3>1. PICK v \in RequestRecords : v = request[r]
      BY DEF CredentialInv, CredentialTypes
    <3>2. Len(credentials) + 1 \in Nat
      BY <1>1 DEF CredentialTypes
    <3> DEFINE w == [v EXCEPT !.at = "written", !.version = Len(credentials) + 1]
    <3>3. /\ w \in RequestRecords /\ w.at = "written" /\ w.code = v.code
          /\ w.by = v.by /\ w.version = Len(credentials) + 1
      BY <3>2 DEF RequestRecords, Stages
    <3>4. request' = [request EXCEPT ![r] = w]
      BY <1>1, <1>6, <3>1 DEF WritesCredential, CredentialTypes
    <3> HIDE DEF w
    <3> QED
      BY <1>1, <3>1, <3>3, <3>4
  <2>2. /\ request' \in [Requests -> RequestRecords] /\ request'[r] = w
        /\ \A s \in Requests \ {r} : SameRequest(s)
    BY <1>1, <2>1 DEF CredentialTypes, SameRequest
  <2>3. code' = code /\ request[r].at = "writes"
    BY <1>6 DEF WritesCredential
  <2>4. SectionOf(r, q)
    BY <1>1, <2>1, <2>2, <2>3 DEF SectionOf
  <2>5. Held(q)'
    BY <1>1, <1>3, <2>1, <2>2, <2>3, <2>4
  <2> QED
    BY <1>1, <2>4, <2>5, SectionKeeps
<1>7. CASE WritingFails(r)
  <2>1. code' = code /\ Moves(r, "failed")
    BY <1>7 DEF WritingFails
  <2>2. SectionOf(r, q)
    BY <1>1, <1>2, <2>1
  <2>3. request'[r].at = "failed"
    BY <1>1, <2>1, RequestMoves DEF Stages
  <2> QED
    BY <1>1, <1>3, <2>1, <2>2, <2>3, SectionKeeps
<1>8. CASE EndsConsumption(r)
  <2>1. CASE ~Open(q)
    BY <1>1, <1>4, <1>8, <2>1 DEF EndsConsumption, StillExpected
  <2>2. CASE Open(q) /\ request[r].at = "failed"
    <3>1. /\ Returns(r) /\ code' \in [Codes -> QRCodes] /\ \A x \in Codes \ {q} : code'[x] = code[x]
          /\ code'[q].ended = code[q].ended /\ code'[q].polling = code[q].polling /\ ~code'[q].consuming
      BY <1>1, <1>8, <2>2, ConsumingTurns DEF EndsConsumption, StillExpected
    <3>2. SectionOf(r, q)
      BY <1>2, <2>2, <3>1 DEF Open
    <3> QED
      BY <1>1, <1>3, <2>2, <3>1, <3>2, SectionKeeps
  <2>3. CASE Open(q) /\ request[r].at # "failed"
    <3>1. /\ request[r].at = "written" /\ code[q].ended = "open" /\ Moves(r, "commits")
          /\ code' = [code EXCEPT ![request[r].code] = [NewCode EXCEPT !.ended = "consumed"]]
      BY <1>1, <1>8, <2>3 DEF EndsConsumption, StillExpected, Open
    <3>2. PICK w \in QRCodes : w = [NewCode EXCEPT !.ended = "consumed"] /\ w.ended = "consumed"
      BY CodeIsOver
    <3>3. /\ code' \in [Codes -> QRCodes] /\ code'[q].ended = "consumed"
          /\ \A x \in Codes \ {q} : code'[x] = code[x]
      BY <1>1, <3>1, <3>2
    <3>4. SectionOf(r, q)
      BY <1>2, <3>1, <3>3
    <3>5. Held(q)'
      BY <3>3 DEF Held, Open
    <3> QED
      BY <1>1, <3>4, <3>5, SectionKeeps
  <2> QED
    BY <2>1, <2>2, <2>3
<1>9. CASE CommitOfCredentialFails(r)
  <2>1. ~Open(q)
    BY <1>1, <1>9 DEF CommitOfCredentialFails, CredentialInv, OneReplaces, HasIdentity, Open
  <2> QED
    BY <1>1, <1>4, <1>9, <2>1 DEF CommitOfCredentialFails
<1> QED
  BY <1>5, <1>6, <1>7, <1>8, <1>9

LEMMA RequestStarts ==
  ASSUME CredentialInv, NEW r \in Requests, StartsPolling(r) \/ BeginsReplacing(r)
  PROVE  CredentialInv'
<1>1. /\ CredentialTypes /\ UNCHANGED <<code, spent, credentials, closed>> /\ request[r].at = "idle"
  BY DEF CredentialInv, StartsPolling, BeginsReplacing
<1>2. PICK w \in RequestRecords : /\ request' = [request EXCEPT ![r] = w] /\ w.code \in Codes
                                  /\ \/ w.at = "asks" /\ r \in Pollers
                                     \/ w.at = "begun" /\ w.by \in Confirmed /\ r \in Replacers
  <2>1. CASE StartsPolling(r)
    <3>1. PICK q \in Codes : request' = [request EXCEPT ![r] = [NoRequest EXCEPT !.at = "asks", !.code = q]]
      BY <2>1 DEF StartsPolling
    <3> DEFINE w == [NoRequest EXCEPT !.at = "asks", !.code = q]
    <3>2. w \in RequestRecords /\ w.code = q /\ w.at = "asks"
      BY DEF NoRequest, RequestRecords, Stages
    <3>3. request' = [request EXCEPT ![r] = w]
      BY <3>1
    <3> HIDE DEF w
    <3> QED
      BY <2>1, <3>2, <3>3 DEF StartsPolling
  <2>2. CASE BeginsReplacing(r)
    <3>1. PICK q \in Codes, a \in Confirmed :
            request' = [request EXCEPT ![r] = [NoRequest EXCEPT !.at = "begun", !.code = q, !.by = a]]
      BY <2>2 DEF BeginsReplacing
    <3> DEFINE w == [NoRequest EXCEPT !.at = "begun", !.code = q, !.by = a]
    <3>2. w \in RequestRecords /\ w.code = q /\ w.at = "begun" /\ w.by = a
      BY DEF NoRequest, RequestRecords, Stages
    <3>3. request' = [request EXCEPT ![r] = w]
      BY <3>1
    <3> HIDE DEF w
    <3> QED
      BY <2>2, <3>2, <3>3 DEF BeginsReplacing
  <2> QED
    BY <2>1, <2>2
<1>3. request' \in [Requests -> RequestRecords] /\ request'[r] = w /\ \A s \in Requests \ {r} : request'[s] = request[s]
  BY <1>1, <1>2 DEF CredentialTypes
<1>4. CredentialTypes'
  BY <1>1, <1>2, <1>3 DEF CredentialTypes
<1>5. CredentialRowsAreWhole'
  BY <1>1, RowsStay
<1>6. \A s \in Replacers : HasIdentity(s)' => s # r /\ request'[s] = request[s] /\ HasIdentity(s)
  BY <1>2, <1>3, CredentialAssumption DEF HasIdentity, Requests
<1>7. OneReplaces'
  BY <1>1, <1>6 DEF CredentialInv, OneReplaces
<1>8. ASSUME NEW q \in Codes PROVE Held(q)'
  BY <1>1, <1>3 DEF CredentialInv, Held, Open, Requests
<1> QED
  BY <1>4, <1>5, <1>7, <1>8 DEF CredentialInv

LEMMA IdentityIsLocked ==
  ASSUME CredentialInv, NEW r \in Requests, ConsumesOperation(r)
  PROVE  CredentialInv'
<1>1. /\ CredentialTypes /\ UNCHANGED <<code, spent, credentials, closed>> /\ request[r].at = "begun" /\ IdentityIsFree
      /\ r \in Replacers /\ request[r].code \in Codes
  BY DEF CredentialInv, CredentialTypes, ConsumesOperation
<1>2. CASE Returns(r)
  <2>1. PICK q \in Codes : q = request[r].code
    BY <1>1
  <2>2. SectionOf(r, q)
    BY <1>1, <1>2, RequestReturns DEF SectionOf, CredentialTypes
  <2>3. Held(q)'
    BY <1>1, <1>2, RequestReturns DEF CredentialInv, Held, Open, Requests, SameRequest
  <2> QED
    BY <2>1, <2>2, <2>3, SectionKeeps
<1>3. CASE spent[request[r].by] = "valid" /\ Moves(r, "asks")
  <2>1. /\ request' \in [Requests -> RequestRecords] /\ \A s \in Requests \ {r} : SameRequest(s)
        /\ request'[r].at = "asks" /\ request'[r].code = request[r].code /\ request'[r].by = request[r].by
    BY <1>1, <1>3, RequestMoves DEF Stages
  <2>2. CredentialTypes'
    BY <1>1, <2>1 DEF CredentialTypes, SameRequest
  <2>3. CredentialRowsAreWhole'
    BY <1>1, RowsStay
  <2>4. \A s \in Replacers : HasIdentity(s)' => s = r
    BY <1>1, <2>1 DEF IdentityIsFree, HasIdentity, SameRequest, Requests
  <2>5. request[r].by \in Confirmed
    BY <1>1, <1>3 DEF CredentialTypes, RequestRecords
  <2>6. OneReplaces'
    BY <1>1, <1>3, <2>1, <2>4, <2>5 DEF OneReplaces
  <2>7. ASSUME NEW q \in Codes PROVE Held(q)'
    BY <1>1, <2>1 DEF CredentialInv, Held, Open, Requests, SameRequest
  <2> QED
    BY <2>2, <2>3, <2>6, <2>7 DEF CredentialInv
<1> QED
  BY <1>2, <1>3 DEF ConsumesOperation

\* Only spent, or whether the administrator is logged in, changes; nothing becomes consumed.
LEMMA AuthorizationChanges ==
  ASSUME CredentialInv,
         SessionEnds \/ \E a \in Confirmed : Authorizes(a) \/ AuthorizationExpires(a)
  PROVE  CredentialInv'
<1>1. UNCHANGED <<code, credentials, request, closed>>
  BY DEF SessionEnds, Authorizes, AuthorizationExpires
<1>2. /\ spent' \in [Confirmed -> {"new", "valid", "overdue", "consumed"}]
      /\ \A a \in Confirmed : spent'[a] = "consumed" <=> spent[a] = "consumed"
      /\ \A r \in Replacers : HasIdentity(r) => spent'[request[r].by] = "valid"
  <2>1. CASE SessionEnds
    BY <2>1 DEF SessionEnds, CredentialInv, CredentialTypes, OneReplaces
  <2>2. ASSUME NEW a \in Confirmed, Authorizes(a) \/ AuthorizationExpires(a) PROVE <1>2
    <3>1. PICK v \in {"valid", "overdue"} : spent' = [spent EXCEPT ![a] = v] /\ spent[a] # "consumed"
      BY <2>2 DEF Authorizes, Authorizable, AuthorizationExpires
    <3>2. ASSUME NEW r \in Replacers, HasIdentity(r) PROVE request[r].by # a
      BY <2>2, <3>2 DEF Authorizes, Authorizable, AuthorizationExpires, HasIdentity, CredentialInv, OneReplaces
    <3> QED
      BY <3>1, <3>2 DEF CredentialInv, CredentialTypes, OneReplaces
  <2> QED
    BY <2>1, <2>2 DEF CredentialInv
<1>3. CredentialTypes'
  BY <1>1, <1>2 DEF CredentialInv, CredentialTypes
<1>4. OneReplaces'
  BY <1>1, <1>2 DEF CredentialInv, OneReplaces, HasIdentity
<1>5. SpentBy' = SpentBy /\ {a \in Confirmed : spent[a] = "consumed"}' = {a \in Confirmed : spent[a] = "consumed"}
  BY <1>1, <1>2 DEF SpentBy
<1>6. CredentialRowsAreWhole'
  BY <1>1, <1>5 DEF CredentialInv, CredentialRowsAreWhole
<1>7. ASSUME NEW q \in Codes PROVE Held(q)'
  BY <1>1 DEF CredentialInv, Held, Open
<1> QED
  BY <1>3, <1>4, <1>6, <1>7 DEF CredentialInv

LEMMA CommitKeeps ==
  ASSUME CredentialInv, NEW r \in Requests, CommitsCredential(r)
  PROVE  CredentialInv'
<1> DEFINE a == request[r].by
           e == [version |-> request[r].version, active |-> TRUE, code |-> request[r].code, by |-> a]
           older == [n \in DOMAIN credentials |-> [credentials[n] EXCEPT !.active = FALSE]]
<1>1. /\ r \in Replacers /\ HasIdentity(r) /\ request[r].code \in Codes /\ a \in Confirmed /\ spent[a] = "valid"
      /\ request[r].version = Len(credentials) + 1 /\ code[request[r].code].ended = "consumed"
      /\ \A n \in DOMAIN credentials : credentials[n].code # request[r].code
      /\ CredentialTypes /\ UNCHANGED <<code, closed>> /\ Returns(r)
      /\ \A s \in Replacers \ {r} : ~HasIdentity(s)
  BY DEF CredentialInv, CredentialTypes, OneReplaces, HasIdentity, CommitsCredential
<1>2. /\ credentials \in Seq(CredentialRows) /\ Len(credentials) \in Nat /\ DOMAIN credentials = 1..Len(credentials)
      /\ \A n \in DOMAIN credentials : credentials[n] \in CredentialRows
  BY <1>1 DEF CredentialTypes
<1>3. /\ e \in CredentialRows /\ e.version = Len(credentials) + 1 /\ e.active = TRUE
      /\ e.code = request[r].code /\ e.by = a
  BY <1>1, <1>2 DEF CredentialRows
<1>4. \A v \in CredentialRows : /\ [v EXCEPT !.active = FALSE] \in CredentialRows
                                /\ [v EXCEPT !.active = FALSE].active = FALSE
                                /\ [v EXCEPT !.active = FALSE].version = v.version
                                /\ [v EXCEPT !.active = FALSE].code = v.code
                                /\ [v EXCEPT !.active = FALSE].by = v.by
  BY DEF CredentialRows
<1>5. /\ older \in Seq(CredentialRows) /\ Len(older) = Len(credentials)
      /\ \A n \in DOMAIN credentials :
           /\ older[n].active = FALSE /\ older[n].version = credentials[n].version
           /\ older[n].code = credentials[n].code /\ older[n].by = credentials[n].by
  <2>1. ASSUME NEW n \in 1..Len(credentials)
        PROVE  /\ older[n] \in CredentialRows /\ older[n].active = FALSE /\ older[n].version = credentials[n].version
               /\ older[n].code = credentials[n].code /\ older[n].by = credentials[n].by
    <3>1. PICK v \in CredentialRows : v = credentials[n]
      BY <1>2
    <3>2. older[n] = [v EXCEPT !.active = FALSE]
      BY <1>2, <3>1
    <3> HIDE DEF older
    <3> QED
      BY <1>4, <3>1, <3>2
  <2>2. older = [n \in 1..Len(credentials) |-> older[n]]
    BY <1>2
  <2> HIDE DEF older
  <2>3. older \in Seq(CredentialRows) /\ Len(older) = Len(credentials)
    <3>1. \A n \in 1..Len(credentials) : older[n] \in CredentialRows
      BY <2>1
    <3> QED
      BY <1>2, <2>2, <3>1
  <2> QED
    BY <1>2, <2>1, <2>3
<1>6. credentials' = Append(older, e) /\ spent' = [spent EXCEPT ![a] = "consumed"]
  BY DEF CommitsCredential
<1> HIDE DEF e, older
<1>7. /\ credentials' \in Seq(CredentialRows) /\ Len(credentials') = Len(credentials) + 1
      /\ credentials'[Len(credentials) + 1] = e /\ DOMAIN credentials' = 1..(Len(credentials) + 1)
      /\ \A n \in DOMAIN credentials : credentials'[n] = older[n]
  BY <1>2, <1>3, <1>5, <1>6
<1>8. /\ request' \in [Requests -> RequestRecords] /\ \A s \in Requests \ {r} : SameRequest(s)
      /\ request'[r].at = "idle"
  BY <1>1, RequestReturns
<1>9. spent' \in [Confirmed -> {"new", "valid", "overdue", "consumed"}]
  BY <1>1, <1>6 DEF CredentialTypes
<1>10. CredentialTypes'
  BY <1>1, <1>7, <1>8, <1>9 DEF CredentialTypes, SameRequest
<1>11. OneReplaces'
  <2>1. \A s \in Replacers : ~HasIdentity(s)'
    BY <1>1, <1>8 DEF HasIdentity, SameRequest, Requests
  <2> QED
    BY <2>1 DEF OneReplaces
<1>12. SpentBy' = SpentBy \cup {a} /\ a \notin SpentBy
  <2>1. \A n \in DOMAIN credentials : credentials'[n].by = credentials[n].by
    BY <1>5, <1>7
  <2>2. DOMAIN credentials' = DOMAIN credentials \cup {Len(credentials) + 1}
    BY <1>2, <1>7
  <2>3. credentials'[Len(credentials) + 1].by = a
    BY <1>3, <1>7
  <2>4. SpentBy' = SpentBy \cup {a}
    BY <2>1, <2>2, <2>3 DEF SpentBy
  <2>5. a \notin SpentBy
    BY <1>1 DEF CredentialInv, CredentialRowsAreWhole
  <2> QED
    BY <2>4, <2>5
<1>13. IsFiniteSet(SpentBy') /\ Cardinality(SpentBy') = Len(credentials')
  <2>1. IsFiniteSet(SpentBy) /\ Cardinality(SpentBy) = Len(credentials)
    BY DEF CredentialInv, CredentialRowsAreWhole
  <2> QED
    BY <1>7, <1>12, <2>1, FS_AddElement
<1>14. {x \in Confirmed : spent'[x] = "consumed"} = {x \in Confirmed : spent[x] = "consumed"} \cup {a}
  BY <1>1, <1>6 DEF CredentialTypes
<1>15. {x \in Confirmed : spent'[x] = "consumed"} = SpentBy'
  BY <1>12, <1>14 DEF CredentialInv, CredentialRowsAreWhole
<1>16. ASSUME NEW n \in DOMAIN credentials'
       PROVE  /\ credentials'[n].version = n
              /\ credentials'[n].active <=> n = Len(credentials')
              /\ code'[credentials'[n].code].ended = "consumed"
              /\ \A m \in DOMAIN credentials' : m # n => credentials'[m].code # credentials'[n].code
  <2>1. \A m \in DOMAIN credentials : /\ credentials'[m].code = credentials[m].code
                                      /\ credentials[m].code # request[r].code
    BY <1>1, <1>5, <1>7
  <2>2. CASE n = Len(credentials) + 1
    BY <1>1, <1>2, <1>3, <1>7, <2>1, <2>2
  <2>3. CASE n \in DOMAIN credentials
    <3>1. /\ credentials'[n].version = n /\ credentials'[n].active = FALSE /\ n # Len(credentials')
          /\ code'[credentials'[n].code].ended = "consumed"
      BY <1>1, <1>2, <1>5, <1>7, <2>3 DEF CredentialInv, CredentialRowsAreWhole
    <3>2. ASSUME NEW m \in DOMAIN credentials', m # n PROVE credentials'[m].code # credentials'[n].code
      <4>1. CASE m \in DOMAIN credentials
        BY <2>1, <2>3, <3>2, <4>1 DEF CredentialInv, CredentialRowsAreWhole
      <4>2. CASE m = Len(credentials) + 1
        BY <1>3, <1>7, <2>1, <2>3, <4>2
      <4> QED
        BY <1>2, <1>7, <4>1, <4>2
    <3> QED
      BY <3>1, <3>2
  <2> QED
    BY <1>2, <1>7, <2>2, <2>3
<1>17. CredentialRowsAreWhole'
  BY <1>13, <1>15, <1>16 DEF CredentialRowsAreWhole
<1>18. ASSUME NEW q \in Codes PROVE Held(q)'
  <2>1. SUFFICES ASSUME Open(q), code'[q] = code[q] PROVE Held(q)'
    BY <1>1 DEF Held, Open
  <2>2. request[r].code # q
    BY <1>1, <2>1 DEF Open
  <2>3. \A s \in Requests : request[s].code = q => request'[s].at = request[s].at /\ request'[s].code = request[s].code
    BY <1>8, <2>2 DEF SameRequest
  <2> QED
    BY <1>1, <2>1, <2>3, HeldStays DEF CredentialInv
<1> QED
  BY <1>10, <1>11, <1>17, <1>18 DEF CredentialInv

\* Codes begin or end, and with them the requests that hold them are cancelled.
LEMMA CodesEnd ==
  ASSUME CredentialInv, code' \in [Codes -> QRCodes], request' \in [Requests -> RequestRecords],
         UNCHANGED <<spent, credentials>>,
         \A r \in Requests : SameRequest(r) \/ request'[r].at = "idle",
         \A q \in Codes : code[q].ended = "consumed" => code'[q].ended = "consumed",
         \A q \in Codes : code'[q].ended = "new" => code'[q] = code[q],
         \A q \in Codes : \/ ~Open(q)' \/ (~code'[q].polling /\ ~code'[q].consuming)
                          \/ /\ Open(q) /\ code'[q] = code[q]
                             /\ \A r \in Requests : request[r].code = q => SameRequest(r)
  PROVE  CredentialInv'
<1>1. CredentialTypes'
  BY DEF CredentialInv, CredentialTypes, SameRequest
<1>2. CredentialRowsAreWhole'
  BY RowsStay
<1>3. \A r \in Replacers : HasIdentity(r)' => HasIdentity(r) /\ SameRequest(r) /\ request[r].code \in Codes
  BY DEF HasIdentity, SameRequest, Requests, CredentialInv, CredentialTypes
<1>4. OneReplaces'
  BY <1>3 DEF CredentialInv, OneReplaces, SameRequest
<1>5. ASSUME NEW q \in Codes PROVE Held(q)'
  <2>1. CASE Open(q) /\ code'[q] = code[q] /\ \A r \in Requests : request[r].code = q => SameRequest(r)
    BY <2>1 DEF CredentialInv, Held, SameRequest, Requests
  <2>2. CASE ~Open(q)' \/ (~code'[q].polling /\ ~code'[q].consuming)
    BY <2>2 DEF Held
  <2> QED
    BY <2>1, <2>2
<1> QED
  BY <1>1, <1>2, <1>4, <1>5 DEF CredentialInv

\* The requests of which some are cancelled, and one may have returned.
LEMMA CancelledRequest ==
  ASSUME NEW v \in RequestRecords, NEW b \in BOOLEAN
  PROVE  /\ [v EXCEPT !.cancelled = b] \in RequestRecords /\ [v EXCEPT !.cancelled = b].at = v.at
         /\ [v EXCEPT !.cancelled = b].code = v.code /\ [v EXCEPT !.cancelled = b].by = v.by
         /\ [v EXCEPT !.cancelled = b].version = v.version
BY DEF RequestRecords

LEMMA DestroyedCode ==
  ASSUME CredentialInv, NEW q \in Codes, NEW cause \in {"refused", "forgotten", "expired"},
         NEW others \in [Requests -> RequestRecords], Destroys(q, cause, others), code[q].ended = "open",
         UNCHANGED <<spent, credentials, closed>>,
         \A r \in Requests : others[r] = request[r] \/ (others[r].at = "idle" /\ request[r].code = q)
  PROVE  CredentialInv'
<1>1. PICK w \in QRCodes : w = [NewCode EXCEPT !.ended = cause] /\ w.ended = cause
  BY CodeIsOver
<1>2. code' \in [Codes -> QRCodes] /\ code'[q] = w /\ \A x \in Codes \ {q} : code'[x] = code[x]
  BY <1>1, CodeTurns DEF CredentialInv, Destroys
<1>3. ASSUME NEW r \in Requests
      PROVE  /\ request'[r] \in RequestRecords
             /\ request'[r].at = others[r].at /\ request'[r].code = others[r].code
             /\ request'[r].by = others[r].by /\ request'[r].version = others[r].version
  <2>1. CASE r = code[q].cancel
    <3>1. request'[r] = [others[r] EXCEPT !.cancelled = others[r].at # "idle"]
      BY <2>1 DEF Destroys
    <3>2. PICK v \in RequestRecords, b \in BOOLEAN : v = others[r] /\ b = (others[r].at # "idle")
      OBVIOUS
    <3> QED
      BY <3>1, <3>2, CancelledRequest
  <2>2. CASE r # code[q].cancel
    BY <2>2 DEF Destroys
  <2> QED
    BY <2>1, <2>2
<1>4. request' \in [Requests -> RequestRecords]
  BY <1>3 DEF Destroys
<1>5. \A r \in Requests : SameRequest(r) \/ (request'[r].at = "idle" /\ request[r].code = q)
  BY <1>3 DEF SameRequest
<1>6. ASSUME NEW x \in Codes
      PROVE  \/ ~Open(x)' \/ (~code'[x].polling /\ ~code'[x].consuming)
             \/ /\ Open(x) /\ code'[x] = code[x] /\ \A r \in Requests : request[r].code = x => SameRequest(r)
  <2>1. CASE x = q
    BY <1>1, <1>2, <2>1 DEF Open
  <2>2. CASE x # q
    BY <1>2, <1>5, <2>2 DEF Open
  <2> QED
    BY <2>1, <2>2
<1>7. \A x \in Codes : code[x].ended = "consumed" => code'[x].ended = "consumed"
  BY <1>2
<1>8. \A x \in Codes : code'[x].ended = "new" => code'[x] = code[x]
  BY <1>1, <1>2
<1> QED
  BY <1>2, <1>4, <1>5, <1>6, <1>7, <1>8, CodesEnd

LEMMA UpstreamEndsCode ==
  ASSUME CredentialInv, NEW r \in Requests, UpstreamRefuses(r)
  PROVE  CredentialInv'
<1>1. PICK q \in Codes : q = request[r].code /\ CredentialTypes /\ request[r].at = "upstream"
  BY DEF CredentialInv, CredentialTypes, UpstreamRefuses
<1>2. UNCHANGED <<spent, credentials, closed>>
  BY DEF UpstreamRefuses
<1>3. CASE code[q].ended = "open"
  <2>1. PICK others : others = Returned(r)
    OBVIOUS
  <2>2. NoRequest \in RequestRecords /\ NoRequest.at = "idle"
    BY DEF NoRequest, RequestRecords, Stages
  <2>3. others = [request EXCEPT ![r] = NoRequest]
    BY <2>1 DEF Returned
  <2> HIDE DEF NoRequest
  <2>4. /\ others \in [Requests -> RequestRecords] /\ others[r].at = "idle"
        /\ \A s \in Requests \ {r} : others[s] = request[s]
    BY <1>1, <2>2, <2>3 DEF CredentialTypes
  <2>5. Destroys(q, "refused", others)
    BY <1>1, <1>3, <2>1 DEF UpstreamRefuses
  <2> QED
    BY <1>1, <1>2, <1>3, <2>4, <2>5, DestroyedCode
<1>4. CASE code[q].ended # "open"
  <2>1. Returns(r) /\ UNCHANGED code
    BY <1>1, <1>4 DEF UpstreamRefuses
  <2>2. SectionOf(r, q)
    BY <1>1, <1>2, <2>1, RequestReturns DEF SectionOf, CredentialTypes
  <2>3. Held(q)'
    BY <1>4, <2>1 DEF Held, Open
  <2> QED
    BY <1>1, <2>2, <2>3, SectionKeeps
<1> QED
  BY <1>3, <1>4

LEMMA CodeSteps ==
  ASSUME CredentialInv, \/ \E q \in Codes : ShowsCode(q) \/ CodeEnds(q)
                        \/ AdapterCloses \/ ServiceRestarts
  PROVE  CredentialInv'
<1>1. CredentialTypes
  BY DEF CredentialInv
<1>2. ASSUME NEW q \in Codes, ShowsCode(q) PROVE CredentialInv'
  <2>1. PICK w \in QRCodes : /\ w = [code[q] EXCEPT !.ended = "open"] /\ w.ended = "open"
                             /\ w.polling = code[q].polling /\ w.consuming = code[q].consuming
    <3>1. PICK v \in QRCodes : v = code[q]
      BY <1>1 DEF CredentialTypes
    <3>2. /\ [v EXCEPT !.ended = "open"] \in QRCodes /\ [v EXCEPT !.ended = "open"].ended = "open"
          /\ [v EXCEPT !.ended = "open"].polling = v.polling /\ [v EXCEPT !.ended = "open"].consuming = v.consuming
      BY DEF QRCodes
    <3> QED
      BY <3>1, <3>2
  <2>2. code' = [code EXCEPT ![q] = w] /\ code[q].ended = "new"
    BY <1>1, <1>2, <2>1 DEF ShowsCode, CredentialTypes
  <2>3. code' \in [Codes -> QRCodes] /\ code'[q] = w /\ \A x \in Codes \ {q} : code'[x] = code[x]
    BY <1>1, <2>2, CodeTurns
  <2>4. UNCHANGED <<spent, credentials, request, closed>> /\ ~closed
    BY <1>2 DEF ShowsCode
  <2>5. \A r \in Requests : SameRequest(r)
    BY <2>4 DEF SameRequest
  <2>6. ~code'[q].polling /\ ~code'[q].consuming
    BY <1>1, <2>1, <2>2, <2>3 DEF CredentialTypes
  <2>7. \A x \in Codes \ {q} : Open(x)' => Open(x) /\ code'[x] = code[x]
    BY <2>3, <2>4 DEF Open
  <2> QED
    BY <1>1, <2>1, <2>2, <2>3, <2>4, <2>5, <2>6, <2>7, CodesEnd DEF CredentialTypes
<1>3. ASSUME NEW q \in Codes, CodeEnds(q) PROVE CredentialInv'
  <2>1. PICK cause \in {"forgotten", "expired"} : Destroys(q, cause, request)
    BY <1>3 DEF CodeEnds
  <2> QED
    BY <1>1, <1>3, <2>1, DestroyedCode DEF CodeEnds, CredentialTypes
<1>4. ASSUME AdapterCloses \/ ServiceRestarts PROVE CredentialInv'
  <2>1. PICK w \in QRCodes : w = [NewCode EXCEPT !.ended = "forgotten"] /\ w.ended = "forgotten"
    BY CodeIsOver
  <2>2. code' = [q \in Codes |-> IF code[q].ended = "open" THEN w ELSE code[q]]
    BY <1>4, <2>1 DEF AdapterCloses, ServiceRestarts
  <2>3. /\ code' \in [Codes -> QRCodes]
        /\ \A q \in Codes : IF code[q].ended = "open" THEN code'[q] = w ELSE code'[q] = code[q]
    BY <1>1, <2>2 DEF CredentialTypes
  <2>4. UNCHANGED <<spent, credentials>>
    BY <1>4 DEF AdapterCloses, ServiceRestarts
  <2>5. ASSUME NEW r \in Requests
        PROVE  request'[r] \in RequestRecords /\ (SameRequest(r) \/ request'[r].at = "idle")
    <3>1. request[r] \in RequestRecords
      BY <1>1 DEF CredentialTypes
    <3>2. NoRequest \in RequestRecords /\ NoRequest.at = "idle"
      BY DEF NoRequest, RequestRecords, Stages
    <3>3. CASE request'[r] = request[r]
      BY <3>1, <3>3 DEF SameRequest
    <3>4. CASE request'[r] = NoRequest
      BY <3>2, <3>4
    <3>5. CASE request'[r] = [request[r] EXCEPT !.cancelled = TRUE]
      <4>1. PICK v \in RequestRecords : v = request[r]
        BY <3>1
      <4>2. request'[r] = [v EXCEPT !.cancelled = TRUE]
        BY <3>5, <4>1
      <4> QED
        BY <4>1, <4>2, CancelledRequest DEF SameRequest
    <3> HIDE DEF NoRequest
    <3> QED
      BY <1>4, <3>3, <3>4, <3>5 DEF AdapterCloses, ServiceRestarts
  <2>6. request' \in [Requests -> RequestRecords]
    BY <1>4, <2>5 DEF AdapterCloses, ServiceRestarts
  <2>7. \A q \in Codes : ~Open(q)'
    BY <2>1, <2>3 DEF Open
  <2>8. \A q \in Codes : (code[q].ended = "consumed" => code'[q].ended = "consumed")
                          /\ (code'[q].ended = "new" => code'[q] = code[q])
    BY <2>1, <2>3
  <2> QED
    BY <2>3, <2>4, <2>5, <2>6, <2>7, <2>8, CodesEnd
<1> QED
  BY <1>2, <1>3, <1>4

\* Replacing the service's credential: every credential was taken from a code of its own that nobody had given up,
\* for an authorization of its own; the newest is in force; and a code that is polled or consumed has a request
\* that will give it back.
THEOREM ReplacementsAlwaysWhole == CredentialSpec => []ReplacementsAreWhole
<1>1. CredentialInit => CredentialInv
  <2>1. SUFFICES ASSUME CredentialInit PROVE CredentialInv
    OBVIOUS
  <2>2. NewCode \in QRCodes /\ NewCode.ended = "new" /\ ~NewCode.polling /\ ~NewCode.consuming
    BY DEF NewCode, QRCodes
  <2>3. NoRequest \in RequestRecords /\ NoRequest.at = "idle"
    BY DEF NoRequest, RequestRecords, Stages
  <2>4. /\ code = [q \in Codes |-> NewCode] /\ request = [r \in Requests |-> NoRequest]
        /\ spent = [a \in Confirmed |-> "new"] /\ credentials = <<>>
    BY <2>1 DEF CredentialInit
  <2> HIDE DEF NewCode, NoRequest
  <2>5. CredentialTypes
    BY <2>2, <2>3, <2>4 DEF CredentialTypes
  <2>6. OneReplaces
    BY <2>3, <2>4 DEF OneReplaces, HasIdentity, Requests
  <2>7. SpentBy = {} /\ {a \in Confirmed : spent[a] = "consumed"} = {}
    BY <2>4 DEF SpentBy
  <2>8. CredentialRowsAreWhole
    BY <2>4, <2>7, FS_EmptySet DEF CredentialRowsAreWhole
  <2>9. \A q \in Codes : Held(q)
    BY <2>2, <2>4 DEF Held, Open
  <2> QED
    BY <2>5, <2>6, <2>8, <2>9 DEF CredentialInv
<1>2. CredentialInv /\ [CredentialNext]_credentialVars => CredentialInv'
  <2>1. SUFFICES ASSUME CredentialInv, [CredentialNext]_credentialVars PROVE CredentialInv'
    OBVIOUS
  <2>2. CASE UNCHANGED credentialVars
    BY <2>1, <2>2 DEF credentialVars, CredentialInv, CredentialTypes, OneReplaces, HasIdentity,
                      CredentialRowsAreWhole, SpentBy, Held, Open
  <2>3. CASE CredentialNext
    BY <2>1, <2>3, CodeSteps, AuthorizationChanges, RequestStarts, PollSections, UpstreamEndsCode, IdentityIsLocked,
       ReplaceSections, CommitKeeps DEF CredentialNext
  <2> QED
    BY <2>1, <2>2, <2>3
<1>3. CredentialInv => ReplacementsAreWhole
  BY DEF CredentialInv, CredentialRowsAreWhole, SpentBy, Held, ReplacementsAreWhole
<1> QED
  BY <1>1, <1>2, <1>3, PTL DEF CredentialSpec
=============================================================================
