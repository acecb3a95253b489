---------------------------- MODULE Host_proofs ----------------------------
(***************************************************************************)
(* Theorems about Host.  The buttons follow the keys, for every hold time  *)
(* that outlasts the repetition and however many events wait in the        *)
(* terminal's queue.  The sound stays close to the picture locally, and    *)
(* both ways to a device implement SampleStream.                           *)
(***************************************************************************)
EXTENDS Host, SequenceTheorems, WellFoundedInduction, TLAPS

-----------------------------------------------------------------------------
(* The inductive invariant of the keys.                                    *)

KeyKinds == {"Press", "Repeat", "Release"}
Kinds    == KeyKinds \cup {"F5", "F9", "Esc"}

\* A report is about a key, any other event about none.
Events == {e \in [kind : Kinds, key : Keys \cup {NoKey}] : e.kind \in KeyKinds <=> e.key \in Keys}

\* The keyboard repeats a key that is down; a terminal that reports releases
\* arms no timer; between two processes nothing is known of any key.
KeyTypes ==
    /\ has_enhancement \in BOOLEAN /\ heard \in BOOLEAN
    /\ at \in {"input", "tick", "ended"}
    /\ events \in Seq(Events)
    /\ held \subseteq Keys
    /\ repeating # NoKey => repeating \in held
    /\ wait \in 0 .. RepeatFrames
    /\ has_enhancement => DOMAIN timers = {}
    /\ at = "ended" =>
          events = <<>> /\ unsettled = Keys /\ ~heard /\ DOMAIN timers = {}

\* What the queue says last of a key is what the key is.
LastWord(i, q) == \A j \in i + 1 .. Len(q) : q[j].key # q[i].key

LastWordsTrue(q, down) ==
    \A i \in 1 .. Len(q) :
        q[i].key \in Keys /\ LastWord(i, q) =>
            (q[i].kind = "Release" <=> q[i].key \notin down)

ReleaseAbsent(k, q) ==
    \A i \in 1 .. Len(q) : q[i].key = k => q[i].kind # "Release"

QueueInv ==
    IF has_enhancement THEN LastWordsTrue(events, held)
                       ELSE \A k \in Keys : ReleaseAbsent(k, events)

\* The timer of a key that is not reported in the queue has been running for
\* no longer than the keyboard has been silent about it; that of one that is
\* reported survives until the report is taken.
TimerInv ==
    /\ repeating \in DOMAIN timers /\ timers[repeating] \in Int
    /\ Key!Reports(repeating, events) => timers[repeating] >= (IF at = "tick" THEN 2 ELSE 1)
    /\ ~Key!Reports(repeating, events) => timers[repeating] + wait >= HoldFrames

HeardInv ==
    heard =>
        /\ repeating # NoKey /\ repeating \in pressed
        /\ ReleaseAbsent(repeating, events)
        /\ ~has_enhancement => TimerInv

KeyInv == KeyTypes /\ QueueInv /\ HeardInv /\ Key!EnhancedIsExact

-----------------------------------------------------------------------------
(* Sequences.                                                              *)

\* What Append and Tail do to the entries of a sequence.
LEMMA AppendFacts ==
    ASSUME NEW S, NEW s \in Seq(S), NEW e \in S
    PROVE  /\ Append(s, e) \in Seq(S) /\ Len(Append(s, e)) = Len(s) + 1
           /\ \A i \in 1 .. Len(s) : Append(s, e)[i] = s[i]
           /\ Append(s, e)[Len(s) + 1] = e
  OBVIOUS

LEMMA TailFacts ==
    ASSUME NEW S, NEW s \in Seq(S), s # <<>>
    PROVE  /\ Tail(s) \in Seq(S) /\ Len(Tail(s)) = Len(s) - 1 /\ Len(s) \in Nat \ {0}
           /\ Head(s) = s[1] /\ s[1] \in S
           /\ \A i \in 1 .. Len(Tail(s)) : Tail(s)[i] = s[i + 1]
  OBVIOUS

\* A report that arrives, and one that is taken.
LEMMA ReportsAppend ==
    ASSUME NEW s \in Seq(Events), NEW e \in Events, NEW k
    PROVE  Key!Reports(k, Append(s, e)) <=> (Key!Reports(k, s) \/ e.key = k)
  <1>1. /\ Len(Append(s, e)) = Len(s) + 1 /\ Len(s) \in Nat
        /\ \A i \in 1 .. Len(s) : Append(s, e)[i] = s[i]
        /\ Append(s, e)[Len(s) + 1] = e
    BY AppendFacts
  <1>2. \A i \in 1 .. Len(s) + 1 : i \in 1 .. Len(s) \/ i = Len(s) + 1
    BY <1>1
  <1>3. \A i \in 1 .. Len(s) : i \in 1 .. Len(s) + 1
    BY <1>1
  <1>4. Len(s) + 1 \in 1 .. Len(s) + 1
    BY <1>1
  <1> QED
    BY <1>1, <1>2, <1>3, <1>4, Zenon DEF Key!Reports

LEMMA ReportsTail ==
    ASSUME NEW s \in Seq(Events), s # <<>>, NEW k
    PROVE  Key!Reports(k, s) <=> (Key!Reports(k, Tail(s)) \/ Head(s).key = k)
  <1>1. /\ Len(Tail(s)) = Len(s) - 1 /\ Len(s) \in Nat \ {0} /\ Head(s) = s[1]
        /\ \A i \in 1 .. Len(Tail(s)) : Tail(s)[i] = s[i + 1]
    BY TailFacts
  <1>2. ASSUME Key!Reports(k, s)
        PROVE  Key!Reports(k, Tail(s)) \/ Head(s).key = k
    <2>1. PICK i \in 1 .. Len(s) : s[i].key = k
      BY <1>2 DEF Key!Reports
    <2>2. CASE i = 1
      BY <2>1, <2>2, <1>1
    <2>3. CASE i # 1
      <3>1. i - 1 \in 1 .. Len(Tail(s)) /\ (i - 1) + 1 = i
        BY <2>3, <1>1
      <3>2. Tail(s)[i - 1] = s[i]
        BY <3>1, <1>1
      <3> QED
        BY <3>1, <3>2, <2>1 DEF Key!Reports
    <2> QED
      BY <2>2, <2>3
  <1>3. ASSUME Key!Reports(k, Tail(s))
        PROVE  Key!Reports(k, s)
    <2>1. PICK i \in 1 .. Len(Tail(s)) : Tail(s)[i].key = k
      BY <1>3 DEF Key!Reports
    <2>2. i + 1 \in 1 .. Len(s)
      BY <1>1
    <2> QED
      BY <2>1, <2>2, <1>1 DEF Key!Reports
  <1>4. ASSUME Head(s).key = k
        PROVE  Key!Reports(k, s)
    <2>1. 1 \in 1 .. Len(s)
      BY <1>1
    <2> QED
      BY <2>1, <1>1, <1>4 DEF Key!Reports
  <1> QED
    BY <1>2, <1>3, <1>4

\* The queue keeps telling the truth when the key it reports last has just
\* become what the report says, and when its first event is taken.
LEMMA TruthAppend ==
    ASSUME NEW s \in Seq(Events), NEW e \in Events, NEW down, NEW after,
           LastWordsTrue(s, down),
           \A k \in Keys \ {e.key} : k \in down <=> k \in after,
           e.key \in Keys => (e.kind = "Release" <=> e.key \notin after)
    PROVE  LastWordsTrue(Append(s, e), after)
  <1> DEFINE t == Append(s, e)
  <1>1. /\ t \in Seq(Events) /\ Len(t) = Len(s) + 1 /\ Len(s) \in Nat
        /\ \A i \in 1 .. Len(s) : t[i] = s[i]
        /\ t[Len(s) + 1] = e
    BY AppendFacts
  <1> HIDE DEF t
  <1> SUFFICES ASSUME NEW i \in 1 .. Len(t), t[i].key \in Keys, LastWord(i, t)
               PROVE  t[i].kind = "Release" <=> t[i].key \notin after
    BY DEF LastWordsTrue, t
  <1>2. CASE i = Len(s) + 1
    BY <1>1, <1>2
  <1>3. CASE i # Len(s) + 1
    <2>1. i \in 1 .. Len(s) /\ Len(s) + 1 \in i + 1 .. Len(t)
      BY <1>1, <1>3
    <2>2. t[i] = s[i] /\ e.key # s[i].key
      BY <2>1, <1>1 DEF LastWord
    <2>3. \A j \in i + 1 .. Len(s) : j \in i + 1 .. Len(t) /\ t[j] = s[j]
      BY <2>1, <1>1
    <2>4. LastWord(i, s)
      BY <2>2, <2>3 DEF LastWord
    <2>5. s[i].kind = "Release" <=> s[i].key \notin down
      BY <2>1, <2>2, <2>4 DEF LastWordsTrue
    <2> QED
      BY <2>2, <2>5
  <1> QED
    BY <1>2, <1>3

LEMMA TruthTail ==
    ASSUME NEW s \in Seq(Events), s # <<>>, NEW down, LastWordsTrue(s, down)
    PROVE  /\ LastWordsTrue(Tail(s), down)
           /\ Head(s).key \in Keys /\ ~Key!Reports(Head(s).key, Tail(s)) =>
                 (Head(s).kind = "Release" <=> Head(s).key \notin down)
  <1> DEFINE t == Tail(s)
  <1>1. /\ Len(t) = Len(s) - 1 /\ Len(s) \in Nat \ {0} /\ Head(s) = s[1]
        /\ \A i \in 1 .. Len(t) : t[i] = s[i + 1]
    BY TailFacts
  <1> HIDE DEF t
  <1>2. ASSUME NEW i \in 1 .. Len(t), t[i].key \in Keys, LastWord(i, t)
        PROVE  t[i].kind = "Release" <=> t[i].key \notin down
    <2>1. i + 1 \in 1 .. Len(s) /\ t[i] = s[i + 1]
      BY <1>1
    <2>2. ASSUME NEW j \in (i + 1) + 1 .. Len(s)
          PROVE  s[j].key # s[i + 1].key
      <3>1. j - 1 \in i + 1 .. Len(t) /\ j - 1 \in 1 .. Len(t) /\ (j - 1) + 1 = j
        BY <1>1
      <3>2. t[j - 1] = s[j]
        BY <3>1, <1>1
      <3> QED
        BY <3>1, <3>2, <2>1, <1>2 DEF LastWord
    <2>3. LastWord(i + 1, s)
      BY <2>2 DEF LastWord
    <2> QED
      BY <2>1, <2>3, <1>2 DEF LastWordsTrue
  <1>3. ASSUME Head(s).key \in Keys, ~Key!Reports(Head(s).key, t)
        PROVE  Head(s).kind = "Release" <=> Head(s).key \notin down
    <2>1. 1 \in 1 .. Len(s)
      BY <1>1
    <2>2. ASSUME NEW j \in 1 + 1 .. Len(s)
          PROVE  s[j].key # s[1].key
      <3>1. j - 1 \in 1 .. Len(t) /\ (j - 1) + 1 = j
        BY <1>1
      <3>2. t[j - 1] = s[j]
        BY <3>1, <1>1
      <3> QED
        BY <3>1, <3>2, <1>1, <1>3 DEF Key!Reports
    <2>3. LastWord(1, s)
      BY <2>2 DEF LastWord
    <2> QED
      BY <2>1, <2>3, <1>1, <1>3 DEF LastWordsTrue
  <1> QED
    BY <1>2, <1>3 DEF LastWordsTrue, t

\* Releases come in with Append and nowhere else; a queue that does not
\* mention a key does not release it.
LEMMA AbsentAppend ==
    ASSUME NEW s \in Seq(Events), NEW e \in Events, NEW k,
           ReleaseAbsent(k, s), e.key = k => e.kind # "Release"
    PROVE  ReleaseAbsent(k, Append(s, e))
  <1>1. /\ Len(Append(s, e)) = Len(s) + 1 /\ Len(s) \in Nat
        /\ \A i \in 1 .. Len(s) : Append(s, e)[i] = s[i]
        /\ Append(s, e)[Len(s) + 1] = e
    BY AppendFacts
  <1>2. \A i \in 1 .. Len(s) + 1 : i \in 1 .. Len(s) \/ i = Len(s) + 1
    BY <1>1
  <1> QED
    BY <1>1, <1>2, Zenon DEF ReleaseAbsent

LEMMA AbsentTail ==
    ASSUME NEW s \in Seq(Events), s # <<>>, NEW k
    PROVE  /\ ReleaseAbsent(k, s) => ReleaseAbsent(k, Tail(s))
           /\ ReleaseAbsent(k, s) /\ Head(s).key = k => Head(s).kind # "Release"
           /\ ~Key!Reports(k, Tail(s)) => ReleaseAbsent(k, Tail(s))
  <1>1. /\ Len(Tail(s)) = Len(s) - 1 /\ Len(s) \in Nat \ {0} /\ Head(s) = s[1]
        /\ \A i \in 1 .. Len(Tail(s)) : Tail(s)[i] = s[i + 1]
    BY TailFacts
  <1>2. 1 \in 1 .. Len(s) /\ \A i \in 1 .. Len(Tail(s)) : i + 1 \in 1 .. Len(s)
    BY <1>1
  <1> QED
    BY <1>1, <1>2, Zenon DEF ReleaseAbsent, Key!Reports

-----------------------------------------------------------------------------
(* The steps of the keyboard and of the emulator.                          *)

\* Whatever the keyboard reports is an event.
LEMMA EventTypes ==
    ASSUME Key!HoldAssumption
    PROVE  /\ \A k \in Keys, kind \in KeyKinds :
                 /\ Key!Key(kind, k) \in Events
                 /\ Key!Key(kind, k).kind = kind /\ Key!Key(kind, k).key = k
           /\ \A e \in Key!FunctionKeys :
                 e \in Events /\ e.key = NoKey /\ e.kind # "Release"
           /\ NoKey \notin Keys
  <1>1. NoKey \notin Keys
    BY Zenon DEF Key!HoldAssumption
  <1>2. ASSUME NEW k \in Keys, NEW kind \in KeyKinds
        PROVE  /\ Key!Key(kind, k) \in Events
               /\ Key!Key(kind, k).kind = kind /\ Key!Key(kind, k).key = k
    BY <1>2 DEF Key!Key, Events, Kinds, KeyKinds
  <1>3. ASSUME NEW e \in Key!FunctionKeys
        PROVE  e \in Events /\ e.key = NoKey /\ e.kind # "Release"
    <2>1. PICK kind \in {"F5", "F9", "Esc"} : e = [kind |-> kind, key |-> NoKey]
      BY <1>3, Zenon DEF Key!FunctionKeys, Key!Key
    <2> QED
      BY <2>1, <1>1 DEF Events, Kinds, KeyKinds
  <1> QED
    BY <1>1, <1>2, <1>3

LEMMA KeyInit ==
    ASSUME Key!HoldAssumption, Key!Init
    PROVE  KeyInv
  <1>1. events = <<>> /\ events \in Seq(Events) /\ \A i \in 1 .. Len(events) : FALSE
    BY DEF Key!Init
  <1>2. timers = [k \in {} |-> 0] /\ DOMAIN timers = {}
    BY Zenon DEF Key!Init, Key!NoTimers
  <1>3. 0 \in 0 .. RepeatFrames
    BY DEF Key!HoldAssumption
  <1>4. KeyTypes
    BY <1>1, <1>2, <1>3, Zenon DEF KeyTypes, Key!Init
  <1>5. QueueInv /\ HeardInv /\ Key!EnhancedIsExact
    BY <1>1, Zenon DEF QueueInv, LastWordsTrue, ReleaseAbsent, HeardInv, Key!EnhancedIsExact, Key!Init
  <1> QED
    BY <1>4, <1>5 DEF KeyInv

\* What every report does to the queue.
LEMMA ReportStep ==
    ASSUME KeyTypes, NEW e \in Events, Key!Report(e)
    PROVE  /\ events' \in Seq(Events)
           /\ at = "ended" => events' = events
           /\ at # "ended" => events' = Append(events, e)
  BY AppendFacts DEF KeyTypes, Key!Report

\* A report leaves the truth in the queue if the keys but its own stay as they
\* are.
LEMMA ReportQueue ==
    ASSUME KeyTypes, QueueInv, NEW e \in Events, Key!Report(e), at \in {"input", "tick", "ended"},
           UNCHANGED <<has_enhancement, at>>,
           \A k \in Keys \ {e.key} : k \in held <=> k \in held',
           has_enhancement /\ e.key \in Keys => (e.kind = "Release" <=> e.key \notin held'),
           ~has_enhancement => e.kind # "Release"
    PROVE  QueueInv'
  <1>1. CASE at = "ended"
    <2>1. events = <<>> /\ events' = <<>>
      BY <1>1, ReportStep DEF KeyTypes
    <2>2. Len(events') = 0 /\ \A i \in 1 .. Len(events') : FALSE
      BY <2>1
    <2> QED
      BY <2>2, Zenon DEF QueueInv, LastWordsTrue, ReleaseAbsent
  <1>2. CASE at # "ended"
    <2>1. events' = Append(events, e) /\ events \in Seq(Events)
      BY <1>2, ReportStep DEF KeyTypes
    <2>2. CASE has_enhancement
      <3>1. LastWordsTrue(Append(events, e), held')
        BY <2>1, <2>2, TruthAppend DEF QueueInv
      <3>2. LastWordsTrue(events, held)'
        BY <3>1, <2>1, Zenon DEF LastWordsTrue, LastWord
      <3> QED
        BY <2>2, <3>2 DEF QueueInv
    <2>3. CASE ~has_enhancement
      <3>1. \A k \in Keys : ReleaseAbsent(k, Append(events, e))
        BY <2>1, <2>3, AbsentAppend DEF QueueInv
      <3> QED
        BY <2>1, <2>3, <3>1, Zenon DEF QueueInv, ReleaseAbsent
    <2> QED
      BY <2>2, <2>3
  <1> QED
    BY <1>1, <1>2

LEMMA ReportExact ==
    ASSUME KeyTypes, Key!EnhancedIsExact, NEW e \in Events, Key!Report(e),
           has_enhancement' = has_enhancement, at' = at, pressed' = pressed,
           unsettled' = unsettled,
           \A k \in Keys \ {e.key} : k \in held <=> k \in held'
    PROVE  Key!EnhancedIsExact'
  <1> SUFFICES ASSUME has_enhancement', NEW k \in Keys, Key!Settled(k)'
               PROVE  k \in pressed' <=> k \in held'
    BY Zenon DEF Key!EnhancedIsExact
  <1>1. k \notin unsettled /\ ~Key!Reports(k, events')
    BY Zenon DEF Key!Settled
  <1>2. at # "ended" /\ events' = Append(events, e) /\ events \in Seq(Events)
    BY <1>1, ReportStep DEF KeyTypes
  <1>3. ~Key!Reports(k, events) /\ e.key # k
    BY <1>1, <1>2, ReportsAppend
  <1> QED
    BY <1>1, <1>3, Zenon DEF Key!EnhancedIsExact, Key!Settled

LEMMA KeyDownStep ==
    ASSUME Key!HoldAssumption, KeyInv, NEW k \in Keys, Key!KeyDown(k)
    PROVE  KeyInv'
  <1> DEFINE e == Key!Key("Press", k)
  <1>1. e \in Events /\ e.kind = "Press" /\ e.key = k /\ NoKey \notin Keys
    BY EventTypes DEF KeyKinds
  <1>2. /\ held' = held \cup {k} /\ repeating' = k /\ wait' = 0 /\ heard' = FALSE
        /\ Key!Report(e)
    BY Zenon DEF Key!KeyDown
  <1>3. /\ at' = at /\ has_enhancement' = has_enhancement /\ timers' = timers
        /\ pressed' = pressed /\ unsettled' = unsettled
    BY SMT DEF Key!KeyDown, Key!process
  <1> HIDE DEF e
  <1>4. KeyTypes'
    <2>1. /\ events' \in Seq(Events)
          /\ at = "ended" => events' = events
      BY <1>1, <1>2, ReportStep DEF KeyInv
    <2>2. 0 \in 0 .. RepeatFrames
      BY DEF Key!HoldAssumption
    <2>3. held' \subseteq Keys /\ (repeating' # NoKey => repeating' \in held')
      BY <1>2, Zenon DEF KeyInv, KeyTypes
    <2> QED
      BY <1>2, <1>3, <2>1, <2>2, <2>3, Zenon DEF KeyInv, KeyTypes
  <1>5. QueueInv'
    <2>1. UNCHANGED <<has_enhancement, at>>
      BY <1>3
    <2> QED
      BY <1>1, <1>2, <2>1, ReportQueue DEF KeyInv, KeyTypes
  <1>6. HeardInv'
    BY <1>2 DEF HeardInv
  <1>7. Key!EnhancedIsExact'
    <2>1. \A j \in Keys \ {e.key} : j \in held <=> j \in held'
      BY <1>1, <1>2, Zenon
    <2> QED
      BY <1>1, <1>2, <1>3, <2>1, ReportExact DEF KeyInv
  <1> QED
    BY <1>4, <1>5, <1>6, <1>7 DEF KeyInv

LEMMA FunctionKeyStep ==
    ASSUME Key!HoldAssumption, KeyInv, NEW e \in Key!FunctionKeys, Key!FunctionKey(e)
    PROVE  KeyInv'
  <1>1. e \in Events /\ e.key = NoKey /\ NoKey \notin Keys /\ e.kind # "Release"
    BY EventTypes, Zenon
  <1>2. repeating' = NoKey /\ wait' = 0 /\ heard' = FALSE /\ Key!Report(e)
    BY Zenon DEF Key!FunctionKey
  <1>3. /\ at' = at /\ has_enhancement' = has_enhancement /\ timers' = timers
        /\ pressed' = pressed /\ unsettled' = unsettled /\ held' = held
    BY SMT DEF Key!FunctionKey, Key!process
  <1>4. KeyTypes'
    <2>1. /\ events' \in Seq(Events)
          /\ at = "ended" => events' = events
      BY <1>1, <1>2, ReportStep DEF KeyInv
    <2>2. 0 \in 0 .. RepeatFrames
      BY DEF Key!HoldAssumption
    <2> QED
      BY <1>2, <1>3, <2>1, <2>2, Zenon DEF KeyInv, KeyTypes
  <1>5. QueueInv'
    <2>1. UNCHANGED <<has_enhancement, at>>
      BY <1>3
    <2> QED
      BY <1>1, <1>2, <1>3, <2>1, ReportQueue DEF KeyInv, KeyTypes
  <1>6. HeardInv'
    BY <1>2 DEF HeardInv
  <1>7. Key!EnhancedIsExact'
    BY <1>1, <1>2, <1>3, ReportExact DEF KeyInv
  <1> QED
    BY <1>4, <1>5, <1>6, <1>7 DEF KeyInv

LEMMA KeyRepeatsStep ==
    ASSUME Key!HoldAssumption, KeyInv, Key!KeyRepeats
    PROVE  KeyInv'
  <1> DEFINE kind == IF has_enhancement THEN "Repeat" ELSE "Press"
             e    == Key!Key(kind, repeating)
  <1>1. /\ repeating # NoKey /\ wait' = 0 /\ Key!Report(e)
    BY Zenon DEF Key!KeyRepeats
  <1>2. /\ at' = at /\ has_enhancement' = has_enhancement /\ timers' = timers
        /\ pressed' = pressed /\ unsettled' = unsettled
        /\ held' = held /\ repeating' = repeating /\ heard' = heard
    BY SMT DEF Key!KeyRepeats, Key!process
  <1>3. repeating \in held /\ repeating \in Keys
    BY <1>1 DEF KeyInv, KeyTypes
  <1>4. kind \in KeyKinds /\ kind # "Release"
    BY DEF KeyKinds
  <1>5. e \in Events /\ e.kind = kind /\ e.key = repeating
    BY <1>3, <1>4, EventTypes
  <1> HIDE DEF e, kind
  <1>6. KeyTypes'
    <2>1. /\ events' \in Seq(Events)
          /\ at = "ended" => events' = events
      BY <1>1, <1>5, ReportStep DEF KeyInv
    <2>2. 0 \in 0 .. RepeatFrames
      BY DEF Key!HoldAssumption
    <2> QED
      BY <1>1, <1>2, <2>1, <2>2, Zenon DEF KeyInv, KeyTypes
  <1>7. QueueInv'
    <2>1. UNCHANGED <<has_enhancement, at>>
      BY <1>2
    <2> QED
      BY <1>1, <1>2, <1>3, <1>4, <1>5, <2>1, ReportQueue DEF KeyInv, KeyTypes
  <1>8. HeardInv'
    <2> SUFFICES ASSUME heard
                 PROVE  /\ repeating # NoKey /\ repeating \in pressed
                        /\ ReleaseAbsent(repeating, events')
                        /\ ~has_enhancement => TimerInv'
      BY <1>2, Zenon DEF HeardInv, ReleaseAbsent
    <2>1. events' = Append(events, e) /\ events \in Seq(Events) /\ at # "ended"
      BY <1>1, <1>5, ReportStep DEF KeyInv, KeyTypes
    <2>2. ReleaseAbsent(repeating, events')
      BY <2>1, <1>4, <1>5, AbsentAppend DEF KeyInv, HeardInv
    <2>3. ASSUME ~has_enhancement
          PROVE  TimerInv'
      <3>1. Key!Reports(repeating, events)'
        <4>1. Key!Reports(repeating, events')
          BY <2>1, <1>5, ReportsAppend
        <4> QED
          BY <4>1, <1>2, Zenon DEF Key!Reports
      <3>2. /\ repeating \in DOMAIN timers /\ timers[repeating] \in Int
            /\ Key!Reports(repeating, events) => timers[repeating] >= (IF at = "tick" THEN 2 ELSE 1)
            /\ ~Key!Reports(repeating, events) => timers[repeating] + wait >= HoldFrames
        BY <2>3, Zenon DEF KeyInv, HeardInv, TimerInv
      <3>3. wait \in Int /\ wait <= RepeatFrames
        BY DEF KeyInv, KeyTypes, Key!HoldAssumption
      <3>4. timers[repeating] >= (IF at = "tick" THEN 2 ELSE 1)
        BY <3>2, <3>3 DEF Key!HoldAssumption
      <3> QED
        BY <3>1, <3>2, <3>4, <1>2, Zenon DEF TimerInv
    <2> QED
      BY <2>2, <2>3 DEF KeyInv, HeardInv
  <1>9. Key!EnhancedIsExact'
    BY <1>1, <1>2, <1>5, ReportExact DEF KeyInv
  <1> QED
    BY <1>6, <1>7, <1>8, <1>9 DEF KeyInv

LEMMA KeyUpStep ==
    ASSUME Key!HoldAssumption, KeyInv, NEW k \in Keys, Key!KeyUp(k)
    PROVE  KeyInv'
  <1> DEFINE e == Key!Key("Release", k)
  <1>1. e \in Events /\ e.kind = "Release" /\ e.key = k /\ NoKey \notin Keys
    BY EventTypes DEF KeyKinds
  <1>2. /\ k \in held /\ held' = held \ {k}
        /\ repeating' = IF repeating = k THEN NoKey ELSE repeating
        /\ wait' = IF repeating = k THEN 0 ELSE wait
        /\ heard' = (heard /\ repeating # k)
        /\ IF has_enhancement THEN Key!Report(e) ELSE events' = events
    BY Zenon DEF Key!KeyUp
  <1>3. /\ at' = at /\ has_enhancement' = has_enhancement /\ timers' = timers
        /\ pressed' = pressed /\ unsettled' = unsettled
    BY SMT DEF Key!KeyUp, Key!process
  <1> HIDE DEF e
  <1>4. \A j \in Keys \ {k} : j \in held <=> j \in held'
    BY <1>2, Zenon
  <1>5. KeyTypes'
    <2>1. /\ events' \in Seq(Events)
          /\ at = "ended" => events' = events
      <3>1. CASE has_enhancement
        BY <3>1, <1>1, <1>2, ReportStep DEF KeyInv
      <3>2. CASE ~has_enhancement
        BY <3>2, <1>2 DEF KeyInv, KeyTypes
      <3> QED
        BY <3>1, <3>2
    <2>2. 0 \in 0 .. RepeatFrames
      BY DEF Key!HoldAssumption
    <2>3. held' \subseteq Keys /\ (repeating' # NoKey => repeating' \in held')
      BY <1>2, Zenon DEF KeyInv, KeyTypes
    <2>4. wait' \in 0 .. RepeatFrames /\ heard' \in BOOLEAN
      BY <1>2, <2>2, Zenon DEF KeyInv, KeyTypes
    <2>5. at' = "ended" => events' = <<>> /\ unsettled' = Keys /\ ~heard'
      BY <1>2, <1>3, <2>1, Zenon DEF KeyInv, KeyTypes
    <2> QED
      BY <1>3, <2>1, <2>3, <2>4, <2>5, Zenon DEF KeyInv, KeyTypes
  <1>6. QueueInv'
    <2>1. CASE has_enhancement
      <3>1. UNCHANGED <<has_enhancement, at>>
        BY <1>3
      <3>2. e.key \notin held'
        BY <1>1, <1>2
      <3> QED
        BY <2>1, <3>1, <3>2, <1>1, <1>2, <1>4, ReportQueue DEF KeyInv, KeyTypes
    <2>2. CASE ~has_enhancement
      BY <2>2, <1>2, <1>3, Zenon DEF KeyInv, QueueInv, ReleaseAbsent
    <2> QED
      BY <2>1, <2>2
  <1>7. HeardInv'
    <2> SUFFICES ASSUME heard, repeating # k
                 PROVE  /\ repeating # NoKey /\ repeating \in pressed
                        /\ ReleaseAbsent(repeating, events')
                        /\ ~has_enhancement => TimerInv'
      BY <1>2, <1>3, Zenon DEF HeardInv, ReleaseAbsent
    <2>1. CASE has_enhancement
      <3>1. events' = Append(events, e) /\ events \in Seq(Events)
        BY <2>1, <1>1, <1>2, ReportStep DEF KeyInv, KeyTypes
      <3>2. ReleaseAbsent(repeating, events')
        BY <3>1, <1>1, AbsentAppend DEF KeyInv, HeardInv
      <3> QED
        BY <2>1, <3>2 DEF KeyInv, HeardInv
    <2>2. CASE ~has_enhancement
      BY <2>2, <1>2, <1>3, Zenon DEF KeyInv, HeardInv, TimerInv, ReleaseAbsent, Key!Reports
    <2> QED
      BY <2>1, <2>2
  <1>8. Key!EnhancedIsExact'
    <2>1. CASE has_enhancement
      BY <2>1, <1>1, <1>2, <1>3, <1>4, ReportExact DEF KeyInv
    <2>2. CASE ~has_enhancement
      BY <2>2, <1>3 DEF Key!EnhancedIsExact
    <2> QED
      BY <2>1, <2>2
  <1> QED
    BY <1>5, <1>6, <1>7, <1>8 DEF KeyInv

\* What every handler finds, and leaves of the queue.
LEMMA TakeStep ==
    ASSUME KeyInv, NEW kinds, Key!Take(kinds)
    PROVE  /\ at = "input" /\ events # <<>> /\ events \in Seq(Events)
           /\ Head(events) \in Events /\ Head(events).kind \in kinds
           /\ events' = Tail(events) /\ events' \in Seq(Events)
           /\ held' = held /\ repeating' = repeating /\ wait' = wait
           /\ has_enhancement' = has_enhancement
           /\ QueueInv'
  <1>1. /\ at = "input" /\ events # <<>> /\ events \in Seq(Events)
        /\ Head(events).kind \in kinds /\ events' = Tail(events)
    BY DEF Key!Take, KeyInv, KeyTypes
  <1>2. /\ held' = held /\ repeating' = repeating /\ wait' = wait
        /\ has_enhancement' = has_enhancement
    BY SMT DEF Key!Take, Key!keyboard
  <1>3. Head(events) \in Events /\ Tail(events) \in Seq(Events)
    BY <1>1, TailFacts
  <1>4. CASE has_enhancement
    <2>1. LastWordsTrue(Tail(events), held)
      BY <1>1, <1>4, TruthTail DEF KeyInv, QueueInv
    <2> QED
      BY <1>1, <1>2, <1>3, <1>4, <2>1, Zenon DEF QueueInv, LastWordsTrue, LastWord
  <1>5. CASE ~has_enhancement
    <2>1. \A k \in Keys : ReleaseAbsent(k, Tail(events))
      BY <1>1, <1>5, AbsentTail DEF KeyInv, QueueInv
    <2> QED
      BY <1>1, <1>2, <1>3, <1>5, <2>1, Zenon DEF QueueInv, ReleaseAbsent
  <1> QED
    BY <1>1, <1>2, <1>3, <1>4, <1>5

\* An event about another key changes nothing for the key that repeats.
LEMMA HeardKept ==
    ASSUME KeyInv, NEW kinds, Key!Take(kinds), heard, Head(events).key # repeating,
           at' = at, repeating \in pressed',
           ~has_enhancement =>
               repeating \in DOMAIN timers' /\ timers'[repeating] = timers[repeating]
    PROVE  HeardInv'
  <1>1. /\ events # <<>> /\ events \in Seq(Events) /\ events' = Tail(events)
        /\ repeating' = repeating /\ wait' = wait /\ has_enhancement' = has_enhancement
    BY TakeStep
  <1>2. /\ repeating # NoKey
        /\ ReleaseAbsent(repeating, events)
        /\ ~has_enhancement => TimerInv
    BY DEF KeyInv, HeardInv
  <1>3. ReleaseAbsent(repeating, events)'
    <2>1. ReleaseAbsent(repeating, Tail(events))
      BY <1>1, <1>2, AbsentTail
    <2> QED
      BY <1>1, <2>1, Zenon DEF ReleaseAbsent
  <1>4. ASSUME ~has_enhancement
        PROVE  TimerInv'
    <2>1. Key!Reports(repeating, events) <=> Key!Reports(repeating, Tail(events))
      BY <1>1, ReportsTail
    <2>2. Key!Reports(repeating, events)' <=> Key!Reports(repeating, Tail(events))
      BY <1>1, Zenon DEF Key!Reports
    <2> QED
      BY <1>1, <1>2, <1>4, <2>1, <2>2, Zenon DEF TimerInv
  <1> QED
    BY <1>1, <1>2, <1>3, <1>4, Zenon DEF HeardInv

\* A handler that says of a key what the keyboard says keeps the buttons
\* exact; one that leaves the buttons and unsettled alone does too.
LEMMA TakeExact ==
    ASSUME KeyInv, NEW kinds, Key!Take(kinds),
           \A k \in Keys : k # Head(events).key /\ k \notin unsettled' =>
               /\ k \notin unsettled
               /\ k \in pressed' <=> k \in pressed,
           has_enhancement /\ Head(events).key \in Keys
             /\ ~Key!Reports(Head(events).key, Tail(events)) =>
               (Head(events).key \in pressed' <=> Head(events).key \in held)
    PROVE  Key!EnhancedIsExact'
  <1>1. /\ events # <<>> /\ events \in Seq(Events) /\ events' = Tail(events)
        /\ held' = held /\ has_enhancement' = has_enhancement
    BY TakeStep
  <1> SUFFICES ASSUME has_enhancement, NEW k \in Keys, Key!Settled(k)'
               PROVE  k \in pressed' <=> k \in held
    BY <1>1, Zenon DEF Key!EnhancedIsExact
  <1>2. k \notin unsettled' /\ ~Key!Reports(k, Tail(events))
    BY <1>1, Zenon DEF Key!Settled
  <1>3. CASE k = Head(events).key
    BY <1>2, <1>3
  <1>4. CASE k # Head(events).key
    <2>1. ~Key!Reports(k, events)
      BY <1>1, <1>2, <1>4, ReportsTail
    <2> QED
      BY <1>2, <1>4, <2>1, Zenon DEF KeyInv, Key!EnhancedIsExact, Key!Settled
  <1> QED
    BY <1>3, <1>4

LEMMA PressStep ==
    ASSUME Key!HoldAssumption, KeyInv, Key!Press
    PROVE  KeyInv'
  <1> DEFINE k == Head(events).key
  <1>1. Key!Take({"Press", "Repeat"})
    BY DEF Key!Press
  <1>2. /\ at = "input" /\ events # <<>> /\ events \in Seq(Events)
        /\ Head(events) \in Events /\ Head(events).kind \in {"Press", "Repeat"}
        /\ events' = Tail(events) /\ events' \in Seq(Events)
        /\ held' = held /\ repeating' = repeating /\ wait' = wait
        /\ has_enhancement' = has_enhancement
        /\ QueueInv'
    BY <1>1, TakeStep
  <1>3. /\ pressed' = pressed \cup {k}
        /\ timers' = IF has_enhancement THEN timers
                     ELSE [j \in DOMAIN timers \cup {k} |->
                             IF j = k THEN HoldFrames ELSE timers[j]]
        /\ unsettled' = unsettled \ {k}
        /\ heard' = (heard \/ (k = repeating /\ ~Key!Reports(k, Tail(events))))
        /\ at' = at
    BY Zenon DEF Key!Press, Key!Heard
  <1>4. k \in Keys /\ Head(events).kind # "Release"
    BY <1>2 DEF Events, KeyKinds
  <1>5. NoKey \notin Keys
    BY EventTypes
  <1> HIDE DEF k
  <1>6. KeyTypes'
    <2>1. heard' \in BOOLEAN
      BY <1>3, Zenon DEF KeyInv, KeyTypes
    <2>2. has_enhancement' => DOMAIN timers' = {}
      BY <1>2, <1>3, Zenon DEF KeyInv, KeyTypes
    <2> QED
      BY <1>2, <1>3, <2>1, <2>2, Zenon DEF KeyInv, KeyTypes
  <1>7. HeardInv'
    <2>1. CASE k = repeating
      <3> SUFFICES ASSUME heard'
                   PROVE  HeardInv'
        BY DEF HeardInv
      <3>1. ReleaseAbsent(repeating, events)'
        <4>1. heard \/ ~Key!Reports(repeating, Tail(events))
          BY <1>3, <2>1
        <4>2. ReleaseAbsent(repeating, Tail(events))
          BY <4>1, <1>2, AbsentTail DEF KeyInv, HeardInv
        <4> QED
          BY <1>2, <4>2, Zenon DEF ReleaseAbsent
      <3>2. ASSUME ~has_enhancement
            PROVE  TimerInv'
        <4>1. repeating \in DOMAIN timers' /\ timers'[repeating] = HoldFrames
          BY <1>3, <2>1, <3>2
        <4>2. HoldFrames \in Int /\ HoldFrames >= 2 /\ HoldFrames + wait >= HoldFrames
          BY DEF Key!HoldAssumption, KeyInv, KeyTypes
        <4>3. timers'[repeating'] = HoldFrames /\ at' = "input" /\ wait' = wait
          BY <1>2, <1>3, <4>1
        <4>4. timers'[repeating'] >= (IF at' = "tick" THEN 2 ELSE 1)
          BY <4>2, <4>3
        <4> QED
          BY <1>2, <4>1, <4>2, <4>3, <4>4, Zenon DEF TimerInv
      <3> QED
        BY <1>2, <1>3, <1>4, <1>5, <2>1, <3>1, <3>2, Zenon DEF HeardInv
    <2>2. CASE k # repeating
      <3>1. CASE heard
        <4>1. repeating \in pressed'
          BY <1>3, <3>1 DEF KeyInv, HeardInv
        <4>2. ASSUME ~has_enhancement
              PROVE  repeating \in DOMAIN timers' /\ timers'[repeating] = timers[repeating]
          <5>1. repeating \in DOMAIN timers
            BY <3>1, <4>2 DEF KeyInv, HeardInv, TimerInv
          <5> QED
            BY <5>1, <4>2, <1>3, <2>2
        <4> QED
          BY <1>1, <1>3, <2>2, <3>1, <4>1, <4>2, HeardKept DEF k
      <3>2. CASE ~heard
        BY <1>3, <2>2, <3>2 DEF HeardInv
      <3> QED
        BY <3>1, <3>2
    <2> QED
      BY <2>1, <2>2
  <1>8. Key!EnhancedIsExact'
    <2>1. has_enhancement /\ ~Key!Reports(k, Tail(events)) => k \in held
      BY <1>2, <1>4, TruthTail DEF KeyInv, QueueInv, k
    <2>2. \A j \in Keys : j # k /\ j \notin unsettled' =>
             j \notin unsettled /\ (j \in pressed' <=> j \in pressed)
      BY <1>3, Zenon
    <2>3. k \in pressed'
      BY <1>3
    <2> QED
      BY <1>1, <2>1, <2>2, <2>3, TakeExact DEF k
  <1> QED
    BY <1>2, <1>6, <1>7, <1>8 DEF KeyInv

LEMMA ReleaseStep ==
    ASSUME Key!HoldAssumption, KeyInv, Key!Release
    PROVE  KeyInv'
  <1> DEFINE k == Head(events).key
  <1>1. Key!Take({"Release"})
    BY DEF Key!Release
  <1>2. /\ at = "input" /\ events # <<>> /\ events \in Seq(Events)
        /\ Head(events) \in Events /\ Head(events).kind = "Release"
        /\ events' = Tail(events) /\ events' \in Seq(Events)
        /\ held' = held /\ repeating' = repeating /\ wait' = wait
        /\ has_enhancement' = has_enhancement
        /\ QueueInv'
    BY <1>1, TakeStep
  <1>3. /\ pressed' = pressed \ {k}
        /\ timers' = Key!Restrict(timers, DOMAIN timers \ {k})
        /\ unsettled' = unsettled \ {k}
        /\ heard' = (heard \/ (k = repeating /\ ~Key!Reports(k, Tail(events))))
        /\ at' = at
    BY Zenon DEF Key!Release, Key!Heard
  <1>4. k \in Keys
    BY <1>2 DEF Events, KeyKinds
  <1>5. has_enhancement
    <2> SUFFICES ASSUME ~has_enhancement
                 PROVE  FALSE
      OBVIOUS
    <2>1. ReleaseAbsent(k, events)
      BY <1>4 DEF KeyInv, QueueInv
    <2> QED
      BY <1>2, <2>1, AbsentTail
  <1>6. ~Key!Reports(k, Tail(events)) => k \notin held
    BY <1>2, <1>4, <1>5, TruthTail DEF KeyInv, QueueInv
  <1> HIDE DEF k
  <1>7. KeyTypes'
    <2>1. heard' \in BOOLEAN
      BY <1>3, Zenon DEF KeyInv, KeyTypes
    <2>2. DOMAIN timers' = {}
      <3>1. DOMAIN timers = {}
        BY <1>5, Zenon DEF KeyInv, KeyTypes
      <3> QED
        BY <1>3, <3>1, Zenon DEF Key!Restrict
    <2> QED
      BY <1>2, <1>3, <2>1, <2>2, Zenon DEF KeyInv, KeyTypes
  <1>8. HeardInv'
    <2>1. CASE k = repeating
      <3>1. ~heard
        BY <1>2, <2>1, AbsentTail DEF KeyInv, HeardInv, k
      <3>2. ~(k = repeating /\ ~Key!Reports(k, Tail(events)))
        <4>1. k \in held \/ repeating = NoKey
          BY <2>1 DEF KeyInv, KeyTypes
        <4>2. NoKey \notin Keys
          BY EventTypes
        <4> QED
          BY <1>4, <1>6, <4>1, <4>2
      <3> QED
        BY <1>3, <3>1, <3>2 DEF HeardInv
    <2>2. CASE k # repeating
      <3>1. CASE heard
        <4>1. repeating \in pressed'
          BY <1>3, <2>2, <3>1 DEF KeyInv, HeardInv
        <4> QED
          BY <1>1, <1>3, <1>5, <2>2, <3>1, <4>1, HeardKept DEF k
      <3>2. CASE ~heard
        BY <1>3, <2>2, <3>2 DEF HeardInv
      <3> QED
        BY <3>1, <3>2
    <2> QED
      BY <2>1, <2>2
  <1>9. Key!EnhancedIsExact'
    <2>1. \A j \in Keys : j # k /\ j \notin unsettled' =>
             j \notin unsettled /\ (j \in pressed' <=> j \in pressed)
      BY <1>3, Zenon
    <2>2. k \notin pressed'
      BY <1>3
    <2> QED
      BY <1>1, <1>6, <2>1, <2>2, TakeExact DEF k
  <1> QED
    BY <1>2, <1>7, <1>8, <1>9 DEF KeyInv

\* A function key that leaves the buttons alone.
LEMMA NeutralStep ==
    ASSUME Key!HoldAssumption, KeyInv, NEW kinds, Key!Take(kinds), kinds \cap KeyKinds = {},
           at' = at, timers' = timers, pressed' = pressed, unsettled' = unsettled,
           heard' = heard
    PROVE  KeyInv'
  <1>1. /\ at = "input" /\ events # <<>> /\ events \in Seq(Events)
        /\ Head(events) \in Events /\ Head(events).kind \in kinds
        /\ events' = Tail(events) /\ events' \in Seq(Events)
        /\ held' = held /\ repeating' = repeating /\ wait' = wait
        /\ has_enhancement' = has_enhancement
        /\ QueueInv'
    BY TakeStep
  <1>2. Head(events).key = NoKey /\ NoKey \notin Keys
    <2>1. Head(events).kind \notin KeyKinds
      BY <1>1, Zenon
    <2> QED
      BY <1>1, <2>1, EventTypes DEF Events
  <1>3. KeyTypes'
    BY <1>1, Zenon DEF KeyInv, KeyTypes
  <1>4. HeardInv'
    <2>1. CASE heard
      <3>1. /\ repeating # NoKey /\ repeating \in pressed'
            /\ ~has_enhancement =>
                  repeating \in DOMAIN timers' /\ timers'[repeating] = timers[repeating]
        BY <2>1, Zenon DEF KeyInv, HeardInv, TimerInv
      <3> QED
        BY <1>2, <2>1, <3>1, HeardKept
    <2>2. CASE ~heard
      BY <2>2 DEF HeardInv
    <2> QED
      BY <2>1, <2>2
  <1>5. Key!EnhancedIsExact'
    BY <1>2, TakeExact
  <1> QED
    BY <1>1, <1>3, <1>4, <1>5 DEF KeyInv

LEMMA SaveStep ==
    ASSUME Key!HoldAssumption, KeyInv, Key!Save
    PROVE  KeyInv'
  <1>1. Key!Take({"F5"}) /\ {"F5"} \cap KeyKinds = {}
    BY DEF Key!Save, KeyKinds
  <1>2. /\ at' = at /\ timers' = timers /\ pressed' = pressed
        /\ unsettled' = unsettled /\ heard' = heard
    BY SMT DEF Key!Save
  <1> QED
    BY <1>1, <1>2, NeutralStep

LEMMA LoadStep ==
    ASSUME Key!HoldAssumption, KeyInv, Key!Load
    PROVE  KeyInv'
  <1>1. Key!Take({"F9"}) /\ {"F9"} \cap KeyKinds = {}
    BY DEF Key!Load, KeyKinds
  <1>2. at' = at /\ timers' = timers
    BY SMT DEF Key!Load
  <1>3. CASE slot = NoState
    <2>1. pressed' = pressed /\ unsettled' = unsettled /\ heard' = heard
      BY <1>3, SMT DEF Key!Load
    <2> QED
      BY <1>1, <1>2, <2>1, NeutralStep
  <1>4. CASE slot # NoState
    <2>1. unsettled' = Keys /\ heard' = FALSE
      BY <1>4, Zenon DEF Key!Load
    <2>2. /\ at = "input" /\ events' \in Seq(Events)
          /\ held' = held /\ repeating' = repeating /\ wait' = wait
          /\ has_enhancement' = has_enhancement
          /\ QueueInv'
      BY <1>1, TakeStep
    <2>3. KeyTypes'
      BY <1>2, <2>1, <2>2, Zenon DEF KeyInv, KeyTypes
    <2>4. HeardInv' /\ Key!EnhancedIsExact'
      BY <2>1, Zenon DEF HeardInv, Key!EnhancedIsExact, Key!Settled
    <2> QED
      BY <2>2, <2>3, <2>4 DEF KeyInv
  <1> QED
    BY <1>3, <1>4

\* No event is left, so the queue cannot lie.
LEMMA EmptyQueue ==
    ASSUME events' = <<>>
    PROVE  events' \in Seq(Events) /\ QueueInv' /\ \A k : ~Key!Reports(k, events')
  <1>1. events' \in Seq(Events) /\ \A i \in 1 .. Len(events') : FALSE
    OBVIOUS
  <1> QED
    BY <1>1, Zenon DEF QueueInv, LastWordsTrue, ReleaseAbsent, Key!Reports

LEMMA QuitStep ==
    ASSUME Key!HoldAssumption, KeyInv, Key!Quit
    PROVE  KeyInv'
  <1>1. /\ at' = "ended" /\ events' = <<>> /\ timers' = [k \in {} |-> 0]
        /\ unsettled' = Keys /\ heard' = FALSE
    BY Zenon DEF Key!Quit, Key!NoTimers
  <1>2. /\ held' = held /\ repeating' = repeating /\ wait' = wait
        /\ has_enhancement' = has_enhancement
    BY SMT DEF Key!Quit, Key!keyboard
  <1>3. DOMAIN timers' = {}
    BY <1>1, Zenon
  <1>4. KeyTypes'
    BY <1>1, <1>2, <1>3, EmptyQueue, Zenon DEF KeyInv, KeyTypes
  <1>5. HeardInv' /\ Key!EnhancedIsExact'
    BY <1>1, Zenon DEF HeardInv, Key!EnhancedIsExact, Key!Settled
  <1> QED
    BY <1>1, <1>4, <1>5, EmptyQueue DEF KeyInv

LEMMA PollStep ==
    ASSUME Key!HoldAssumption, KeyInv, Key!Poll
    PROVE  KeyInv'
  <1>1. /\ events = <<>> /\ events' = events /\ at' = "tick"
        /\ held' = held /\ repeating' = repeating /\ wait' = wait
        /\ has_enhancement' = has_enhancement /\ timers' = timers
        /\ pressed' = pressed /\ unsettled' = unsettled /\ heard' = heard
    BY SMT DEF Key!Poll, Key!keyboard
  <1>2. KeyTypes'
    BY <1>1, Zenon DEF KeyInv, KeyTypes
  <1>3. \A k : ~Key!Reports(k, events)
    <2>1. \A i \in 1 .. Len(events) : FALSE
      BY <1>1
    <2> QED
      BY <2>1 DEF Key!Reports
  <1>4. HeardInv'
    BY <1>1, <1>3, Zenon DEF KeyInv, HeardInv, TimerInv, ReleaseAbsent, Key!Reports
  <1>5. Key!EnhancedIsExact'
    BY <1>1, Zenon DEF KeyInv, Key!EnhancedIsExact, Key!Settled, Key!Reports
  <1> QED
    BY <1>1, <1>2, <1>4, <1>5, EmptyQueue DEF KeyInv

LEMMA RestartStep ==
    ASSUME Key!HoldAssumption, KeyInv, Key!Restart
    PROVE  KeyInv'
  <1>1. /\ at = "ended" /\ at' = "input" /\ has_enhancement' \in BOOLEAN
        /\ held' = held /\ repeating' = repeating /\ wait' = wait
        /\ events' = events /\ timers' = timers /\ unsettled' = unsettled /\ heard' = heard
    BY SMT DEF Key!Restart, Key!keyboard
  <1>2. events' = <<>> /\ unsettled' = Keys /\ ~heard'
    BY <1>1, Zenon DEF KeyInv, KeyTypes
  <1>3. DOMAIN timers' = {}
    BY <1>1 DEF KeyInv, KeyTypes
  <1>4. KeyTypes'
    BY <1>1, <1>2, <1>3, Zenon DEF KeyInv, KeyTypes
  <1>5. HeardInv' /\ Key!EnhancedIsExact'
    BY <1>2, Zenon DEF HeardInv, Key!EnhancedIsExact, Key!Settled
  <1> QED
    BY <1>2, <1>4, <1>5, EmptyQueue DEF KeyInv

\* The timer of a key that has been heard does not run out in this frame.
LEMMA TickFrameStep ==
    ASSUME Key!HoldAssumption, KeyInv, Key!TickFrame
    PROVE  KeyInv'
  <1> DEFINE left == [k \in DOMAIN timers |-> timers[k] - 1]
             over == {k \in DOMAIN timers : left[k] = 0}
  <1>1. /\ at = "tick" /\ at' = "input" /\ Key!TimePasses
        /\ timers' = Key!Restrict(left, DOMAIN timers \ over)
        /\ pressed' = pressed \ over
    BY Zenon DEF Key!TickFrame
  <1>2. /\ held' = held /\ repeating' = repeating /\ events' = events
        /\ has_enhancement' = has_enhancement /\ unsettled' = unsettled /\ heard' = heard
    BY SMT DEF Key!TickFrame
  <1>3. wait' \in 0 .. RepeatFrames
    BY <1>1 DEF Key!TimePasses, KeyInv, KeyTypes, Key!HoldAssumption
  <1>4. has_enhancement => DOMAIN timers = {} /\ DOMAIN timers' = {} /\ over = {}
    <2> SUFFICES ASSUME has_enhancement
                 PROVE  DOMAIN timers = {} /\ DOMAIN timers' = {} /\ over = {}
      OBVIOUS
    <2>1. DOMAIN timers = {}
      BY DEF KeyInv, KeyTypes
    <2>2. over = {} /\ DOMAIN timers \ over = {}
      BY <2>1
    <2> QED
      BY <1>1, <2>1, <2>2, Zenon DEF Key!Restrict
  <1>5. KeyTypes'
    BY <1>1, <1>2, <1>3, <1>4, Zenon DEF KeyInv, KeyTypes
  <1>6. QueueInv'
    BY <1>2, Zenon DEF KeyInv, QueueInv, LastWordsTrue, LastWord, ReleaseAbsent
  <1>7. HeardInv'
    <2> SUFFICES ASSUME heard
                 PROVE  /\ repeating # NoKey /\ repeating \in pressed'
                        /\ ReleaseAbsent(repeating, events)
                        /\ ~has_enhancement => TimerInv'
      BY <1>2, Zenon DEF HeardInv, ReleaseAbsent
    <2>1. /\ repeating # NoKey /\ repeating \in pressed
          /\ ReleaseAbsent(repeating, events)
          /\ ~has_enhancement => TimerInv
      BY DEF KeyInv, HeardInv
    <2>2. CASE has_enhancement
      BY <1>1, <1>4, <2>1, <2>2
    <2>3. CASE ~has_enhancement
      <3>1. /\ repeating \in DOMAIN timers /\ timers[repeating] \in Int
            /\ Key!Reports(repeating, events) => timers[repeating] >= 2
            /\ ~Key!Reports(repeating, events) => timers[repeating] + wait >= HoldFrames
        BY <1>1, <2>1, <2>3 DEF TimerInv
      <3>2. /\ wait \in Int /\ wait < RepeatFrames /\ wait' = wait + 1
            /\ RepeatFrames \in Int /\ HoldFrames \in Int
            /\ RepeatFrames + 2 <= HoldFrames
        BY <1>1, <2>1 DEF Key!TimePasses, KeyInv, KeyTypes, Key!HoldAssumption
      <3>3. /\ timers[repeating] >= 2 /\ timers[repeating] - 1 \in Int
            /\ timers[repeating] - 1 >= 1 /\ timers[repeating] - 1 # 0
            /\ ~Key!Reports(repeating, events) =>
                  (timers[repeating] - 1) + (wait + 1) >= HoldFrames
        BY <3>1, <3>2
      <3>4. left[repeating] = timers[repeating] - 1
        BY <3>1, Zenon
      <3>5. repeating \notin over
        BY <3>3, <3>4, Zenon
      <3>6. repeating \in DOMAIN timers' /\ timers'[repeating] = timers[repeating] - 1
        BY <1>1, <3>1, <3>4, <3>5, Zenon DEF Key!Restrict
      <3>7. timers'[repeating'] = timers[repeating] - 1
        BY <1>2, <3>6
      <3>8. /\ timers'[repeating'] >= (IF at' = "tick" THEN 2 ELSE 1)
            /\ ~Key!Reports(repeating, events) => timers'[repeating'] + wait' >= HoldFrames
        BY <1>1, <3>2, <3>3, <3>7
      <3>9. Key!Reports(repeating, events)' <=> Key!Reports(repeating, events)
        BY <1>2, Zenon DEF Key!Reports
      <3>10. TimerInv'
        BY <1>2, <3>3, <3>6, <3>7, <3>8, <3>9, Zenon DEF TimerInv
      <3> QED
        BY <1>1, <2>1, <3>5, <3>10, Zenon
    <2> QED
      BY <2>2, <2>3
  <1>8. Key!EnhancedIsExact'
    <2>1. has_enhancement => pressed' = pressed
      BY <1>1, <1>4
    <2> QED
      BY <1>2, <2>1, Zenon DEF KeyInv, Key!EnhancedIsExact, Key!Settled, Key!Reports
  <1> QED
    BY <1>5, <1>6, <1>7, <1>8 DEF KeyInv

\* One case per action.
LEMMA KeyStep ==
    ASSUME Key!HoldAssumption, KeyInv, Key!Next
    PROVE  KeyInv'
  <1>1. CASE Key!Keyboard
    BY <1>1, KeyDownStep, KeyUpStep, KeyRepeatsStep, FunctionKeyStep DEF Key!Keyboard
  <1>2. CASE Key!Handle
    BY <1>2, PressStep, ReleaseStep, SaveStep, LoadStep, QuitStep DEF Key!Handle
  <1>3. CASE Key!Poll
    BY <1>3, PollStep
  <1>4. CASE Key!TickFrame
    BY <1>4, TickFrameStep
  <1>5. CASE Key!Restart
    BY <1>5, RestartStep
  <1> QED
    BY <1>1, <1>2, <1>3, <1>4, <1>5 DEF Key!Next

LEMMA KeyStutter ==
    ASSUME KeyInv, UNCHANGED key_vars
    PROVE  KeyInv'
  <1>1. /\ held' = held /\ repeating' = repeating /\ wait' = wait /\ heard' = heard
        /\ events' = events /\ at' = at /\ has_enhancement' = has_enhancement
        /\ timers' = timers /\ pressed' = pressed /\ unsettled' = unsettled
    BY SMT DEF key_vars
  <1> QED
    BY <1>1, Zenon DEF KeyInv, KeyTypes, QueueInv, LastWordsTrue, LastWord, ReleaseAbsent,
       HeardInv, TimerInv, Key!EnhancedIsExact, Key!Settled, Key!Reports

\* A button stays down while its key repeats, for every hold time that exceeds
\* the time between two reports by two frames; with releases the buttons are
\* the keys.  It needs no bound on the queue (InputState in main.rs).
THEOREM ButtonsFollow == Spec => []ButtonsFollowKeys
  <1>1. Init => KeyInv
    BY PartsAssumption, KeyInit DEF PartsAssumption, Init
  <1>2. KeyInv /\ [Next]_vars => KeyInv'
    <2> SUFFICES ASSUME KeyInv, [Next]_vars
                 PROVE  KeyInv'
      OBVIOUS
    <2>1. CASE OfKeys(Key!Next)
      BY <2>1, PartsAssumption, KeyStep DEF OfKeys, PartsAssumption
    <2>2. CASE ~OfKeys(Key!Next)
      <3>1. UNCHANGED key_vars
        BY <2>2 DEF Next, OfLocal, OfRemote, vars
      <3> QED
        BY <3>1, KeyStutter
    <2> QED
      BY <2>1, <2>2
  <1>3. KeyInv => ButtonsFollowKeys
    BY Zenon DEF KeyInv, HeardInv, ButtonsFollowKeys, Key!RepeatedKeyStaysPressed
  <1> QED
    BY <1>1, <1>2, <1>3, PTL DEF Spec

-----------------------------------------------------------------------------
(* Least numbers, and what follows from there being one.                   *)

LEMMA SmallestOf ==
    ASSUME NEW T, T \subseteq Nat, T # {}
    PROVE  \E x \in T : \A y \in T : x <= y
  <1> DEFINE Less == OpToRel(<, Nat)
  <1>1. IsWellFoundedOn(Less, Nat)
    BY NatLessThanWellFounded, Zenon
  <1> HIDE DEF Less
  <1>2. PICK x \in T : \A y \in T : <<y, x>> \notin Less
    BY <1>1, WFMin, Zenon
  <1>3. \A y \in T : ~(y < x)
    <2> TAKE y \in T
    <2>1. x \in Nat /\ y \in Nat
      OBVIOUS
    <2>2. ASSUME y < x
          PROVE  <<y, x>> \in Less
      BY <2>1, <2>2 DEF Less, OpToRel
    <2> QED
      BY <1>2, <2>2
  <1>4. \A y \in T : y \in Nat /\ x \in Nat
    OBVIOUS
  <1> QED
    BY <1>3, <1>4

\* Induction, for a set.
LEMMA AllNumbers ==
    ASSUME NEW S, 0 \in S, \A n \in S \cap Nat : n + 1 \in S
    PROVE  Nat \subseteq S
  <1> DEFINE U == Nat \ S
  <1> SUFFICES ASSUME U # {}
               PROVE  FALSE
    OBVIOUS
  <1>1. U \subseteq Nat
    OBVIOUS
  <1> HIDE DEF U
  <1>2. PICK x \in U : \A y \in U : x <= y
    BY <1>1, SmallestOf
  <1>3. x \in Nat /\ x \notin S
    BY <1>2 DEF U
  <1>4. x - 1 \in Nat /\ ~(x <= x - 1) /\ (x - 1) + 1 = x
    BY <1>3
  <1>5. x - 1 \in S
    BY <1>2, <1>4 DEF U
  <1> QED
    BY <1>3, <1>4, <1>5

-----------------------------------------------------------------------------
(* Sequences.                                                              *)

\* The library's facts about \o, in a form that Zenon can instantiate.
LEMMA ConcatFacts ==
    ASSUME NEW S
    PROVE  /\ \A s \in Seq(S), t \in Seq(S) :
                 s \o t \in Seq(S) /\ Len(s \o t) = Len(s) + Len(t)
           /\ \A s \in Seq(S), t \in Seq(S), u \in Seq(S) : (s \o t) \o u = s \o (t \o u)
           /\ \A s \in Seq(S) : s \o <<>> = s /\ <<>> \o s = s
           /\ <<>> \in Seq(S)
  BY ConcatProperties, ConcatAssociative, ConcatEmptySeq, EmptySeq

LEMMA Closed == \A u \in Seq(Int), v \in Seq(Int) : u \o v \in Seq(Int)
  BY ConcatFacts

LEMMA Associates ==
    \A u \in Seq(Int), v \in Seq(Int), w \in Seq(Int) : (u \o v) \o w = u \o (v \o w)
  BY ConcatFacts

LEMMA Neutral == /\ <<>> \in Seq(Int)
                 /\ \A u \in Seq(Int) : u \o <<>> = u /\ <<>> \o u = u
  BY ConcatFacts

LEMMA SplitAt ==
    ASSUME NEW S, NEW s \in Seq(S), NEW n \in 0 .. Len(s)
    PROVE  /\ SubSeq(s, 1, n) \in Seq(S) /\ Len(SubSeq(s, 1, n)) = n
           /\ SubSeq(s, n + 1, Len(s)) \in Seq(S)
           /\ Len(SubSeq(s, n + 1, Len(s))) = Len(s) - n
           /\ SubSeq(s, 1, n) \o SubSeq(s, n + 1, Len(s)) = s
  <1>1. Len(s) \in Nat /\ \A i \in 1 .. Len(s) : s[i] \in S
    BY LenProperties, ElementOfSeq
  <1>2. SubSeq(s, 1, n) \in Seq(S) /\ Len(SubSeq(s, 1, n)) = n
    OBVIOUS
  <1>3. /\ SubSeq(s, n + 1, Len(s)) \in Seq(S)
        /\ Len(SubSeq(s, n + 1, Len(s))) = Len(s) - n
    OBVIOUS
  <1>4. SubSeq(s, 1, n) \o SubSeq(s, n + 1, Len(s)) = SubSeq(s, 1, Len(s))
    <2>1. 1 \in 1 .. Len(s) + 1 /\ n \in 1 - 1 .. Len(s) /\ Len(s) \in n .. Len(s)
      BY <1>1
    <2> QED
      BY <2>1, ConcatAdjacentSubSeq
  <1> QED
    BY <1>2, <1>3, <1>4, SubSeqFull

\* Two sequences put together come apart again.
LEMMA Halves ==
    ASSUME NEW S, NEW s \in Seq(S), NEW t \in Seq(S)
    PROVE  /\ s \o t \in Seq(S) /\ Len(s \o t) = Len(s) + Len(t)
           /\ SubSeq(s \o t, 1, Len(s)) = s
           /\ SubSeq(s \o t, Len(s) + 1, Len(s \o t)) = t
  <1>1. /\ s \o t \in Seq(S) /\ Len(s \o t) = Len(s) + Len(t)
        /\ Len(s) \in Nat /\ Len(t) \in Nat
    BY ConcatProperties, LenProperties
  <1>2. SubSeq(s \o t, 1, Len(s)) = s
    <2>1. CASE s = <<>>
      <3>1. Len(s) \in Int /\ Len(s) < 1
        BY <2>1
      <3> QED
        BY <2>1, <3>1, SubSeqEmpty
    <2>2. CASE s # <<>>
      <3>1. 1 \in 1 .. Len(s) /\ Len(s) \in 1 .. Len(s)
        BY <2>2, <1>1, EmptySeq
      <3>2. SubSeq(s \o t, 1, Len(s)) = SubSeq(s, 1, Len(s))
        BY <3>1, SubSeqOfConcat1
      <3> QED
        BY <3>2, SubSeqFull
    <2> QED
      BY <2>1, <2>2
  <1>3. SubSeq(s \o t, Len(s) + 1, Len(s) + Len(t)) = t
    <2>1. CASE t = <<>>
      <3>1. Len(s) + 1 \in Int /\ Len(s) + Len(t) \in Int /\ Len(s) + Len(t) < Len(s) + 1
        BY <2>1, <1>1
      <3> QED
        BY <2>1, <3>1, SubSeqEmpty
    <2>2. CASE t # <<>>
      <3>1. Len(t) \in Nat \ {0}
        BY <2>2, EmptySeq
      <3>2. /\ Len(s) + 1 \in Len(s) + 1 .. Len(s) + Len(t)
            /\ Len(s) + Len(t) \in Len(s) + 1 .. Len(s) + Len(t)
            /\ (Len(s) + 1) - Len(s) = 1 /\ (Len(s) + Len(t)) - Len(s) = Len(t)
        BY <3>1, <1>1
      <3>3. SubSeq(s \o t, Len(s) + 1, Len(s) + Len(t))
              = SubSeq(t, (Len(s) + 1) - Len(s), (Len(s) + Len(t)) - Len(s))
        BY <3>2, SubSeqOfConcat2
      <3> QED
        BY <3>2, <3>3, SubSeqFull
    <2> QED
      BY <2>1, <2>2
  <1> QED
    BY <1>1, <1>2, <1>3

\* What is left after the first n, when these are all of the first part.
LEMMA SkipFirst ==
    ASSUME NEW S, NEW s \in Seq(S), NEW t \in Seq(S), NEW n \in 0 .. Len(s)
    PROVE  /\ s \o t \in Seq(S) /\ Len(s \o t) = Len(s) + Len(t)
           /\ SubSeq(s \o t, n + 1, Len(s \o t)) = SubSeq(s, n + 1, Len(s)) \o t
           /\ \A i \in 1 .. Len(s) : (s \o t)[i] = s[i]
  <1>1. PICK p, q : /\ p \in Seq(S) /\ q \in Seq(S) /\ Len(p) = n
                    /\ p \o q = s /\ q = SubSeq(s, n + 1, Len(s))
    <2>1. /\ SubSeq(s, 1, n) \in Seq(S) /\ Len(SubSeq(s, 1, n)) = n
          /\ SubSeq(s, n + 1, Len(s)) \in Seq(S)
          /\ SubSeq(s, 1, n) \o SubSeq(s, n + 1, Len(s)) = s
      BY SplitAt
    <2> QED
      BY <2>1, Zenon
  <1>2. q \o t \in Seq(S) /\ (p \o q) \o t = p \o (q \o t)
    <2>1. /\ \A u \in Seq(S), v \in Seq(S) : u \o v \in Seq(S)
          /\ \A u \in Seq(S), v \in Seq(S), w \in Seq(S) : (u \o v) \o w = u \o (v \o w)
      BY ConcatFacts
    <2> QED
      BY <1>1, <2>1, ZenonT(60)
  <1>3. SubSeq(p \o (q \o t), Len(p) + 1, Len(p \o (q \o t))) = q \o t
    <2>1. \A u \in Seq(S), v \in Seq(S) : SubSeq(u \o v, Len(u) + 1, Len(u \o v)) = v
      BY Halves
    <2> QED
      BY <1>1, <1>2, <2>1, Zenon
  <1>4. /\ s \o t \in Seq(S) /\ Len(s \o t) = Len(s) + Len(t)
        /\ Len(s) \in Nat /\ Len(t) \in Nat
        /\ \A i \in 1 .. Len(s) + Len(t) :
              (s \o t)[i] = IF i <= Len(s) THEN s[i] ELSE t[i - Len(s)]
    BY ConcatProperties, LenProperties
  <1>5. \A i \in 1 .. Len(s) : i \in 1 .. Len(s) + Len(t) /\ i <= Len(s)
    BY <1>4
  <1> QED
    BY <1>1, <1>2, <1>3, <1>4, <1>5, Zenon

\* A middle part is cut out.
LEMMA CutOut ==
    ASSUME NEW a \in Seq(Int), NEW b \in Seq(Int), NEW c \in Seq(Int)
    PROVE  \A s : s = (a \o b) \o c =>
              \E i \in 0 .. Len(s) : \E j \in i .. Len(s) :
                 a \o c = SubSeq(s, 1, i) \o SubSeq(s, j + 1, Len(s))
  <1> SUFFICES ASSUME NEW s, s = (a \o b) \o c
               PROVE  \E i \in 0 .. Len(s) : \E j \in i .. Len(s) :
                         a \o c = SubSeq(s, 1, i) \o SubSeq(s, j + 1, Len(s))
    OBVIOUS
  <1>1. /\ a \o b \in Seq(Int) /\ Len(a \o b) = Len(a) + Len(b)
        /\ Len(s) = Len(a) + Len(b) + Len(c)
        /\ Len(a) \in Nat /\ Len(b) \in Nat /\ Len(c) \in Nat
    BY ConcatProperties, LenProperties
  <1>2. SubSeq(s, Len(a \o b) + 1, Len(s)) = c
    BY <1>1, Halves
  <1>3. b \o c \in Seq(Int) /\ s = a \o (b \o c)
    BY Closed, Associates, ZenonT(60)
  <1>4. SubSeq(s, 1, Len(a)) = a
    BY <1>3, Halves
  <1>5. Len(a) \in 0 .. Len(s) /\ Len(a \o b) \in Len(a) .. Len(s)
    BY <1>1
  <1> QED
    BY <1>2, <1>4, <1>5, Zenon

-----------------------------------------------------------------------------
(* Sizes.                                                                  *)

LEMMA MaxIs ==
    ASSUME NEW S, S \subseteq Nat, NEW m \in S, \A n \in S : n <= m
    PROVE  /\ Local!Max(S) \in S /\ \A n \in S : n <= Local!Max(S)
           /\ Remote!Max(S) \in S /\ \A n \in S : n <= Remote!Max(S)
  <1>1. \E x \in S : \A y \in S : x >= y
    BY SMT
  <1>2. Local!Max(S) \in S /\ \A y \in S : Local!Max(S) >= y
    BY <1>1, Zenon DEF Local!Max
  <1>3. Remote!Max(S) \in S /\ \A y \in S : Remote!Max(S) >= y
    BY <1>1, Zenon DEF Remote!Max
  <1> QED
    BY <1>2, <1>3

LEMMA MinIs ==
    ASSUME NEW S, S \subseteq Nat, S # {}
    PROVE  /\ Local!Min(S) \in S /\ \A n \in S : Local!Min(S) <= n
           /\ Remote!Min(S) \in S /\ \A n \in S : Remote!Min(S) <= n
  <1>1. \E x \in S : \A y \in S : x <= y
    BY SmallestOf
  <1> QED
    BY <1>1, Zenon DEF Local!Min, Remote!Min

\* No frame and no callback is longer than a batch may be.
LEMMA LargestOfBoth ==
    ASSUME NEW S, NEW T, S \subseteq Nat \ {0}, T \subseteq Nat \ {0},
           NEW s \in S, \A n \in S : n <= s, NEW t \in T, \A n \in T : n <= t
    PROVE  /\ Local!Max(S \cup T) \in Nat /\ \A n \in S \cup T : n \in 1 .. Local!Max(S \cup T)
           /\ Remote!Max(S \cup T) \in Nat /\ \A n \in S \cup T : n \in 1 .. Remote!Max(S \cup T)
  <1> DEFINE U == S \cup T
  <1>1. /\ U \subseteq Nat /\ \A n \in U : n \in Nat \ {0}
        /\ \E m \in U : \A n \in U : n <= m
    <2>1. CASE s <= t
      <3>1. t \in U /\ \A n \in U : n <= t
        BY <2>1
      <3> QED
        BY <3>1
    <2>2. CASE t <= s
      <3>1. s \in U /\ \A n \in U : n <= s
        BY <2>2
      <3> QED
        BY <3>1
    <2>3. s \in Nat /\ t \in Nat
      OBVIOUS
    <2> QED
      BY <2>1, <2>2, <2>3
  <1> HIDE DEF U
  <1>2. /\ Local!Max(U) \in U /\ \A n \in U : n <= Local!Max(U)
        /\ Remote!Max(U) \in U /\ \A n \in U : n <= Remote!Max(U)
    BY <1>1, MaxIs
  <1>3. Local!Max(U) \in Nat /\ Remote!Max(U) \in Nat
    BY <1>1, <1>2
  <1>4. \A n \in U : n \in 1 .. Local!Max(U) /\ n \in 1 .. Remote!Max(U)
    BY <1>1, <1>2, <1>3
  <1> QED
    BY <1>3, <1>4 DEF U

-----------------------------------------------------------------------------
(* The audio output of this machine.                                       *)

Sizes == Local!SizesAssumption /\ Local!IdsAssumption

Limit == Target + Local!MaxFrame

\* A frame's samples are in one buffer or the other, and a frame is begun only
\* when the queue has drained to the target.
LocalInv ==
    /\ pacing \in {"frame", "queue", "input", "pace", "quit"}
    /\ made \in Int
    /\ sample_buffer \in Seq(Int) /\ queue \in Seq(Int)
    /\ pacing # "queue" => sample_buffer = <<>>
    /\ pacing \in {"frame", "queue"} => Len(queue) <= Target
    /\ Len(sample_buffer) <= Local!MaxFrame
    /\ Len(queue) <= Limit

LEMMA LocalSizes ==
    ASSUME Sizes
    PROVE  /\ Target \in Nat /\ Local!MaxFrame \in Nat /\ Limit \in Nat
           /\ Ids \in Nat \ {0}
           /\ \A n \in FrameSizes : n \in Nat \ {0} /\ n <= Local!MaxFrame
           /\ CallbackSizes \subseteq Nat \ {0}
  <1>1. FrameSizes \subseteq Nat /\ \E m \in FrameSizes : \A n \in FrameSizes : n <= m
    BY DEF Sizes, Local!SizesAssumption
  <1>2. Local!Max(FrameSizes) \in FrameSizes /\ \A n \in FrameSizes : n <= Local!Max(FrameSizes)
    BY <1>1, MaxIs
  <1>3. Local!MaxFrame \in Nat
    BY <1>1, <1>2 DEF Local!MaxFrame
  <1> QED
    BY <1>2, <1>3 DEF Sizes, Local!SizesAssumption, Local!IdsAssumption, Local!MaxFrame, Limit

\* A batch is as long as it says.
LEMMA BatchType ==
    ASSUME Sizes, NEW id \in Int, NEW n \in Nat
    PROVE  Local!Batch(id, n) \in Seq(Int) /\ Len(Local!Batch(id, n)) = n /\ Local!Later(id, n) \in Int
  <1>1. Ids \in Nat \ {0}
    BY LocalSizes
  <1>2. \A i \in 0 .. n : Local!Later(id, i) \in Int
    <2> TAKE i \in 0 .. n
    <2>1. (id + i - 1) % Ids \in Int
      BY <1>1
    <2> QED
      BY <2>1 DEF Local!Later
  <1>3. \A i \in 1 .. n : Local!Later(id, i - 1) \in Int
    BY <1>2
  <1>4. Local!Batch(id, n) = [i \in 1 .. n |-> Local!Later(id, i - 1)]
    BY Zenon DEF Local!Batch
  <1>5. Local!Batch(id, n) \in [1 .. n -> Int]
    BY <1>3, <1>4, Zenon
  <1> HIDE DEF Local!Batch
  <1> QED
    BY <1>2, <1>5

LEMMA LocalInit ==
    ASSUME Sizes, Local!Init
    PROVE  LocalInv /\ Local!Stream!Init
  <1>1. <<>> \in Seq(Int) /\ Len(<<>>) = 0 /\ <<>> \o <<>> = <<>>
    OBVIOUS
  <1>2. LocalInv
    BY <1>1, LocalSizes DEF LocalInv, Local!Init
  <1>3. Local!Stream!Init
    BY <1>1, Zenon DEF Local!Stream!Init, Local!Init
  <1> QED
    BY <1>2, <1>3

\* What the device takes is the beginning of the stream; a frame's samples are
\* added at its end.
LEMMA LocalStep ==
    ASSUME Sizes, LocalInv, Local!Next
    PROVE  LocalInv' /\ [Local!Stream!LosslessNext]_Local!Stream!vars
  <1>1. ASSUME NEW n \in FrameSizes, Local!RunFrame(n)
        PROVE  LocalInv' /\ [Local!Stream!LosslessNext]_Local!Stream!vars
    <2> PICK b : b = Local!Batch(made, n)
      OBVIOUS
    <2>1. /\ pacing = "frame" /\ pacing' = "queue" /\ sample_buffer' = sample_buffer \o b
          /\ made' = Local!Later(made, n) /\ queue' = queue /\ taken' = taken
      <3>1. /\ pacing = "frame" /\ pacing' = "queue" /\ made' = Local!Later(made, n)
            /\ sample_buffer' = sample_buffer \o Local!Batch(made, n)
            /\ UNCHANGED <<queue, taken, out, device>>
        BY <1>1, Zenon DEF Local!RunFrame
      <3> QED
        BY <3>1
    <2>2. b \in Seq(Int) /\ Len(b) = n /\ Local!Later(made, n) \in Int
      BY BatchType, LocalSizes DEF LocalInv
    <2>3. sample_buffer = <<>> /\ sample_buffer' = b
      BY <2>1, <2>2, ConcatEmptySeq DEF LocalInv
    <2>4. LocalInv'
      BY <2>1, <2>2, <2>3, LocalSizes DEF LocalInv
    <2>5. (queue \o sample_buffer)' = (queue \o sample_buffer) \o b
      <3>1. \A u \in Seq(Int), v \in Seq(Int), w \in Seq(Int) : (u \o v) \o w = u \o (v \o w)
        BY ConcatFacts
      <3>2. queue \in Seq(Int) /\ sample_buffer \in Seq(Int)
        BY DEF LocalInv
      <3>3. queue \o (sample_buffer \o b) = (queue \o sample_buffer) \o b
        BY <2>2, <3>1, <3>2, Zenon
      <3> QED
        BY <2>1, <3>3
    <2>6. n \in 1 .. Local!Max(FrameSizes \cup CallbackSizes)
      BY LargestOfBoth DEF Sizes, Local!SizesAssumption
    <2>7. Local!Stream!Accept(n)
      BY <2>1, <2>5, Zenon DEF Local!Stream!Accept, Local!Stream!Batch, Local!Stream!Later,
         Local!Batch, Local!Later
    <2> QED
      BY <2>4, <2>6, <2>7 DEF Local!Stream!LosslessNext
  <1>2. CASE Local!QueueSamples
    <2>1. /\ pacing = "queue" /\ pacing' = "input" /\ queue' = queue \o sample_buffer
          /\ sample_buffer' = <<>> /\ made' = made /\ taken' = taken
      BY <1>2, SMT DEF Local!QueueSamples
    <2>2. /\ queue' \in Seq(Int) /\ Len(queue') = Len(queue) + Len(sample_buffer)
          /\ queue' \o <<>> = queue' /\ sample_buffer' \in Seq(Int) /\ Len(sample_buffer') = 0
      BY <2>1, ConcatProperties, ConcatEmptySeq DEF LocalInv
    <2>3. Len(queue) \in Nat /\ Len(sample_buffer) \in Nat
      BY DEF LocalInv
    <2>4. LocalInv'
      BY <2>1, <2>2, <2>3, LocalSizes DEF LocalInv, Limit
    <2>5. UNCHANGED Local!Stream!vars
      BY <2>1, <2>2 DEF Local!Stream!vars
    <2> QED
      BY <2>4, <2>5
  <1>3. CASE Local!HandleInput \/ Local!Pace \/ Local!Sleep \/ Local!StreamError
    <2>1. /\ made' = made /\ sample_buffer' = sample_buffer /\ queue' = queue /\ taken' = taken
      BY <1>3, SMT DEF Local!HandleInput, Local!Pace, Local!Sleep, Local!StreamError, Local!vars
    <2>2. \/ pacing = "input" /\ pacing' \in {"pace", "quit"}
          \/ pacing = "pace" /\ pacing' = "frame" /\ Len(queue) <= Target
          \/ pacing' = pacing
      BY <1>3, SMT DEF Local!HandleInput, Local!Pace, Local!Sleep, Local!StreamError, Local!vars
    <2>3. LocalInv'
      BY <2>1, <2>2, Zenon DEF LocalInv
    <2>4. UNCHANGED Local!Stream!vars
      BY <2>1, Zenon DEF Local!Stream!vars
    <2> QED
      BY <2>3, <2>4
  <1>4. ASSUME NEW n \in CallbackSizes, Local!Callback(n)
        PROVE  LocalInv' /\ [Local!Stream!LosslessNext]_Local!Stream!vars
    <2> PICK m : m = Local!Min({n, Len(queue)})
      OBVIOUS
    <2>1. /\ queue' = Local!Skip(m, queue)
          /\ taken' = IF m = 0 THEN taken ELSE queue[m]
          /\ pacing' = pacing /\ made' = made /\ sample_buffer' = sample_buffer
      <3>1. /\ queue' = Local!Skip(m, queue)
            /\ taken' = IF m = 0 THEN taken ELSE queue[m]
            /\ UNCHANGED <<pacing, made, sample_buffer, device>>
        BY <1>4, Zenon DEF Local!Callback
      <3> QED
        BY <3>1
    <2>2. m \in 0 .. Len(queue) /\ m <= n
      <3>1. {n, Len(queue)} \subseteq Nat
        BY LocalSizes DEF LocalInv
      <3>2. /\ m \in {n, Len(queue)} /\ m <= n /\ m <= Len(queue)
        BY <3>1, MinIs
      <3> QED
        BY <3>1, <3>2
    <2>3. /\ queue' = SubSeq(queue, m + 1, Len(queue)) /\ queue' \in Seq(Int)
          /\ Len(queue') = Len(queue) - m
      BY <2>1, <2>2, SplitAt DEF Local!Skip, LocalInv
    <2>4. queue \in Seq(Int) /\ sample_buffer \in Seq(Int) /\ Len(queue') <= Len(queue)
      <3>1. queue \in Seq(Int) /\ sample_buffer \in Seq(Int)
        BY DEF LocalInv
      <3>2. Len(queue) \in Nat
        BY <3>1, LenProperties
      <3>3. Len(queue) - m <= Len(queue)
        BY <2>2, <3>2
      <3> QED
        BY <2>3, <3>1, <3>3
    <2>5. LocalInv'
      BY <2>1, <2>3, <2>4, LocalSizes DEF LocalInv
    <2> DEFINE s == queue \o sample_buffer
    <2>6. /\ Len(s) = Len(queue) + Len(sample_buffer)
          /\ SubSeq(s, m + 1, Len(s)) = queue' \o sample_buffer
          /\ \A i \in 1 .. Len(queue) : s[i] = queue[i]
      <3>1. \A u \in Seq(Int), v \in Seq(Int) : \A i \in 0 .. Len(u) :
               /\ Len(u \o v) = Len(u) + Len(v)
               /\ SubSeq(u \o v, i + 1, Len(u \o v)) = SubSeq(u, i + 1, Len(u)) \o v
               /\ \A j \in 1 .. Len(u) : (u \o v)[j] = u[j]
        BY SkipFirst
      <3> QED
        BY <2>2, <2>3, <2>4, <3>1, ZenonT(60)
    <2>7. s' = SubSeq(s, m + 1, Len(s))
      BY <2>1, <2>6
    <2>8. CASE m = 0
      <3>1. taken' = taken /\ queue' = queue
        <4>1. SubSeq(queue, 0 + 1, Len(queue)) = queue
          BY SubSeqFull DEF LocalInv
        <4> QED
          BY <4>1, <2>1, <2>3, <2>8
      <3> QED
        BY <2>1, <2>5, <3>1 DEF Local!Stream!vars
    <2>9. CASE m # 0
      <3>1. m \in 1 .. Len(queue) /\ m <= Len(s)
        BY <2>2, <2>6, <2>9, SMTT(30) DEF LocalInv
      <3>2. taken' = s[m]
        BY <2>1, <2>6, <2>9, <3>1
      <3> HIDE DEF s
      <3>3. m \in 1 .. Local!Max(FrameSizes \cup CallbackSizes)
        <4>1. /\ Local!Max(FrameSizes \cup CallbackSizes) \in Nat
              /\ n \in 1 .. Local!Max(FrameSizes \cup CallbackSizes)
          BY LargestOfBoth DEF Sizes, Local!SizesAssumption
        <4> QED
          BY <2>2, <3>1, <4>1 DEF LocalInv
      <3>4. Local!Stream!Play(m)
        BY <2>1, <2>7, <3>1, <3>2, Zenon DEF Local!Stream!Play, s
      <3> QED
        BY <2>5, <3>3, <3>4 DEF Local!Stream!LosslessNext
    <2> QED
      BY <2>8, <2>9
  <1> QED
    BY <1>1, <1>2, <1>3, <1>4 DEF Local!Next, Local!Emulate, Local!SomeCallback

LEMMA LocalStutter ==
    ASSUME LocalInv, UNCHANGED local_vars
    PROVE  LocalInv' /\ UNCHANGED Local!Stream!vars
  <1>1. /\ pacing' = pacing /\ made' = made /\ sample_buffer' = sample_buffer
        /\ queue' = queue /\ taken' = taken
    BY SMT DEF local_vars
  <1> QED
    BY <1>1, Zenon DEF LocalInv, Local!Stream!vars

\* Whatever else the step is.
LEMMA LocalNext ==
    ASSUME Sizes, LocalInv, [Next]_vars
    PROVE  LocalInv' /\ [Local!Stream!LosslessNext]_Local!Stream!vars
  <1>1. CASE OfLocal(Local!Next)
    BY <1>1, LocalStep DEF OfLocal
  <1>2. CASE ~OfLocal(Local!Next)
    <2>1. UNCHANGED local_vars
      BY <1>2 DEF Next, OfKeys, OfRemote, vars
    <2> QED
      BY <2>1, LocalStutter
  <1> QED
    BY <1>1, <1>2

\* For every target and every size of frame and callback the sound is no
\* further behind the picture than the target and one frame (run_emulation's
\* wait in main.rs).
THEOREM BoundedSound == Spec => []BoundedLatency
  <1>1. Sizes
    BY PartsAssumption DEF PartsAssumption, Sizes
  <1>2. Init => LocalInv
    BY <1>1, LocalInit DEF Init
  <1>3. LocalInv /\ [Next]_vars => LocalInv'
    BY <1>1, LocalNext
  <1>4. LocalInv => BoundedLatency
    BY DEF LocalInv, Limit, BoundedLatency, Local!BoundedLatency
  <1> QED
    BY <1>2, <1>3, <1>4, PTL DEF Spec

\* Locally every sample that is made is played once and in order.
THEOREM LocalRefinement == Spec => Local!NoSampleLost
  <1>1. Sizes
    BY PartsAssumption DEF PartsAssumption, Sizes
  <1>2. Init => LocalInv /\ Local!Stream!Init
    BY <1>1, LocalInit DEF Init
  <1>3. LocalInv /\ [Next]_vars => LocalInv' /\ [Local!Stream!LosslessNext]_Local!Stream!vars
    BY <1>1, LocalNext
  <1> QED
    BY <1>2, <1>3, PTL DEF Spec, Local!NoSampleLost, Local!Stream!Lossless

-----------------------------------------------------------------------------
(* A channel of batches, put end to end.                                   *)

\* joined[i] is the first i batches put end to end.
Joins(joined, c) ==
    \A i \in 1 .. Len(c) : joined[i] = IF i = 1 THEN c[i] ELSE joined[i - 1] \o c[i]

LEMMA JoinExists ==
    ASSUME NEW S, NEW c \in Seq(Seq(S))
    PROVE  \E f : f = [i \in 1 .. Len(c) |-> IF i = 1 THEN c[i] ELSE f[i - 1] \o c[i]]
  <1> DEFINE Good(n, f) == f = [i \in 1 .. n |-> IF i = 1 THEN c[i] ELSE f[i - 1] \o c[i]]
             Ns == {n \in Nat : \E f : Good(n, f)}
  <1>1. 0 \in Ns
    <2> DEFINE f == [i \in 1 .. 0 |-> c]
    <2>1. \A i \in 1 .. 0 : FALSE
      OBVIOUS
    <2>2. Good(0, f)
      BY <2>1, Zenon
    <2> QED
      BY <2>2
  <1>2. ASSUME NEW n \in Ns \cap Nat
        PROVE  n + 1 \in Ns
    <2>1. PICK f : Good(n, f)
      OBVIOUS
    <2> DEFINE g == [i \in 1 .. n + 1 |-> IF i = 1 THEN c[i] ELSE f[i - 1] \o c[i]]
    <2>2. \A i \in 1 .. n : f[i] = IF i = 1 THEN c[i] ELSE f[i - 1] \o c[i]
      BY <2>1, Zenon
    <2>3. \A i \in 1 .. n : i \in 1 .. n + 1
      OBVIOUS
    <2>4. \A i \in 1 .. n : g[i] = f[i]
      BY <2>2, <2>3, Zenon
    <2>5. \A i \in 1 .. n + 1 : i # 1 => i - 1 \in 1 .. n
      OBVIOUS
    <2>6. \A i \in 1 .. n + 1 : g[i] = IF i = 1 THEN c[i] ELSE g[i - 1] \o c[i]
      BY <2>4, <2>5, Zenon
    <2>7. g = [i \in 1 .. n + 1 |-> g[i]]
      BY Zenon
    <2> HIDE DEF g
    <2>8. g = [i \in 1 .. n + 1 |-> IF i = 1 THEN c[i] ELSE g[i - 1] \o c[i]]
      BY <2>6, <2>7, Zenon
    <2>9. n + 1 \in Nat
      OBVIOUS
    <2> QED
      BY <2>8, <2>9, Zenon
  <1> HIDE DEF Ns
  <1>3. Nat \subseteq Ns
    BY <1>1, <1>2, AllNumbers
  <1>4. Len(c) \in Nat
    OBVIOUS
  <1> QED
    BY <1>3, <1>4, Zenon DEF Ns

\* What FlattenSeq is, and that every beginning it joins is a sequence.
LEMMA FlattenIs ==
    ASSUME NEW S, NEW c \in Seq(Seq(S)), c # <<>>
    PROVE  \E f : /\ Joins(f, c) /\ \A i \in 1 .. Len(c) : f[i] \in Seq(S)
                 /\ Remote!FlattenSeq(c) = f[Len(c)]
  <1> DEFINE Good(f) == f = [i \in 1 .. Len(c) |-> IF i = 1 THEN c[i] ELSE f[i - 1] \o c[i]]
             flat == CHOOSE f : Good(f)
  <1>1. Len(c) \in Nat \ {0} /\ \A i \in 1 .. Len(c) : c[i] \in Seq(S)
    BY EmptySeq
  <1>2. Good(flat)
    BY JoinExists, Zenon
  <1>3. Remote!FlattenSeq(c) = flat[Len(c)]
    BY <1>1, Zenon DEF Remote!FlattenSeq
  <1> HIDE DEF flat
  <1>4. Joins(flat, c)
    BY <1>2, Zenon DEF Joins
  <1> DEFINE Ns == {n \in Nat : n \in 1 .. Len(c) => flat[n] \in Seq(S)}
  <1>5. 0 \in Ns
    OBVIOUS
  <1>6. ASSUME NEW n \in Ns \cap Nat
        PROVE  n + 1 \in Ns
    <2> SUFFICES ASSUME n + 1 \in 1 .. Len(c)
                 PROVE  flat[n + 1] \in Seq(S)
      OBVIOUS
    <2>1. CASE n = 0
      BY <2>1, <1>1, <1>4 DEF Joins
    <2>2. CASE n # 0
      <3>1. n \in 1 .. Len(c) /\ n + 1 # 1 /\ (n + 1) - 1 = n
        BY <2>2, <1>1
      <3>2. flat[n] \in Seq(S) /\ c[n + 1] \in Seq(S)
        BY <3>1, <1>1
      <3>3. flat[n + 1] = flat[n] \o c[n + 1]
        BY <3>1, <1>4, Zenon DEF Joins
      <3> QED
        BY <3>2, <3>3, ConcatProperties
    <2> QED
      BY <2>1, <2>2
  <1> HIDE DEF Ns
  <1>7. Nat \subseteq Ns
    BY <1>5, <1>6, AllNumbers
  <1>8. \A i \in 1 .. Len(c) : flat[i] \in Seq(S)
    <2> TAKE i \in 1 .. Len(c)
    <2>1. i \in Ns
      BY <1>7
    <2> QED
      BY <2>1 DEF Ns
  <1> QED
    BY <1>3, <1>4, <1>8, Zenon

\* FlattenSeq adds what Append adds, at the end.
LEMMA FlattenAppend ==
    ASSUME NEW S, NEW c \in Seq(Seq(S)), NEW b \in Seq(S)
    PROVE  Remote!FlattenSeq(Append(c, b)) = Remote!FlattenSeq(c) \o b
  <1>1. /\ Append(c, b) \in Seq(Seq(S)) /\ Append(c, b) # <<>>
        /\ Len(Append(c, b)) = Len(c) + 1 /\ Len(c) \in Nat
        /\ \A i \in 1 .. Len(c) : Append(c, b)[i] = c[i]
        /\ Append(c, b)[Len(c) + 1] = b
    BY AppendProperties, LenProperties
  <1>2. PICK g : /\ Joins(g, Append(c, b))
                 /\ Remote!FlattenSeq(Append(c, b)) = g[Len(c) + 1]
    BY <1>1, FlattenIs
  <1>3. \A i \in 1 .. Len(c) + 1 :
           g[i] = IF i = 1 THEN Append(c, b)[i] ELSE g[i - 1] \o Append(c, b)[i]
    BY <1>1, <1>2 DEF Joins
  <1>4. CASE c = <<>>
    <2>1. Len(c) = 0 /\ Remote!FlattenSeq(c) = <<>>
      BY <1>4 DEF Remote!FlattenSeq
    <2>2. 1 \in 1 .. Len(c) + 1 /\ Len(c) + 1 = 1
      BY <2>1
    <2>3. g[1] = b
      BY <1>1, <1>3, <2>2
    <2>4. <<>> \o b = b
      BY ConcatEmptySeq
    <2> QED
      BY <1>2, <2>1, <2>2, <2>3, <2>4
  <1>5. CASE c # <<>>
    <2>1. PICK f : Joins(f, c) /\ Remote!FlattenSeq(c) = f[Len(c)]
      BY <1>5, FlattenIs
    <2>2. Len(c) \in Nat \ {0}
      BY <1>5, EmptySeq
    <2> DEFINE Ns == {n \in Nat : n \in 1 .. Len(c) => g[n] = f[n]}
    <2>3. 0 \in Ns
      OBVIOUS
    <2>4. ASSUME NEW n \in Ns \cap Nat
          PROVE  n + 1 \in Ns
      <3> SUFFICES ASSUME n + 1 \in 1 .. Len(c)
                   PROVE  g[n + 1] = f[n + 1]
        OBVIOUS
      <3>1. n + 1 \in 1 .. Len(c) + 1 /\ Append(c, b)[n + 1] = c[n + 1] /\ (n + 1) - 1 = n
        BY <1>1
      <3>2. g[n + 1] = IF n + 1 = 1 THEN c[n + 1] ELSE g[n] \o c[n + 1]
        BY <1>3, <3>1, Zenon
      <3>3. f[n + 1] = IF n + 1 = 1 THEN c[n + 1] ELSE f[n] \o c[n + 1]
        BY <2>1, <3>1, Zenon DEF Joins
      <3>4. n + 1 # 1 => n \in 1 .. Len(c)
        BY <2>2
      <3>5. n + 1 # 1 => g[n] = f[n]
        BY <3>4
      <3> QED
        BY <3>2, <3>3, <3>5, Zenon
    <2> HIDE DEF Ns
    <2>5. Nat \subseteq Ns
      BY <2>3, <2>4, AllNumbers
    <2>6. Len(c) \in Ns /\ Len(c) \in 1 .. Len(c)
      BY <2>2, <2>5
    <2>7. g[Len(c)] = f[Len(c)]
      BY <2>6 DEF Ns
    <2>8. Len(c) + 1 \in 1 .. Len(c) + 1 /\ Len(c) + 1 # 1 /\ (Len(c) + 1) - 1 = Len(c)
      BY <2>2
    <2>9. g[Len(c) + 1] = g[Len(c)] \o b
      BY <1>1, <1>3, <2>8, Zenon
    <2> QED
      BY <1>2, <2>1, <2>7, <2>9
  <1> QED
    BY <1>4, <1>5

\* It takes away what Tail takes away, at the beginning.
LEMMA FlattenTail ==
    ASSUME NEW S, NEW c \in Seq(Seq(S)), c # <<>>
    PROVE  Remote!FlattenSeq(c) = Head(c) \o Remote!FlattenSeq(Tail(c))
  <1>1. PICK t : t = Tail(c)
    OBVIOUS
  <1>2. /\ t \in Seq(Seq(S)) /\ Len(t) = Len(c) - 1 /\ Len(c) \in Nat \ {0}
        /\ Head(c) = c[1] /\ c[1] \in Seq(S)
        /\ \A i \in 1 .. Len(t) : t[i] = c[i + 1] /\ c[i + 1] \in Seq(S)
    <2>1. Len(c) \in Nat \ {0} /\ \A i \in 1 .. Len(c) : c[i] \in Seq(S)
      BY EmptySeq
    <2>2. /\ Tail(c) \in Seq(Seq(S)) /\ Len(Tail(c)) = Len(c) - 1
          /\ \A i \in 1 .. Len(Tail(c)) : Tail(c)[i] = c[i + 1]
      BY HeadTailProperties
    <2>3. Head(c) = c[1]
      OBVIOUS
    <2>4. 1 \in 1 .. Len(c) /\ \A i \in 1 .. Len(c) - 1 : i + 1 \in 1 .. Len(c)
      BY <2>1
    <2> QED
      BY <1>1, <2>1, <2>2, <2>3, <2>4, Zenon
  <1>3. PICK f : Joins(f, c) /\ Remote!FlattenSeq(c) = f[Len(c)]
    BY FlattenIs
  <1>4. f[1] = c[1]
    BY <1>2, <1>3 DEF Joins
  <1>5. CASE t = <<>>
    <2>1. Len(t) = 0 /\ Remote!FlattenSeq(t) = <<>>
      BY <1>5 DEF Remote!FlattenSeq
    <2>2. Len(c) = 1
      BY <1>2, <2>1
    <2>3. c[1] \o <<>> = c[1]
      BY <1>2, ConcatEmptySeq
    <2> QED
      BY <1>1, <1>2, <1>3, <1>4, <2>1, <2>2, <2>3
  <1>6. CASE t # <<>>
    <2>1. PICK g : /\ Joins(g, t) /\ \A i \in 1 .. Len(t) : g[i] \in Seq(S)
                   /\ Remote!FlattenSeq(t) = g[Len(t)]
      BY <1>2, <1>6, FlattenIs
    <2>2. Len(t) \in Nat \ {0}
      BY <1>2, <1>6, EmptySeq
    <2> DEFINE Ns == {n \in Nat : n \in 1 .. Len(t) => f[n + 1] = c[1] \o g[n]}
    <2>3. 0 \in Ns
      OBVIOUS
    <2>4. ASSUME NEW n \in Ns \cap Nat
          PROVE  n + 1 \in Ns
      <3> SUFFICES ASSUME n + 1 \in 1 .. Len(t)
                   PROVE  f[(n + 1) + 1] = c[1] \o g[n + 1]
        <4>1. n + 1 \in Nat
          OBVIOUS
        <4> QED
          BY <4>1, Zenon
      <3>1. /\ (n + 1) + 1 \in 1 .. Len(c) /\ (n + 1) + 1 # 1 /\ ((n + 1) + 1) - 1 = n + 1
            /\ (n + 1) - 1 = n
        BY <1>2
      <3>2. f[(n + 1) + 1] = f[n + 1] \o c[(n + 1) + 1]
        BY <1>3, <3>1, Zenon DEF Joins
      <3>3. t[n + 1] = c[(n + 1) + 1] /\ c[(n + 1) + 1] \in Seq(S)
        BY <1>2, Zenon
      <3>4. g[n + 1] = IF n + 1 = 1 THEN c[(n + 1) + 1] ELSE g[n] \o c[(n + 1) + 1]
        BY <2>1, <3>1, <3>3, Zenon DEF Joins
      <3>5. CASE n = 0
        <4>1. n + 1 = 1
          BY <3>5
        <4> QED
          BY <3>2, <3>4, <4>1, <1>4, Zenon
      <3>6. CASE n # 0
        <4>1. n \in 1 .. Len(t) /\ n + 1 # 1
          BY <3>6, <2>2
        <4>2. f[n + 1] = c[1] \o g[n]
          BY <4>1
        <4>3. g[n] \in Seq(S)
          BY <2>1, <4>1
        <4>4. \A u \in Seq(S), v \in Seq(S), w \in Seq(S) : (u \o v) \o w = u \o (v \o w)
          BY ConcatFacts
        <4>5. (c[1] \o g[n]) \o c[(n + 1) + 1] = c[1] \o (g[n] \o c[(n + 1) + 1])
          BY <1>2, <3>3, <4>3, <4>4, Zenon
        <4> QED
          BY <3>2, <3>4, <4>1, <4>2, <4>5, Zenon
      <3> QED
        BY <3>5, <3>6
    <2> HIDE DEF Ns
    <2>5. Nat \subseteq Ns
      BY <2>3, <2>4, AllNumbers
    <2>6. Len(t) \in Ns /\ Len(t) \in 1 .. Len(t) /\ Len(t) + 1 = Len(c)
      BY <1>2, <2>2, <2>5
    <2>7. f[Len(c)] = c[1] \o g[Len(t)]
      BY <2>6, Zenon DEF Ns
    <2> QED
      BY <1>1, <1>2, <1>3, <2>1, <2>7
  <1> QED
    BY <1>5, <1>6

\* It yields a sequence, no shorter than as many batches of the shortest size.
LEMMA FlattenSize ==
    ASSUME NEW S, NEW c \in Seq(Seq(S)), NEW least \in Nat,
           \A i \in 1 .. Len(c) : least <= Len(c[i])
    PROVE  /\ Remote!FlattenSeq(c) \in Seq(S)
           /\ Len(c) * least <= Len(Remote!FlattenSeq(c))
  <1>1. CASE c = <<>>
    <2>1. Len(c) = 0 /\ Remote!FlattenSeq(c) = <<>>
      BY <1>1 DEF Remote!FlattenSeq
    <2>2. <<>> \in Seq(S) /\ Len(<<>>) = 0 /\ 0 * least = 0
      OBVIOUS
    <2> QED
      BY <2>1, <2>2
  <1>2. CASE c # <<>>
    <2>1. PICK f : /\ Joins(f, c) /\ \A i \in 1 .. Len(c) : f[i] \in Seq(S)
                   /\ Remote!FlattenSeq(c) = f[Len(c)]
      BY <1>2, FlattenIs
    <2>2. Len(c) \in Nat \ {0} /\ \A i \in 1 .. Len(c) : c[i] \in Seq(S)
      BY <1>2, EmptySeq
    <2> DEFINE Ns == {n \in Nat : n \in 1 .. Len(c) => n * least <= Len(f[n])}
    <2>3. 0 \in Ns
      OBVIOUS
    <2>4. ASSUME NEW n \in Ns \cap Nat
          PROVE  n + 1 \in Ns
      <3> SUFFICES ASSUME n + 1 \in 1 .. Len(c)
                   PROVE  (n + 1) * least <= Len(f[n + 1])
        OBVIOUS
      <3>1. (n + 1) * least = n * least + least /\ n * least \in Nat
        BY SMT
      <3>2. least <= Len(c[n + 1]) /\ c[n + 1] \in Seq(S) /\ Len(c[n + 1]) \in Nat
        BY <2>2
      <3>3. CASE n = 0
        <4>1. f[n + 1] = c[n + 1]
          BY <2>1, <3>3 DEF Joins
        <4>2. n * least = 0
          BY <3>3
        <4> QED
          BY <3>1, <3>2, <4>1, <4>2
      <3>4. CASE n # 0
        <4>1. n \in 1 .. Len(c) /\ n + 1 # 1 /\ (n + 1) - 1 = n
          BY <3>4, <2>2
        <4>2. n * least <= Len(f[n]) /\ f[n] \in Seq(S) /\ Len(f[n]) \in Nat
          BY <2>1, <4>1
        <4>3. f[n + 1] = f[n] \o c[n + 1]
          BY <2>1, <4>1, Zenon DEF Joins
        <4>4. Len(f[n + 1]) = Len(f[n]) + Len(c[n + 1])
          BY <4>2, <4>3, <3>2, ConcatProperties
        <4>5. \A x \in Nat, u \in Nat, v \in Nat : x <= u /\ least <= v => x + least <= u + v
          OBVIOUS
        <4>6. n * least + least <= Len(f[n]) + Len(c[n + 1])
          BY <3>1, <3>2, <4>2, <4>5, Zenon
        <4> QED
          BY <3>1, <4>4, <4>6, Zenon
      <3> QED
        BY <3>3, <3>4
    <2> HIDE DEF Ns
    <2>5. Nat \subseteq Ns
      BY <2>3, <2>4, AllNumbers
    <2>6. Len(c) \in Ns /\ Len(c) \in 1 .. Len(c)
      BY <2>2, <2>5
    <2> QED
      BY <2>1, <2>6 DEF Ns
  <1> QED
    BY <1>1, <1>2

LEMMA FlattenType ==
    ASSUME NEW S, NEW c \in Seq(Seq(S))
    PROVE  Remote!FlattenSeq(c) \in Seq(S)
  <1>1. \A i \in 1 .. Len(c) : 0 <= Len(c[i])
    <2>1. \A i \in 1 .. Len(c) : c[i] \in Seq(S)
      OBVIOUS
    <2> QED
      BY <2>1
  <1>2. 0 \in Nat
    OBVIOUS
  <1> QED
    BY <1>1, <1>2, FlattenSize

-----------------------------------------------------------------------------
(* The audio output of another machine.                                    *)

Shortest == Remote!Min(BatchSizes)

\* Every batch in the channel is at least the shortest; without a sender
\* the connection is not up.
RemoteInv ==
    /\ sender \in BOOLEAN
    /\ next \in 1 .. LastSample + 1
    /\ channel \in Seq(Seq(Int)) /\ \A i \in 1 .. Len(channel) : Shortest <= Len(channel[i])
    /\ hand \in Seq(Int) /\ wire \in Seq(Int) /\ chunk \in Seq(Int) /\ buffer \in Seq(Int)
    /\ ~sender => link # "up"

\* The stream's last part, and what comes before it.
Waiting == Remote!FlattenSeq(channel)
Near    == (buffer \o chunk) \o wire

LEMMA RemoteSizes ==
    ASSUME Remote!SizesAssumption
    PROVE  /\ Shortest \in Nat \ {0} /\ \A n \in BatchSizes : n \in Nat \ {0} /\ Shortest <= n
           /\ QueueFrames \in Nat \ {0} /\ LastSample \in Nat
           /\ PlaySizes \subseteq Nat \ {0}
           /\ Remote!Max(BatchSizes \cup PlaySizes) \in Nat
           /\ \A n \in BatchSizes \cup PlaySizes : n \in 1 .. Remote!Max(BatchSizes \cup PlaySizes)
  <1>1. BatchSizes \subseteq Nat \ {0} /\ BatchSizes # {} /\ BatchSizes \subseteq Nat
    BY DEF Remote!SizesAssumption
  <1>2. Shortest \in BatchSizes /\ \A n \in BatchSizes : Shortest <= n
    BY <1>1, MinIs DEF Shortest
  <1>3. /\ Remote!Max(BatchSizes \cup PlaySizes) \in Nat
        /\ \A n \in BatchSizes \cup PlaySizes : n \in 1 .. Remote!Max(BatchSizes \cup PlaySizes)
    BY LargestOfBoth DEF Remote!SizesAssumption
  <1> QED
    BY <1>1, <1>2, <1>3 DEF Remote!SizesAssumption

\* The parts are sequences of samples.
LEMMA RemoteParts ==
    ASSUME Remote!SizesAssumption, RemoteInv
    PROVE  /\ Waiting \in Seq(Int) /\ Len(channel) * Shortest <= Len(Waiting)
           /\ buffer \o chunk \in Seq(Int) /\ Near \in Seq(Int) /\ Near \o hand \in Seq(Int)
           /\ hand \o Waiting \in Seq(Int) /\ <<>> \in Seq(Int)
           /\ Remote!InFlight \in Seq(Int)
           /\ Remote!InFlight = (Near \o hand) \o Waiting
           /\ Remote!InFlight = Near \o (hand \o Waiting)
  <1>1. Waiting \in Seq(Int) /\ Len(channel) * Shortest <= Len(Waiting)
    <2>1. Shortest \in Nat
      BY RemoteSizes
    <2> QED
      BY <2>1, FlattenSize DEF RemoteInv, Waiting
  <1>2. hand \in Seq(Int) /\ wire \in Seq(Int) /\ chunk \in Seq(Int) /\ buffer \in Seq(Int)
    BY DEF RemoteInv
  <1>3. buffer \o chunk \in Seq(Int) /\ Near \in Seq(Int)
    <2>1. buffer \o chunk \in Seq(Int)
      BY <1>2, Closed, Zenon
    <2> QED
      BY <1>2, <2>1, Closed, Zenon DEF Near
  <1>4. /\ Near \o hand \in Seq(Int) /\ hand \o Waiting \in Seq(Int)
        /\ (Near \o hand) \o Waiting = Near \o (hand \o Waiting)
        /\ (Near \o hand) \o Waiting \in Seq(Int)
    <2>1. Near \o hand \in Seq(Int) /\ hand \o Waiting \in Seq(Int)
      BY <1>1, <1>2, <1>3, Closed, Zenon
    <2>2. (Near \o hand) \o Waiting \in Seq(Int)
      BY <1>1, <2>1, Closed, Zenon
    <2>3. Near \in Seq(Int) /\ hand \in Seq(Int) /\ Waiting \in Seq(Int)
      BY <1>1, <1>2, <1>3
    <2>4. (Near \o hand) \o Waiting = Near \o (hand \o Waiting)
      BY <2>3, Associates, Zenon
    <2> QED
      BY <2>1, <2>2, <2>4
  <1>5. Remote!InFlight = (Near \o hand) \o Waiting
    BY Zenon DEF Remote!InFlight, Near, Waiting
  <1>6. <<>> \in Seq(Int)
    OBVIOUS
  <1> QED
    BY <1>1, <1>3, <1>4, <1>5, <1>6, Zenon

\* The invariant after a step, conjunct by conjunct.
LEMMA InvAfter ==
    ASSUME RemoteInv, sender' \in BOOLEAN, next' \in 1 .. LastSample + 1,
           channel' \in Seq(Seq(Int)),
           \A i \in 1 .. Len(channel') : Shortest <= Len(channel'[i]),
           hand' \in Seq(Int), wire' \in Seq(Int), chunk' \in Seq(Int), buffer' \in Seq(Int),
           ~sender' => link' # "up"
    PROVE  RemoteInv'
  <1>1. Shortest' = Shortest
    BY DEF Shortest
  <1> QED
    BY <1>1, Zenon DEF RemoteInv

\* Without the emulator's next frame.
LEMMA InvKept ==
    ASSUME RemoteInv, sender' \in BOOLEAN, next' = next, channel' = channel \/ channel' = <<>>,
           hand' \in Seq(Int), wire' \in Seq(Int), chunk' \in Seq(Int), buffer' \in Seq(Int),
           ~sender' => link' # "up"
    PROVE  RemoteInv'
  <1>1. /\ channel \in Seq(Seq(Int)) /\ next' \in 1 .. LastSample + 1
        /\ \A i \in 1 .. Len(channel) : Shortest <= Len(channel[i])
    BY DEF RemoteInv
  <1>2. channel' \in Seq(Seq(Int)) /\ \A i \in 1 .. Len(channel') : Shortest <= Len(channel'[i])
    <2>1. CASE channel' = channel
      BY <1>1, <2>1
    <2>2. CASE channel' = <<>>
      <3>1. Len(<<>>) = 0 /\ <<>> \in Seq(Seq(Int))
        OBVIOUS
      <3>2. \A i \in 1 .. 0 : FALSE
        OBVIOUS
      <3> QED
        BY <2>2, <3>1, <3>2, Zenon
    <2> QED
      BY <2>1, <2>2
  <1> QED
    BY <1>1, <1>2, InvAfter, Zenon

\* The stream after a step, by its parts.
LEMMA AfterParts ==
    /\ Remote!InFlight' = (((buffer' \o chunk') \o wire') \o hand') \o Remote!FlattenSeq(channel')
    /\ channel' = channel => Remote!FlattenSeq(channel') = Waiting
    /\ channel' = <<>> => Remote!FlattenSeq(channel') = <<>>
  <1>1. Remote!FlattenSeq(<<>>) = <<>>
    BY DEF Remote!FlattenSeq
  <1> QED
    BY <1>1, Zenon DEF Remote!InFlight, Waiting

\* A part of the stream is lost, and with it the connection.
LEMMA LoseStep ==
    ASSUME NEW a \in Seq(Int), NEW b \in Seq(Int), NEW c \in Seq(Int),
           Remote!InFlight = (a \o b) \o c, Remote!InFlight' = a \o c,
           link' # "up", next' = next, played' = played
    PROVE  [Remote!Stream!LossyNext]_Remote!Stream!vars
  <1>1. PICK s : s = Remote!InFlight
    OBVIOUS
  <1>2. \E i \in 0 .. Len(s) : \E j \in i .. Len(s) :
           a \o c = SubSeq(s, 1, i) \o SubSeq(s, j + 1, Len(s))
    <2>1. s = (a \o b) \o c
      BY <1>1
    <2>2. \A t : t = (a \o b) \o c =>
             \E i \in 0 .. Len(t) : \E j \in i .. Len(t) :
                a \o c = SubSeq(t, 1, i) \o SubSeq(t, j + 1, Len(t))
      BY CutOut, Zenon
    <2> QED
      BY <2>1, <2>2, Zenon
  <1>3. (link = "up")' = FALSE
    OBVIOUS
  <1>4. Remote!Stream!Lose
    BY <1>1, <1>2, <1>3, Zenon DEF Remote!Stream!Lose
  <1> QED
    BY <1>4 DEF Remote!Stream!LossyNext

\* Steps that only move samples within the stream leave it as it is.
LEMMA StreamSame ==
    ASSUME Remote!InFlight' = Remote!InFlight, next' = next, played' = played,
           (link = "up") <=> (link' = "up")
    PROVE  [Remote!Stream!LossyNext]_Remote!Stream!vars
  <1>1. (link = "up")' = (link = "up")
    OBVIOUS
  <1> QED
    BY <1>1 DEF Remote!Stream!vars

LEMMA SmallModulo ==
    ASSUME NEW m \in Nat \ {0}, NEW x \in 0 .. m - 1
    PROVE  x % m = x
  OBVIOUS

\* The numbers of a frame's samples do not go around.
LEMMA SamplesAreBatch ==
    ASSUME Remote!SizesAssumption, RemoteInv, NEW n \in BatchSizes, next + n <= LastSample + 1
    PROVE  /\ Remote!Samples(n) = Remote!Stream!Batch(next, n)
           /\ next + n = Remote!Stream!Later(next, n)
           /\ Remote!Samples(n) \in Seq(Int) /\ Len(Remote!Samples(n)) = n
           /\ next + n \in 1 .. LastSample + 1
  <1>1. /\ LastSample \in Nat /\ n \in Nat \ {0} /\ next \in Nat /\ next >= 1
        /\ next + n <= LastSample + 1
    BY RemoteSizes DEF RemoteInv
  <1>2. \A i \in 0 .. n : Remote!Stream!Later(next, i) = next + i
    <2> TAKE i \in 0 .. n
    <2>1. next + i - 1 \in 0 .. (LastSample + 1) - 1 /\ LastSample + 1 \in Nat \ {0}
      BY <1>1
    <2>2. (next + i - 1) % (LastSample + 1) = next + i - 1
      BY <2>1, SmallModulo
    <2>3. (next + i - 1) + 1 = next + i
      BY <1>1
    <2> QED
      BY <2>2, <2>3, Zenon DEF Remote!Stream!Later
  <1>3. \A i \in 1 .. n : i - 1 \in 0 .. n /\ next + (i - 1) = next + i - 1
    BY <1>1
  <1>4. Remote!Samples(n) = Remote!Stream!Batch(next, n)
    BY <1>2, <1>3, Zenon DEF Remote!Samples, Remote!Stream!Batch
  <1>5. next + n = Remote!Stream!Later(next, n)
    <2>1. n \in 0 .. n
      BY <1>1
    <2> QED
      BY <1>2, <2>1
  <1>6. Remote!Samples(n) \in Seq(Int) /\ Len(Remote!Samples(n)) = n
    <2>1. \A i \in 1 .. n : next + i - 1 \in Int
      BY <1>1
    <2>2. Remote!Samples(n) = [i \in 1 .. n |-> next + i - 1]
      BY Zenon DEF Remote!Samples
    <2>3. Remote!Samples(n) \in [1 .. n -> Int]
      BY <2>1, <2>2, Zenon
    <2> QED
      BY <1>1, <2>3
  <1>7. next + n \in 1 .. LastSample + 1
    BY <1>1
  <1> QED
    BY <1>4, <1>5, <1>6, <1>7

\* A frame's samples enter the channel, or are refused while a channelful
\* waits.
LEMMA QueueSamplesStep ==
    ASSUME Remote!SizesAssumption, RemoteInv, NEW n \in BatchSizes, Remote!QueueSamples(n)
    PROVE  RemoteInv' /\ [Remote!Stream!LossyNext]_Remote!Stream!vars
  <1> PICK b : b = Remote!Samples(n)
    OBVIOUS
  <1>1. /\ next + n <= LastSample + 1 /\ next' = next + n
        /\ channel' = IF sender /\ Len(channel) < QueueFrames
                        THEN Append(channel, Remote!Samples(n)) ELSE channel
        /\ UNCHANGED <<emulator, sender, hand, link, wire, Remote!listening>>
    BY Zenon DEF Remote!QueueSamples, Remote!Offer
  <1>2. /\ sender' = sender /\ hand' = hand /\ link' = link /\ wire' = wire
        /\ chunk' = chunk /\ buffer' = buffer /\ played' = played
    BY <1>1 DEF Remote!listening
  <1>3. /\ b = Remote!Stream!Batch(next, n) /\ next + n = Remote!Stream!Later(next, n)
        /\ b \in Seq(Int) /\ Len(b) = n /\ next + n \in 1 .. LastSample + 1
    BY <1>1, SamplesAreBatch
  <1>4. n \in 1 .. Remote!Max(BatchSizes \cup PlaySizes) /\ Shortest <= n
    BY RemoteSizes
  <1>5. CASE sender /\ Len(channel) < QueueFrames
    <2>1. channel' = Append(channel, b)
      BY <1>1, <1>5
    <2>2. channel \in Seq(Seq(Int))
      BY DEF RemoteInv
    <2>3. RemoteInv'
      <3>1. /\ channel' \in Seq(Seq(Int)) /\ Len(channel') = Len(channel) + 1 /\ Len(channel) \in Nat
            /\ \A i \in 1 .. Len(channel) : channel'[i] = channel[i]
            /\ channel'[Len(channel) + 1] = b
        BY <1>3, <2>1, <2>2, AppendProperties, LenProperties
      <3>2. \A i \in 1 .. Len(channel) + 1 : i \in 1 .. Len(channel) \/ i = Len(channel) + 1
        BY <3>1
      <3>3. \A i \in 1 .. Len(channel') : Shortest <= Len(channel'[i])
        BY <1>3, <1>4, <3>1, <3>2, Zenon DEF RemoteInv
      <3>4. /\ hand' \in Seq(Int) /\ wire' \in Seq(Int) /\ chunk' \in Seq(Int) /\ buffer' \in Seq(Int)
            /\ sender' \in BOOLEAN /\ (~sender' => link' # "up")
        BY <1>2 DEF RemoteInv
      <3>5. next' \in 1 .. LastSample + 1
        BY <1>1, <1>3
      <3> QED
        BY <3>1, <3>3, <3>4, <3>5, InvAfter, Zenon
    <2>4. Remote!FlattenSeq(channel') = Waiting \o b
      BY <1>3, <2>1, <2>2, FlattenAppend DEF Waiting
    <2>5. Remote!InFlight' = (Near \o hand) \o (Waiting \o b)
      BY <1>2, <2>4, Zenon DEF Remote!InFlight, Near
    <2>6. Remote!InFlight' = Remote!InFlight \o b
      <3>1. Near \o hand \in Seq(Int)
        BY RemoteParts
      <3>2. Waiting \in Seq(Int)
        BY RemoteParts
      <3>3. Remote!InFlight = (Near \o hand) \o Waiting
        BY RemoteParts
      <3>4. PICK e : e = Near \o hand
        OBVIOUS
      <3>5. e \in Seq(Int)
        BY <3>1, <3>4
      <3>6. (e \o Waiting) \o b = e \o (Waiting \o b)
        BY <1>3, <3>2, <3>5, Associates, Zenon
      <3> QED
        BY <2>5, <3>3, <3>4, <3>6, Zenon
    <2>7. (link = "up")' = (link = "up")
      BY <1>2
    <2>8. Remote!Stream!Accept(n)
      BY <1>1, <1>2, <1>3, <2>6, <2>7, Zenon DEF Remote!Stream!Accept
    <2> QED
      BY <1>4, <2>3, <2>8 DEF Remote!Stream!LossyNext, Remote!Stream!LosslessNext
  <1>6. CASE ~(sender /\ Len(channel) < QueueFrames)
    <2>1. channel' = channel
      BY <1>1, <1>6
    <2>2. RemoteInv'
      <3>1. /\ hand' \in Seq(Int) /\ wire' \in Seq(Int) /\ chunk' \in Seq(Int) /\ buffer' \in Seq(Int)
            /\ sender' \in BOOLEAN /\ (~sender' => link' # "up")
            /\ channel' \in Seq(Seq(Int))
            /\ \A i \in 1 .. Len(channel') : Shortest <= Len(channel'[i])
        BY <1>2, <2>1 DEF RemoteInv
      <3>2. next' \in 1 .. LastSample + 1
        BY <1>1, <1>3
      <3> QED
        BY <3>1, <3>2, InvAfter, Zenon
    <2>3. Remote!InFlight' = Remote!InFlight
      BY <1>2, <2>1, Zenon DEF Remote!InFlight
    <2>4. link # "up" \/ Len(Remote!InFlight) >= QueueFrames * Remote!Min(BatchSizes)
      <3>1. CASE ~sender
        BY <3>1 DEF RemoteInv
      <3>2. CASE ~(Len(channel) < QueueFrames)
        <4>1. Len(channel) \in Nat /\ QueueFrames \in Nat /\ Shortest \in Nat
          BY RemoteSizes DEF RemoteInv
        <4>2. QueueFrames * Shortest <= Len(channel) * Shortest
          <5>1. PICK k \in Nat : Len(channel) = QueueFrames + k
            BY <3>2, <4>1
          <5>2. k * Shortest \in Nat /\ QueueFrames * Shortest \in Nat
            BY <4>1
          <5>3. (QueueFrames + k) * Shortest = QueueFrames * Shortest + k * Shortest
            BY <4>1
          <5> QED
            BY <5>1, <5>2, <5>3
        <4>3. Len(channel) * Shortest <= Len(Waiting) /\ Len(channel) * Shortest \in Int
          BY <4>1, RemoteParts
        <4>4. Waiting \in Seq(Int) /\ Near \o hand \in Seq(Int)
              /\ Remote!InFlight = (Near \o hand) \o Waiting
          BY RemoteParts
        <4>5. Len(Remote!InFlight) >= Len(Waiting) /\ Len(Waiting) \in Nat /\ Len(Remote!InFlight) \in Nat
          <5>1. PICK e : e = Near \o hand
            OBVIOUS
          <5>2. e \in Seq(Int) /\ Remote!InFlight = e \o Waiting
            BY <4>4, <5>1
          <5> QED
            BY <4>4, <5>2, ConcatProperties, LenProperties
        <4>6. QueueFrames * Shortest \in Int
          BY <4>1
        <4>7. Len(Remote!InFlight) >= QueueFrames * Shortest
          BY <4>2, <4>3, <4>5, <4>6
        <4> QED
          BY <4>7 DEF Shortest
      <3> QED
        BY <1>6, <3>1, <3>2
    <2>5. (link = "up")' = (link = "up")
      BY <1>2
    <2>6. Remote!Stream!Refuse(n)
      BY <1>1, <1>2, <1>3, <2>3, <2>4, <2>5, Zenon DEF Remote!Stream!Refuse
    <2> QED
      BY <1>4, <2>2, <2>6 DEF Remote!Stream!LossyNext
  <1> QED
    BY <1>5, <1>6

\* The emulator ends, or its sender thread does: what they held is lost.
LEMMA SenderEndsStep ==
    ASSUME Remote!SizesAssumption, RemoteInv, Remote!Quit \/ Remote!SendFails
    PROVE  RemoteInv' /\ [Remote!Stream!LossyNext]_Remote!Stream!vars
  <1>1. /\ channel' = <<>> /\ hand' = <<>> /\ sender' = FALSE /\ link' # "up"
        /\ next' = next /\ wire' = wire /\ chunk' = chunk /\ buffer' = buffer /\ played' = played
    <2>1. CASE Remote!Quit
      <3>1. /\ UNCHANGED <<next, wire, Remote!listening>> /\ channel' = <<>> /\ hand' = <<>>
            /\ sender' = FALSE /\ link' = IF link = "up" THEN "closed" ELSE link
        BY <2>1, Zenon DEF Remote!Quit
      <3>2. link' # "up"
        BY <3>1
      <3> QED
        BY <3>1, <3>2 DEF Remote!listening
    <2>2. CASE Remote!SendFails
      <3>1. /\ UNCHANGED <<emulator, next, link, wire, Remote!listening>> /\ channel' = <<>>
            /\ hand' = <<>> /\ sender' = FALSE /\ link = "broken"
        BY <2>2, Zenon DEF Remote!SendFails
      <3> QED
        BY <3>1 DEF Remote!listening
    <2> QED
      BY <2>1, <2>2
  <1>2. RemoteInv'
    <2>1. /\ wire' \in Seq(Int) /\ chunk' \in Seq(Int) /\ buffer' \in Seq(Int)
          /\ sender' \in BOOLEAN /\ ~sender' => link' # "up"
      BY <1>1 DEF RemoteInv
    <2>2. hand' \in Seq(Int)
      BY <1>1
    <2> QED
      BY <1>1, <2>1, <2>2, InvKept, Zenon
  <1>3. /\ Near \in Seq(Int) /\ hand \o Waiting \in Seq(Int) /\ <<>> \in Seq(Int)
        /\ Remote!InFlight = Near \o (hand \o Waiting)
    BY RemoteParts
  <1>4. Remote!InFlight' = (Near \o <<>>) \o <<>>
    BY <1>1, AfterParts, Zenon DEF Near
  <1>5. PICK x, y : x = Near /\ y = hand \o Waiting
    BY Zenon
  <1>6. x \in Seq(Int) /\ y \in Seq(Int)
    BY <1>3, <1>5
  <1>7. Remote!InFlight = (x \o y) \o <<>>
    <2>1. x \o y \in Seq(Int)
      BY <1>6, Closed, Zenon
    <2>2. (x \o y) \o <<>> = x \o y
      BY <2>1, Neutral, Zenon
    <2> QED
      BY <1>3, <1>5, <2>2, Zenon
  <1>8. Remote!InFlight' = x \o <<>>
    <2>1. x \o <<>> = x
      BY <1>6, Neutral, Zenon
    <2> QED
      BY <1>4, <1>5, <2>1, Zenon
  <1>9. [Remote!Stream!LossyNext]_Remote!Stream!vars
    BY <1>1, <1>3, <1>6, <1>7, <1>8, LoseStep, Zenon
  <1> QED
    BY <1>2, <1>9

\* A batch goes from the channel to the sender's hand.
LEMMA RecvStep ==
    ASSUME Remote!SizesAssumption, RemoteInv, Remote!Recv
    PROVE  RemoteInv' /\ [Remote!Stream!LossyNext]_Remote!Stream!vars
  <1>1. /\ sender /\ hand = <<>> /\ channel # <<>> /\ hand' = Head(channel) /\ channel' = Tail(channel)
        /\ UNCHANGED <<emulator, next, sender, link, wire, Remote!listening>>
    BY Zenon DEF Remote!Recv
  <1>2. /\ next' = next /\ sender' = sender /\ link' = link /\ wire' = wire
        /\ chunk' = chunk /\ buffer' = buffer /\ played' = played
    BY <1>1 DEF Remote!listening
  <1>3. channel \in Seq(Seq(Int)) /\ \A i \in 1 .. Len(channel) : Shortest <= Len(channel[i])
    BY DEF RemoteInv
  <1>4. /\ Len(channel) \in Nat \ {0} /\ Head(channel) = channel[1] /\ Head(channel) \in Seq(Int)
        /\ Tail(channel) \in Seq(Seq(Int)) /\ Len(Tail(channel)) = Len(channel) - 1
        /\ \A i \in 1 .. Len(Tail(channel)) : Tail(channel)[i] = channel[i + 1]
    BY <1>1, <1>3, HeadTailProperties, EmptySeq
  <1>5. RemoteInv'
    <2>1. \A i \in 1 .. Len(Tail(channel)) : i + 1 \in 1 .. Len(channel)
      BY <1>4
    <2>2. \A i \in 1 .. Len(channel') : Shortest <= Len(channel'[i])
      BY <1>1, <1>3, <1>4, <2>1, Zenon
    <2>3. /\ wire' \in Seq(Int) /\ chunk' \in Seq(Int) /\ buffer' \in Seq(Int)
          /\ sender' \in BOOLEAN /\ (~sender' => link' # "up") /\ next' \in 1 .. LastSample + 1
      BY <1>2 DEF RemoteInv
    <2>4. hand' \in Seq(Int) /\ channel' \in Seq(Seq(Int))
      BY <1>1, <1>4
    <2> QED
      BY <2>2, <2>3, <2>4, InvAfter, Zenon
  <1>6. PICK t : t = Remote!FlattenSeq(channel')
    OBVIOUS
  <1>7. Waiting = hand' \o t
    BY <1>1, <1>3, <1>6, FlattenTail DEF Waiting
  <1>8. t \in Seq(Int)
    <2>1. \A c \in Seq(Seq(Int)) : Remote!FlattenSeq(c) \in Seq(Int)
      BY FlattenType
    <2> QED
      BY <1>1, <1>4, <1>6, <2>1, Zenon
  <1>9. Near \in Seq(Int) /\ hand' \in Seq(Int) /\ Remote!InFlight = (Near \o <<>>) \o Waiting
    BY <1>1, <1>4, RemoteParts
  <1>10. PICK x : x = Near
    OBVIOUS
  <1>11. (x \o hand') \o t = x \o (hand' \o t)
    BY <1>8, <1>9, <1>10, Associates, Zenon
  <1>12. x \o <<>> = x
    BY <1>9, <1>10, Neutral, Zenon
  <1>13. Remote!InFlight' = (x \o hand') \o t
    BY <1>2, <1>6, <1>10, AfterParts, Zenon DEF Near
  <1>14. Remote!InFlight' = Remote!InFlight
    BY <1>7, <1>9, <1>10, <1>11, <1>12, <1>13, Zenon
  <1>15. [Remote!Stream!LossyNext]_Remote!Stream!vars
    <2>1. (link = "up") <=> (link' = "up")
      BY <1>2
    <2> QED
      BY <1>2, <1>14, <2>1, StreamSame, Zenon
  <1> QED
    BY <1>5, <1>15

\* The first samples of the hand go onto the wire.
LEMMA SendStep ==
    ASSUME Remote!SizesAssumption, RemoteInv, NEW n \in Nat, Remote!Send(n)
    PROVE  RemoteInv' /\ [Remote!Stream!LossyNext]_Remote!Stream!vars
  <1>1. /\ n <= Len(hand) /\ wire' = wire \o SubSeq(hand, 1, n)
        /\ hand' = SubSeq(hand, n + 1, Len(hand))
        /\ UNCHANGED <<emulator, next, channel, sender, link, Remote!listening>>
    BY Zenon DEF Remote!Send, Remote!Skip
  <1>2. /\ next' = next /\ sender' = sender /\ link' = link /\ channel' = channel
        /\ chunk' = chunk /\ buffer' = buffer /\ played' = played
    BY <1>1 DEF Remote!listening
  <1>3. wire \in Seq(Int) /\ hand \in Seq(Int)
    BY DEF RemoteInv
  <1>4. PICK p, q : /\ p \in Seq(Int) /\ q \in Seq(Int) /\ hand = p \o q
                    /\ wire' = wire \o p /\ hand' = q
    <2>1. n \in 0 .. Len(hand)
      BY <1>1, <1>3
    <2>2. /\ SubSeq(hand, 1, n) \in Seq(Int) /\ SubSeq(hand, n + 1, Len(hand)) \in Seq(Int)
          /\ SubSeq(hand, 1, n) \o SubSeq(hand, n + 1, Len(hand)) = hand
      BY <1>3, <2>1, SplitAt
    <2> QED
      BY <1>1, <2>2, Zenon
  <1>5. RemoteInv'
    <2>1. wire' \in Seq(Int) /\ hand' \in Seq(Int)
      BY <1>3, <1>4, Closed, Zenon
    <2>2. /\ chunk' \in Seq(Int) /\ buffer' \in Seq(Int)
          /\ sender' \in BOOLEAN /\ (~sender' => link' # "up")
      BY <1>2 DEF RemoteInv
    <2> QED
      BY <1>2, <2>1, <2>2, InvKept, Zenon
  <1>6. buffer \o chunk \in Seq(Int)
    BY RemoteParts
  <1>7. PICK y : y = buffer \o chunk
    OBVIOUS
  <1>8. y \in Seq(Int) /\ wire \in Seq(Int) /\ p \in Seq(Int) /\ q \in Seq(Int)
    BY <1>3, <1>4, <1>6, <1>7
  <1>9. (y \o wire) \o (p \o q) = (y \o (wire \o p)) \o q
    <2>1. PICK f : f = p \o q
      OBVIOUS
    <2>2. f \in Seq(Int)
      BY <1>8, <2>1, Closed, Zenon
    <2>3. (y \o wire) \o f = y \o (wire \o f)
      BY <1>8, <2>2, Associates, ZenonT(60)
    <2>4. (wire \o p) \o q = wire \o (p \o q)
      BY <1>8, Associates, ZenonT(60)
    <2>5. PICK g : g = wire \o p
      OBVIOUS
    <2>6. g \in Seq(Int)
      BY <1>8, <2>5, Closed, Zenon
    <2>7. (y \o g) \o q = y \o (g \o q)
      BY <1>8, <2>6, Associates, ZenonT(60)
    <2> QED
      BY <2>1, <2>3, <2>4, <2>5, <2>7, Zenon
  <1>10. Remote!InFlight = ((y \o wire) \o (p \o q)) \o Waiting
    BY <1>4, <1>7, Zenon DEF Remote!InFlight, Waiting
  <1>11. Remote!InFlight' = ((y \o (wire \o p)) \o q) \o Waiting
    BY <1>2, <1>4, <1>7, AfterParts, Zenon
  <1>12. (link = "up") <=> (link' = "up")
    BY <1>2
  <1> QED
    BY <1>2, <1>5, <1>9, <1>10, <1>11, <1>12, StreamSame, Zenon

\* What is written after the connection has broken is lost.
LEMMA SendIntoVoidStep ==
    ASSUME Remote!SizesAssumption, RemoteInv, Remote!SendIntoVoid
    PROVE  RemoteInv' /\ [Remote!Stream!LossyNext]_Remote!Stream!vars
  <1>1. /\ link = "broken" /\ hand' = <<>>
        /\ UNCHANGED <<emulator, next, channel, sender, link, wire, Remote!listening>>
    BY Zenon DEF Remote!SendIntoVoid
  <1>2. /\ next' = next /\ sender' = sender /\ link' = link /\ link' # "up"
        /\ channel' = channel /\ wire' = wire
        /\ chunk' = chunk /\ buffer' = buffer /\ played' = played
    BY <1>1 DEF Remote!listening
  <1>3. RemoteInv'
    <2>1. /\ wire' \in Seq(Int) /\ chunk' \in Seq(Int) /\ buffer' \in Seq(Int)
          /\ sender' \in BOOLEAN /\ (~sender' => link' # "up")
      BY <1>2 DEF RemoteInv
    <2>2. hand' \in Seq(Int)
      BY <1>1
    <2> QED
      BY <1>2, <2>1, <2>2, InvKept, Zenon
  <1>4. /\ Near \in Seq(Int) /\ Waiting \in Seq(Int)
        /\ Remote!InFlight = (Near \o hand) \o Waiting
    BY RemoteParts
  <1>5. hand \in Seq(Int)
    BY DEF RemoteInv
  <1>6. Remote!InFlight' = (Near \o <<>>) \o Waiting
    BY <1>1, <1>2, AfterParts, Zenon DEF Near
  <1>7. Near \o <<>> = Near
    BY <1>4, Neutral
  <1>8. Remote!InFlight' = Near \o Waiting
    BY <1>6, <1>7, Zenon
  <1>9. PICK x, f : x = Near /\ f = Waiting
    BY Zenon
  <1>10. x \in Seq(Int) /\ f \in Seq(Int)
    BY <1>4, <1>9
  <1>11. Remote!InFlight = (x \o hand) \o f /\ Remote!InFlight' = x \o f
    BY <1>4, <1>8, <1>9, Zenon
  <1>12. [Remote!Stream!LossyNext]_Remote!Stream!vars
    BY <1>2, <1>5, <1>10, <1>11, LoseStep, Zenon
  <1> QED
    BY <1>3, <1>12

\* The connection breaks: the last part of the wire is lost.
LEMMA BreakStep ==
    ASSUME Remote!SizesAssumption, RemoteInv, Remote!Break
    PROVE  RemoteInv' /\ [Remote!Stream!LossyNext]_Remote!Stream!vars
  <1>1. /\ link' = "broken" /\ UNCHANGED <<Remote!sending, Remote!listening>>
        /\ \E n \in 0 .. Len(wire) : wire' = SubSeq(wire, 1, n)
    BY Zenon DEF Remote!Break
  <1>2. /\ next' = next /\ sender' = sender /\ link' # "up" /\ channel' = channel /\ hand' = hand
        /\ chunk' = chunk /\ buffer' = buffer /\ played' = played
    BY <1>1 DEF Remote!listening, Remote!sending
  <1>3. wire \in Seq(Int) /\ hand \in Seq(Int)
    BY DEF RemoteInv
  <1>4. PICK p, q : p \in Seq(Int) /\ q \in Seq(Int) /\ wire = p \o q /\ wire' = p
    <2>1. PICK n \in 0 .. Len(wire) : wire' = SubSeq(wire, 1, n)
      BY <1>1
    <2>2. /\ SubSeq(wire, 1, n) \in Seq(Int) /\ SubSeq(wire, n + 1, Len(wire)) \in Seq(Int)
          /\ SubSeq(wire, 1, n) \o SubSeq(wire, n + 1, Len(wire)) = wire
      BY <1>3, SplitAt
    <2> QED
      BY <2>1, <2>2, Zenon
  <1>5. RemoteInv'
    <2>1. /\ hand' \in Seq(Int) /\ chunk' \in Seq(Int) /\ buffer' \in Seq(Int)
          /\ sender' \in BOOLEAN /\ (~sender' => link' # "up")
      BY <1>2 DEF RemoteInv
    <2> QED
      BY <1>2, <1>4, <2>1, InvKept, Zenon
  <1>6. /\ buffer \o chunk \in Seq(Int) /\ Waiting \in Seq(Int) /\ hand \o Waiting \in Seq(Int)
        /\ Remote!InFlight = Near \o (hand \o Waiting)
    BY RemoteParts
  <1>7. PICK y, f, r : y = buffer \o chunk /\ f = Waiting /\ r = hand \o Waiting
    BY Zenon
  <1>8. y \in Seq(Int) /\ f \in Seq(Int) /\ r \in Seq(Int) /\ r = hand \o f
    BY <1>6, <1>7
  <1>9. PICK a : a = y \o p
    OBVIOUS
  <1>10. a \in Seq(Int)
    BY <1>4, <1>8, <1>9, Closed, Zenon
  <1>11. Remote!InFlight = (a \o q) \o r
    <2>1. Near = y \o (p \o q)
      BY <1>4, <1>7, Zenon DEF Near
    <2>2. (y \o p) \o q = y \o (p \o q)
      <3>1. y \in Seq(Int) /\ p \in Seq(Int) /\ q \in Seq(Int)
        BY <1>4, <1>8
      <3> QED
        BY <3>1, Associates, Zenon
    <2>3. Near = a \o q
      BY <1>9, <2>1, <2>2
    <2>4. Remote!InFlight = Near \o r
      BY <1>6, <1>7, Zenon
    <2> QED
      BY <2>3, <2>4, Zenon
  <1>12. Remote!InFlight' = a \o r
    <2>1. Remote!InFlight' = (a \o hand) \o f
      BY <1>2, <1>4, <1>7, <1>9, AfterParts, Zenon
    <2>2. (a \o hand) \o f = a \o (hand \o f)
      BY <1>3, <1>8, <1>10, Associates, ZenonT(60)
    <2> QED
      BY <1>8, <2>1, <2>2, Zenon
  <1>13. [Remote!Stream!LossyNext]_Remote!Stream!vars
    BY <1>2, <1>4, <1>8, <1>10, <1>11, <1>12, LoseStep, Zenon
  <1> QED
    BY <1>5, <1>13

\* The first samples on the wire go to the chunk.
LEMMA ReceiveStep ==
    ASSUME Remote!SizesAssumption, RemoteInv, NEW n \in Nat, Remote!Receive(n)
    PROVE  RemoteInv' /\ [Remote!Stream!LossyNext]_Remote!Stream!vars
  <1>1. /\ n <= Len(wire) /\ chunk' = chunk \o SubSeq(wire, 1, n)
        /\ wire' = SubSeq(wire, n + 1, Len(wire))
        /\ UNCHANGED <<Remote!sending, link, listener, buffer, played>>
    BY Zenon DEF Remote!Receive, Remote!Skip
  <1>2. /\ next' = next /\ sender' = sender /\ link' = link /\ channel' = channel
        /\ hand' = hand /\ buffer' = buffer /\ played' = played
    BY <1>1 DEF Remote!sending
  <1>3. wire \in Seq(Int) /\ chunk \in Seq(Int) /\ buffer \in Seq(Int)
    BY DEF RemoteInv
  <1>4. PICK p, q : /\ p \in Seq(Int) /\ q \in Seq(Int) /\ wire = p \o q
                    /\ chunk' = chunk \o p /\ wire' = q
    <2>1. n \in 0 .. Len(wire)
      BY <1>1, <1>3
    <2>2. /\ SubSeq(wire, 1, n) \in Seq(Int) /\ SubSeq(wire, n + 1, Len(wire)) \in Seq(Int)
          /\ SubSeq(wire, 1, n) \o SubSeq(wire, n + 1, Len(wire)) = wire
      BY <1>3, <2>1, SplitAt
    <2> QED
      BY <1>1, <2>2, Zenon
  <1>5. RemoteInv'
    <2>1. wire' \in Seq(Int) /\ chunk' \in Seq(Int)
      BY <1>3, <1>4, Closed, Zenon
    <2>2. /\ hand' \in Seq(Int) /\ buffer' \in Seq(Int)
          /\ sender' \in BOOLEAN /\ (~sender' => link' # "up")
      BY <1>2 DEF RemoteInv
    <2> QED
      BY <1>2, <2>1, <2>2, InvKept, Zenon
  <1>6. buffer \in Seq(Int) /\ chunk \in Seq(Int) /\ p \in Seq(Int) /\ q \in Seq(Int)
    BY <1>3, <1>4
  <1>7. (buffer \o chunk) \o (p \o q) = (buffer \o (chunk \o p)) \o q
    <2>1. PICK f : f = p \o q
      OBVIOUS
    <2>2. f \in Seq(Int)
      BY <1>6, <2>1, Closed, Zenon
    <2>3. (buffer \o chunk) \o f = buffer \o (chunk \o f)
      BY <1>6, <2>2, Associates, ZenonT(60)
    <2>4. (chunk \o p) \o q = chunk \o (p \o q)
      BY <1>6, Associates, ZenonT(60)
    <2>5. PICK g : g = chunk \o p
      OBVIOUS
    <2>6. g \in Seq(Int)
      BY <1>6, <2>5, Closed, Zenon
    <2>7. (buffer \o g) \o q = buffer \o (g \o q)
      BY <1>6, <2>6, Associates, ZenonT(60)
    <2> QED
      BY <2>1, <2>3, <2>4, <2>5, <2>7, Zenon
  <1>8. Remote!InFlight = (((buffer \o chunk) \o (p \o q)) \o hand) \o Waiting
    BY <1>4, Zenon DEF Remote!InFlight, Waiting
  <1>9. Remote!InFlight' = (((buffer \o (chunk \o p)) \o q) \o hand) \o Waiting
    BY <1>2, <1>4, AfterParts, Zenon
  <1>10. (link = "up") <=> (link' = "up")
    BY <1>2
  <1> QED
    BY <1>2, <1>5, <1>7, <1>8, <1>9, <1>10, StreamSame, Zenon

\* A chunk goes to the playback queue.
LEMMA PushChunkStep ==
    ASSUME Remote!SizesAssumption, RemoteInv, Remote!PushChunk
    PROVE  RemoteInv' /\ [Remote!Stream!LossyNext]_Remote!Stream!vars
  <1>1. /\ buffer' = buffer \o chunk /\ chunk' = <<>>
        /\ UNCHANGED <<Remote!sending, link, wire, listener, played>>
    BY Zenon DEF Remote!PushChunk
  <1>2. /\ next' = next /\ sender' = sender /\ link' = link /\ channel' = channel
        /\ hand' = hand /\ wire' = wire /\ played' = played
    BY <1>1 DEF Remote!sending
  <1>3. buffer \o chunk \in Seq(Int)
    BY RemoteParts
  <1>4. RemoteInv'
    <2>1. buffer' \in Seq(Int)
      BY <1>1, <1>3
    <2>2. chunk' \in Seq(Int)
      BY <1>1
    <2>3. /\ hand' \in Seq(Int) /\ wire' \in Seq(Int)
          /\ sender' \in BOOLEAN /\ (~sender' => link' # "up")
      BY <1>2 DEF RemoteInv
    <2> QED
      BY <1>2, <2>1, <2>2, <2>3, InvKept, Zenon
  <1>5. PICK y : y = buffer \o chunk
    OBVIOUS
  <1>6. y \o <<>> = y
    BY <1>3, <1>5, Neutral, Zenon
  <1>7. Remote!InFlight' = (((y \o <<>>) \o wire) \o hand) \o Waiting
    BY <1>1, <1>2, <1>5, AfterParts, Zenon
  <1>8. Remote!InFlight = ((y \o wire) \o hand) \o Waiting
    BY <1>5, Zenon DEF Remote!InFlight, Waiting
  <1>9. (link = "up") <=> (link' = "up")
    BY <1>2
  <1> QED
    BY <1>2, <1>4, <1>6, <1>7, <1>8, <1>9, StreamSame, Zenon

\* The listener ends: what it holds, and what it cannot read any more, is lost.
LEMMA ListenerEndsStep ==
    ASSUME Remote!SizesAssumption, RemoteInv, Remote!StreamEnds \/ Remote!KillListener
    PROVE  RemoteInv' /\ [Remote!Stream!LossyNext]_Remote!Stream!vars
  <1>1. /\ chunk' = <<>> /\ buffer' = <<>> /\ wire' = <<>> /\ link' # "up"
        /\ next' = next /\ sender' = sender /\ channel' = channel /\ hand' = hand
        /\ played' = played
    <2>1. CASE Remote!StreamEnds
      <3>1. /\ link # "up" /\ wire = <<>> /\ chunk' = <<>> /\ buffer' = <<>>
            /\ UNCHANGED <<Remote!sending, link, wire, played>>
        BY <2>1, Zenon DEF Remote!StreamEnds
      <3> QED
        BY <3>1 DEF Remote!sending
    <2>2. CASE Remote!KillListener
      <3>1. /\ chunk' = <<>> /\ buffer' = <<>> /\ wire' = <<>>
            /\ link' = IF link = "up" THEN "broken" ELSE link
            /\ UNCHANGED <<Remote!sending, played>>
        BY <2>2, Zenon DEF Remote!KillListener
      <3>2. link' # "up"
        BY <3>1
      <3> QED
        BY <3>1, <3>2 DEF Remote!sending
    <2> QED
      BY <2>1, <2>2
  <1>2. RemoteInv'
    <2>1. /\ hand' \in Seq(Int) /\ sender' \in BOOLEAN /\ (~sender' => link' # "up")
      BY <1>1 DEF RemoteInv
    <2>2. wire' \in Seq(Int) /\ chunk' \in Seq(Int) /\ buffer' \in Seq(Int)
      BY <1>1
    <2> QED
      BY <1>1, <2>1, <2>2, InvKept, Zenon
  <1>3. /\ Near \in Seq(Int) /\ hand \o Waiting \in Seq(Int) /\ <<>> \in Seq(Int)
        /\ Remote!InFlight = Near \o (hand \o Waiting)
    BY RemoteParts
  <1>4. PICK x, y : x = Near /\ y = hand \o Waiting
    BY Zenon
  <1>5. x \in Seq(Int) /\ y \in Seq(Int)
    BY <1>3, <1>4
  <1>6. Remote!InFlight = (<<>> \o x) \o y
    <2>1. <<>> \o x = x
      BY <1>5, Neutral, Zenon
    <2> QED
      BY <1>3, <1>4, <2>1, Zenon
  <1>7. Remote!InFlight' = <<>> \o y
    <2>1. Remote!InFlight' = (((<<>> \o <<>>) \o <<>>) \o hand) \o Waiting
      BY <1>1, AfterParts, Zenon
    <2>2. <<>> \o <<>> = <<>>
      BY Neutral, Zenon
    <2>3. hand \in Seq(Int)
      BY DEF RemoteInv
    <2>4. <<>> \o hand = hand
      BY <2>3, Neutral, Zenon
    <2>5. <<>> \o y = y
      BY <1>5, Neutral, Zenon
    <2> QED
      BY <1>4, <2>1, <2>2, <2>4, <2>5, Zenon
  <1>8. [Remote!Stream!LossyNext]_Remote!Stream!vars
    BY <1>1, <1>3, <1>5, <1>6, <1>7, LoseStep, Zenon
  <1> QED
    BY <1>2, <1>8

\* The listener's device plays the first samples of the queue.
LEMMA CallbackStep ==
    ASSUME Remote!SizesAssumption, RemoteInv, NEW n \in PlaySizes, Remote!Callback(n)
    PROVE  RemoteInv' /\ [Remote!Stream!LossyNext]_Remote!Stream!vars
  <1> PICK m : m = Remote!Min({n, Len(buffer)})
    OBVIOUS
  <1>1. /\ buffer # <<>> /\ played' = buffer[m] /\ buffer' = SubSeq(buffer, m + 1, Len(buffer))
        /\ UNCHANGED <<Remote!sending, link, wire, listener, chunk>>
    BY Zenon DEF Remote!Callback, Remote!Skip
  <1>2. /\ next' = next /\ sender' = sender /\ link' = link /\ channel' = channel
        /\ hand' = hand /\ wire' = wire /\ chunk' = chunk
    BY <1>1 DEF Remote!sending
  <1>3. /\ hand \in Seq(Int) /\ wire \in Seq(Int) /\ chunk \in Seq(Int) /\ buffer \in Seq(Int)
        /\ Waiting \in Seq(Int)
    BY RemoteParts DEF RemoteInv
  <1>4. /\ m \in 1 .. Remote!Max(BatchSizes \cup PlaySizes) /\ m \in 1 .. Len(buffer)
    <2>1. /\ n \in Nat \ {0} /\ n \in 1 .. Remote!Max(BatchSizes \cup PlaySizes)
          /\ Remote!Max(BatchSizes \cup PlaySizes) \in Nat
      BY RemoteSizes
    <2>2. Len(buffer) \in Nat \ {0}
      BY <1>1, <1>3, EmptySeq
    <2>3. {n, Len(buffer)} \subseteq Nat /\ {n, Len(buffer)} # {}
      BY <2>1, <2>2
    <2>4. m \in {n, Len(buffer)} /\ \A x \in {n, Len(buffer)} : m <= x
      BY <2>3, MinIs
    <2>5. (m = n \/ m = Len(buffer)) /\ m <= n /\ m <= Len(buffer)
      BY <2>4
    <2> QED
      BY <2>1, <2>2, <2>5
  <1>5. PICK r : r = chunk \o (wire \o (hand \o Waiting))
    OBVIOUS
  <1>6. r \in Seq(Int)
    <2>1. hand \o Waiting \in Seq(Int)
      BY RemoteParts
    <2>2. PICK h : h = hand \o Waiting
      OBVIOUS
    <2>3. wire \o h \in Seq(Int)
      BY <1>3, <2>1, <2>2, Closed, Zenon
    <2>4. PICK w : w = wire \o h
      OBVIOUS
    <2>5. chunk \o w \in Seq(Int)
      BY <1>3, <2>3, <2>4, Closed, Zenon
    <2> QED
      BY <1>5, <2>2, <2>4, <2>5
  <1>7. \A b \in Seq(Int) : (((b \o chunk) \o wire) \o hand) \o Waiting = b \o r
    <2> SUFFICES ASSUME NEW b \in Seq(Int)
                 PROVE  (((b \o chunk) \o wire) \o hand) \o Waiting = b \o r
      BY Zenon
    <2>1. PICK y, h, w : y = b \o chunk /\ h = hand \o Waiting /\ w = wire \o h
      BY Zenon
    <2>2. y \in Seq(Int)
      BY <1>3, <2>1, Closed
    <2>3. h \in Seq(Int)
      BY <2>1, RemoteParts
    <2>4. w \in Seq(Int)
      BY <1>3, <2>1, <2>3, Closed
    <2>5. PICK x : x = y \o wire
      OBVIOUS
    <2>6. x \in Seq(Int)
      BY <1>3, <2>2, <2>5, Closed
    <2>7. (x \o hand) \o Waiting = x \o (hand \o Waiting)
      BY <1>3, <2>6, Associates, ZenonT(60)
    <2>8. (y \o wire) \o h = y \o (wire \o h)
      <3>1. wire \in Seq(Int)
        BY <1>3
      <3> QED
        BY <2>2, <2>3, <3>1, Associates, ZenonT(60)
    <2>9. (b \o chunk) \o w = b \o (chunk \o w)
      BY <1>3, <2>4, Associates, ZenonT(60)
    <2>10. (x \o hand) \o Waiting = y \o w
      <3>1. x \o (hand \o Waiting) = x \o h
        BY <2>1, Zenon
      <3>2. x \o h = (y \o wire) \o h
        BY <2>5, Zenon
      <3>3. y \o (wire \o h) = y \o w
        BY <2>1, Zenon
      <3> QED
        BY <2>7, <2>8, <3>1, <3>2, <3>3, Zenon
    <2>11. r = chunk \o w
      BY <1>5, <2>1, Zenon
    <2>12. (((b \o chunk) \o wire) \o hand) \o Waiting = (x \o hand) \o Waiting
      BY <2>1, <2>5, Zenon
    <2>13. y \o w = (b \o chunk) \o w
      BY <2>1, Zenon
    <2>14. b \o r = b \o (chunk \o w)
      BY <2>11, Zenon
    <2> QED
      BY <2>9, <2>10, <2>12, <2>13, <2>14, Zenon
  <1>8. Remote!InFlight = buffer \o r
    BY <1>3, <1>7, Zenon DEF Remote!InFlight, Waiting
  <1>9. buffer' \in Seq(Int) /\ m \in 0 .. Len(buffer)
    <2>1. m \in 0 .. Len(buffer)
      BY <1>4
    <2>2. SubSeq(buffer, m + 1, Len(buffer)) \in Seq(Int)
      BY <1>3, <2>1, SplitAt
    <2> QED
      BY <1>1, <2>1, <2>2
  <1>10. Remote!InFlight' = buffer' \o r
    <2>1. Remote!InFlight' = (((buffer' \o chunk) \o wire) \o hand) \o Waiting
      BY <1>2, AfterParts, Zenon
    <2>2. PICK b \in Seq(Int) : b = buffer'
      BY <1>9
    <2>3. (((b \o chunk) \o wire) \o hand) \o Waiting = b \o r
      BY <1>7
    <2> QED
      BY <2>1, <2>2, <2>3
  <1>11. /\ Len(buffer \o r) = Len(buffer) + Len(r) /\ Len(r) \in Nat /\ Len(buffer) \in Nat
         /\ SubSeq(buffer \o r, m + 1, Len(buffer \o r)) = SubSeq(buffer, m + 1, Len(buffer)) \o r
         /\ (buffer \o r)[m] = buffer[m]
    <2>1. /\ Len(buffer \o r) = Len(buffer) + Len(r)
          /\ SubSeq(buffer \o r, m + 1, Len(buffer \o r)) = SubSeq(buffer, m + 1, Len(buffer)) \o r
          /\ \A i \in 1 .. Len(buffer) : (buffer \o r)[i] = buffer[i]
      <3>1. \A u \in Seq(Int), v \in Seq(Int) : \A i \in 0 .. Len(u) :
               /\ Len(u \o v) = Len(u) + Len(v)
               /\ SubSeq(u \o v, i + 1, Len(u \o v)) = SubSeq(u, i + 1, Len(u)) \o v
               /\ \A j \in 1 .. Len(u) : (u \o v)[j] = u[j]
        BY SkipFirst
      <3> QED
        BY <1>3, <1>6, <1>9, <3>1, ZenonT(60)
    <2>2. Len(r) \in Nat /\ Len(buffer) \in Nat
      BY <1>3, <1>6, LenProperties
    <2> QED
      BY <1>4, <2>1, <2>2, Zenon
  <1>12. m <= Len(Remote!InFlight)
    BY <1>4, <1>8, <1>11
  <1>13. (link = "up")' = (link = "up")
    BY <1>2
  <1>14. /\ played' = Remote!InFlight[m]
         /\ Remote!InFlight' = SubSeq(Remote!InFlight, m + 1, Len(Remote!InFlight))
    BY <1>1, <1>8, <1>10, <1>11, Zenon
  <1>15. Remote!Stream!Play(m)
    BY <1>2, <1>12, <1>13, <1>14, Zenon DEF Remote!Stream!Play
  <1>16. RemoteInv'
    <2>1. /\ hand' \in Seq(Int) /\ wire' \in Seq(Int) /\ chunk' \in Seq(Int)
          /\ sender' \in BOOLEAN /\ (~sender' => link' # "up")
      BY <1>2 DEF RemoteInv
    <2> QED
      BY <1>2, <1>9, <2>1, InvKept, Zenon
  <1> QED
    BY <1>4, <1>15, <1>16 DEF Remote!Stream!LossyNext, Remote!Stream!LosslessNext

LEMMA RemoteInit ==
    ASSUME Remote!SizesAssumption, Remote!Init
    PROVE  RemoteInv /\ Remote!Stream!Init
  <1>1. /\ <<>> \in Seq(Int) /\ <<>> \in Seq(Seq(Int)) /\ Len(<<>>) = 0 /\ <<>> \o <<>> = <<>>
        /\ \A i \in 1 .. 0 : FALSE
    OBVIOUS
  <1>2. /\ next = 1 /\ channel = <<>> /\ sender = TRUE /\ hand = <<>> /\ link = "up"
        /\ wire = <<>> /\ chunk = <<>> /\ buffer = <<>> /\ played = 0
    BY DEF Remote!Init
  <1>3. Remote!FlattenSeq(<<>>) = <<>>
    BY DEF Remote!FlattenSeq
  <1>4. RemoteInv
    <2>1. next \in 1 .. LastSample + 1
      BY <1>2, RemoteSizes
    <2> QED
      BY <1>1, <1>2, <2>1, Zenon DEF RemoteInv
  <1>5. Remote!InFlight = <<>>
    BY <1>1, <1>2, <1>3, Zenon DEF Remote!InFlight
  <1>6. (link = "up") = TRUE
    BY <1>2
  <1> QED
    BY <1>2, <1>4, <1>5, <1>6, Zenon DEF Remote!Stream!Init

LEMMA RemoteStutter ==
    ASSUME RemoteInv, UNCHANGED remote_vars
    PROVE  RemoteInv' /\ [Remote!Stream!LossyNext]_Remote!Stream!vars
  <1>1. /\ emulator' = emulator /\ next' = next /\ channel' = channel /\ sender' = sender
        /\ hand' = hand /\ link' = link /\ wire' = wire /\ listener' = listener
        /\ chunk' = chunk /\ buffer' = buffer /\ played' = played
    BY DEF remote_vars
  <1>2. RemoteInv'
    <2>1. /\ hand' \in Seq(Int) /\ wire' \in Seq(Int) /\ chunk' \in Seq(Int) /\ buffer' \in Seq(Int)
          /\ sender' \in BOOLEAN /\ (~sender' => link' # "up")
      BY <1>1 DEF RemoteInv
    <2> QED
      BY <1>1, <2>1, InvKept, Zenon
  <1>3. Remote!InFlight' = Remote!InFlight
    BY <1>1, Zenon DEF Remote!InFlight
  <1>4. (link = "up") <=> (link' = "up")
    BY <1>1
  <1> QED
    BY <1>1, <1>2, <1>3, <1>4, StreamSame, Zenon

LEMMA RemoteNext ==
    ASSUME Remote!SizesAssumption, RemoteInv, [Next]_vars
    PROVE  RemoteInv' /\ [Remote!Stream!LossyNext]_Remote!Stream!vars
  <1>1. Remote!Next \/ UNCHANGED remote_vars
    BY DEF Next, OfKeys, OfLocal, OfRemote, vars
  <1>2. CASE UNCHANGED remote_vars
    BY <1>2, RemoteStutter, Zenon
  <1>3. CASE Remote!Next
    <2>1. CASE \E n \in BatchSizes : Remote!QueueSamples(n)
      BY <2>1, QueueSamplesStep, Zenon
    <2>2. CASE Remote!Quit \/ Remote!SendFails
      BY <2>2, SenderEndsStep, Zenon
    <2>3. CASE Remote!Recv
      BY <2>3, RecvStep, Zenon
    <2>4. CASE Remote!SomeSend
      <3>1. WireCap \in Nat \ {0} /\ \A n \in 1 .. WireCap : n \in Nat
        BY DEF Remote!SizesAssumption
      <3>2. PICK n \in Nat : Remote!Send(n)
        BY <2>4, <3>1, Zenon DEF Remote!SomeSend
      <3> QED
        BY <3>2, SendStep, Zenon
    <2>5. CASE Remote!SendIntoVoid
      BY <2>5, SendIntoVoidStep, Zenon
    <2>6. CASE Remote!Break
      BY <2>6, BreakStep, Zenon
    <2>7. CASE Remote!SomeReceive
      <3>1. ChunkSamples \in Nat \ {0} /\ \A n \in 1 .. ChunkSamples : n \in Nat
        BY DEF Remote!SizesAssumption
      <3>2. PICK n \in Nat : Remote!Receive(n)
        BY <2>7, <3>1, Zenon DEF Remote!SomeReceive
      <3> QED
        BY <3>2, ReceiveStep, Zenon
    <2>8. CASE Remote!PushChunk
      BY <2>8, PushChunkStep, Zenon
    <2>9. CASE Remote!StreamEnds \/ Remote!KillListener
      BY <2>9, ListenerEndsStep, Zenon
    <2>10. CASE Remote!SomeCallback
      BY <2>10, CallbackStep, Zenon DEF Remote!SomeCallback
    <2> QED
      BY <1>3, <2>1, <2>2, <2>3, <2>4, <2>5, <2>6, <2>7, <2>8, <2>9, <2>10, Zenon
         DEF Remote!Next
  <1> QED
    BY <1>1, <1>2, <1>3

\* What is heard far away is heard once and in order, whatever was refused or
\* lost; as long as the connection is up nothing that entered the channel is
\* lost, and nothing is refused unless a channelful waits (remote_audio.rs).
THEOREM RemoteRefinement == Spec => Remote!ImplementsStream
  <1>1. Remote!SizesAssumption
    BY PartsAssumption
  <1>2. Init => RemoteInv /\ Remote!Stream!Init
    BY <1>1, RemoteInit DEF Init
  <1>3. RemoteInv /\ [Next]_vars => RemoteInv' /\ [Remote!Stream!LossyNext]_Remote!Stream!vars
    BY <1>1, RemoteNext
  <1> QED
    BY <1>2, <1>3, PTL DEF Spec, Remote!ImplementsStream, Remote!Stream!Lossy

\* Both ways to a device implement SampleStream (audio.rs, remote_audio.rs).
THEOREM StreamImplemented == Spec => ImplementsStream
  BY LocalRefinement, RemoteRefinement DEF ImplementsStream

=============================================================================
