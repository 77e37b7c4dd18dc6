------------------------- MODULE GoalRoundsProofs -------------------------
(***************************************************************************)
(* Proofs about GoalRounds, for every number of prompts, edits and mishaps *)
(* and every set of caps.                                                  *)
(*                                                                         *)
(* The driver's loop runs inside listeners, so that one step of the agent  *)
(* runs a chain of operators on worlds.  Each operator has a lemma that    *)
(* says what it may do to the goal and to the attempt (Drives, Idles,      *)
(* Closed); the steps are proved from those.  Three invariants build on    *)
(* one another: Shape has the types, RoundsInv relates every round that is *)
(* pending or attempted to the goal, PeopleInv says where people's prompts *)
(* are and what a cancel leaves.                                           *)
(***************************************************************************)
EXTENDS GoalRounds, FiniteSetTheorems, SequenceTheorems, TLAPS

Rounds == [kind : {"round"}, id : Nat, revision : Nat \ {0}, round : Nat \ {0}]
Messages == Prompts \cup Rounds
Goals == [id : Nat, revision : Nat \ {0}, phase : Phases, cap : Caps, rounds : Nat]
Attempts ==
  [message : Rounds, phase : {"queued", "claimed", "admitted"}, cancelled : BOOLEAN, stale : BOOLEAN]
Caches == [goal : Goals \cup {NoGoal}, armed : BOOLEAN, corrupt : BOOLEAN]
States ==
  [attempt : Attempts \cup {NoAttempt}, competing : BOOLEAN, checkpoint : BOOLEAN,
   requested : BOOLEAN, run : BOOLEAN, flushing : Nat, retiring : Nat]
Worlds == [cache : Caches, state : States, idle : BOOLEAN, reserves : {"none", "fresh", "loop"}]

\* A round stands last in what a turn claimed.
LoneRound(messages) == \A i \in DOMAIN messages : messages[i].kind = "round" => i = Len(messages)
\* No message of a kind is listed twice.
Once(kind, messages) ==
  \A i, j \in DOMAIN messages : messages[i].kind = kind /\ messages[i] = messages[j] => i = j

Suspends(s) == s.flushing + s.retiring > 0

GoalShape ==
  /\ cache \in Caches
  /\ cache.armed => cache.goal.phase = "active"
DriverShape ==
  /\ state \in States
  /\ state.run => Suspends(state) \/ frame = "loop"
  /\ fiber \in {"up", "closing", "draining", "down"}
  /\ fiber = "down" => state = FreshState
TurnShape ==
  /\ pc \in Watched \cup {"idle", "returned", "failing", "ended", "exiting"}
  /\ frame \in {"none", "fresh", "loop"} /\ aborted \in BOOLEAN /\ latch \in BOOLEAN
  /\ batch \in Seq(Messages) /\ LoneRound(batch)
  /\ pc \notin {"claimed", "deciding", "entering"} => batch = <<>>
  /\ pc = "idle" => ~aborted /\ ~latch
  /\ frame # "none" => pc = "idle" /\ fiber = "up" /\ state.attempt.phase = "queued"
  /\ pc = "deciding" => HoldsRound
  /\ excuse # "none" => pc = "entering" /\ HoldsRound
InboxShape == nextTurn \in Seq(Messages) /\ nextStep \in Seq(Prompts)
HistoryShape ==
  /\ spent \in [prompts : 0 .. MaxPrompts, edits : Nat, mishaps : Nat]
  /\ excuse \in {"none", "slipped", "unfenced"} /\ revoked \in BOOLEAN
  /\ breaches \subseteq {"stale", "slipped", "unfenced", "overtook", "restarted"}
Shape == GoalShape /\ DriverShape /\ TurnShape /\ InboxShape /\ HistoryShape

\* The attempt is for the round the goal would start now.
Live(c, attempt) == Driven(c) /\ attempt # NoAttempt /\ attempt.message = RoundOf(c.goal)

\* A round never runs ahead of the goal it is for, and its identity was given out.
Behind(m, c) ==
  c.goal # NoGoal /\ m.id = c.goal.id =>
    /\ m.revision <= c.goal.revision
    /\ m.revision = c.goal.revision => m.round <= c.goal.rounds + 1
Minted(id, c, edits) ==
  id <= edits \/ (id = 1 /\ edits = 0 /\ c.goal.phase \notin {"none", "complete"})
Past(m, c, edits) == Behind(m, c) /\ Minted(m.id, c, edits)

\* The rounds in messages and the attempt, against the goal.
Relates(c, attempt, messages, edits) ==
  /\ \A m \in RoundsIn(messages) : Past(m, c, edits)
  /\ attempt # NoAttempt => Past(attempt.message, c, edits)
  /\ c.goal # NoGoal => Minted(c.goal.id, c, edits)
  /\ Live(c, attempt) => c.goal.rounds < c.goal.cap /\ attempt.phase # "admitted"
  /\ Driven(c) => RoundOf(c.goal) \notin messages \/ Live(c, attempt)

Pending == Elements(nextTurn) \cup Elements(batch)

\* The round that is about to enter is the goal's next.
Next1 == Driven(cache) /\ TheRound = RoundOf(cache.goal) /\ cache.goal.rounds < cache.goal.cap

\* A turn is under way, or about to wake, for an attempt that is live.
Attended == Live(cache, state.attempt) => fiber = "up" /\ (pc # "idle" \/ frame # "none")
\* What the fence has looked at.
Fenced ==
  /\ pc = "deciding" => state.attempt = NoAttempt \/ state.attempt.message = TheRound
  /\ pc = "entering" /\ HoldsRound /\ excuse = "none" => Next1
RoundsOnce == Once("round", nextTurn) /\ RoundsIn(Elements(batch)) \cap Elements(nextTurn) = {}
Admitted == "stale" \notin breaches /\ (cache.corrupt => breaches \cap {"slipped", "unfenced"} # {})

RoundsInv ==
  /\ Relates(cache, state.attempt, Pending, spent.edits)
  /\ Attended /\ Fenced /\ RoundsOnce /\ Admitted

\* A prompt behind a queued round makes it stale.
Alone(attempt, messages) ==
  attempt.phase = "queued" /\ ~attempt.stale =>
    \A i, j \in DOMAIN messages : messages[i] = attempt.message /\ i < j => messages[j].kind = "round"
\* A claimed round has left the queue.
Claims(attempt, messages) ==
  attempt.phase \in {"claimed", "admitted"} => attempt.message \notin Elements(messages)
Unwaited ==
  /\ Alone(state.attempt, nextTurn)
  /\ Claims(state.attempt, nextTurn)
  /\ pc = "claimed" /\ HoldsRound /\ state.attempt.phase = "claimed" /\ ~state.attempt.stale
       /\ TheRound = state.attempt.message => waiting = {}
  /\ pc \in {"deciding", "entering"} /\ HoldsRound /\ excuse # "unfenced" => waiting = {}
  /\ "overtook" \notin breaches

\* A round that a cancel took from its place.
Cut(attempt, messages) == attempt # NoAttempt /\ attempt.cancelled /\ attempt.message \notin messages
\* A cancel that nobody took back will end in a pause: the turn has yet to look
\* at its signal, or its round was cut.
Withdrawn ==
  /\ revoked /\ Driven(cache) /\ fiber = "up" =>
       \/ pc \in Watched /\ aborted
       \/ Cut(state.attempt, Pending) /\ (pc # "idle" \/ frame # "none")
  /\ "restarted" \notin breaches

\* Everything sent is in one place.
Parted(sent, turns, steps, claimed, entered, gone) ==
  /\ sent = turns \cup steps \cup claimed \cup entered \cup gone
  /\ turns \cap steps = {} /\ turns \cap claimed = {} /\ turns \cap entered = {} /\ turns \cap gone = {}
  /\ steps \cap claimed = {} /\ steps \cap entered = {} /\ steps \cap gone = {}
  /\ claimed \cap entered = {} /\ claimed \cap gone = {} /\ entered \cap gone = {}
Kept ==
  /\ Once("prompt", nextTurn)
  /\ Parted(Sent, PromptsIn(Elements(nextTurn)), Elements(nextStep), PromptsIn(Elements(batch)), served, dropped)

PeopleInv == Unwaited /\ Withdrawn /\ Kept
Inv == Shape /\ RoundsInv /\ PeopleInv
-----------------------------------------------------------------------------
(* Records and sequences *)

LEMMA GoalIs ==
  /\ \A g \in Goals : g # NoGoal /\ g.phase # "none" /\ g.phase \in Phases
  /\ NoGoal.phase = "none"
BY DEF Goals, NoGoal, Phases

LEMMA AttemptIs ==
  /\ \A a \in Attempts : a # NoAttempt /\ a.phase # "none" /\ a.message \in Rounds
  /\ NoAttempt.phase = "none"
BY DEF Attempts, NoAttempt

LEMMA MessageIs ==
  /\ \A m \in Rounds : m.kind = "round" /\ m \notin Prompts
  /\ \A m \in Prompts : m.kind = "prompt"
BY DEF Rounds, Prompts, Prompt

\* An active goal names its next round.
LEMMA RoundIs ==
  ASSUME NEW g \in Goals
  PROVE  /\ RoundOf(g) \in Rounds /\ RoundOf(g).id = g.id /\ RoundOf(g).revision = g.revision
         /\ RoundOf(g).round = g.rounds + 1
         /\ Reservation(g) \in Attempts /\ Reservation(g).message = RoundOf(g)
         /\ Reservation(g).phase = "queued" /\ ~Reservation(g).stale
BY DEF Goals, RoundOf, Rounds, Reservation, Attempts

LEMMA SameRound ==
  ASSUME NEW m \in Rounds, NEW n \in Rounds, m.id = n.id, m.revision = n.revision, m.round = n.round
  PROVE  m = n
BY DEF Rounds

LEMMA DrivenGoal ==
  ASSUME NEW c \in Caches, Driven(c)
  PROVE  c.goal \in Goals /\ c.goal.phase = "active" /\ c.armed /\ ~c.corrupt
BY GoalIs DEF Driven, Caches

\* The elements of the sequences that the lists turn into.
LEMMA ElementsIn ==
  ASSUME NEW S, NEW s \in Seq(S)
  PROVE  /\ Elements(s) \subseteq S /\ DOMAIN s = 1 .. Len(s) /\ Len(s) \in Nat
         /\ s = <<>> <=> Elements(s) = {}
         /\ s = <<>> <=> Len(s) = 0
BY DEF Elements

LEMMA EmptyElements == Elements(<<>>) = {} /\ \A S : <<>> \in Seq(S)
BY DEF Elements

LEMMA AppendElements ==
  ASSUME NEW S, NEW s \in Seq(S), NEW m \in S
  PROVE  Append(s, m) \in Seq(S) /\ Elements(Append(s, m)) = Elements(s) \cup {m}
<1> DEFINE t == Append(s, m)
<1>1. /\ t \in Seq(S) /\ Len(t) = Len(s) + 1 /\ t[Len(s) + 1] = m /\ Len(s) \in Nat
      /\ \A i \in 1 .. Len(s) : t[i] = s[i]
      /\ DOMAIN s = 1 .. Len(s) /\ DOMAIN t = 1 .. Len(t)
  BY AppendProperties, LenProperties
<1> HIDE DEF t
<1>2. \A i \in DOMAIN t : t[i] \in Elements(s) \cup {m}
  <2> SUFFICES ASSUME NEW i \in DOMAIN t PROVE t[i] \in Elements(s) \cup {m}
    OBVIOUS
  <2>1. i \in DOMAIN s \/ i = Len(s) + 1
    BY <1>1
  <2> QED
    BY <1>1, <2>1 DEF Elements
<1>3. \A i \in DOMAIN s : s[i] \in Elements(t)
  BY <1>1 DEF Elements
<1>4. m \in Elements(t)
  BY <1>1 DEF Elements
<1>5. Elements(t) = Elements(s) \cup {m}
  BY <1>2, <1>3, <1>4 DEF Elements
<1> QED
  BY <1>1, <1>5 DEF t

LEMMA ConcatElements ==
  ASSUME NEW S, NEW s \in Seq(S), NEW t \in Seq(S)
  PROVE  s \o t \in Seq(S) /\ Elements(s \o t) = Elements(s) \cup Elements(t)
<1> DEFINE u == s \o t
<1>1. /\ u \in Seq(S) /\ Len(u) = Len(s) + Len(t) /\ Len(s) \in Nat /\ Len(t) \in Nat
      /\ \A i \in 1 .. Len(s) + Len(t) : u[i] = IF i <= Len(s) THEN s[i] ELSE t[i - Len(s)]
      /\ DOMAIN s = 1 .. Len(s) /\ DOMAIN t = 1 .. Len(t) /\ DOMAIN u = 1 .. Len(u)
  BY ConcatProperties, LenProperties
<1> HIDE DEF u
<1>2. \A i \in DOMAIN u : u[i] \in Elements(s) \cup Elements(t)
  <2> SUFFICES ASSUME NEW i \in DOMAIN u PROVE u[i] \in Elements(s) \cup Elements(t)
    OBVIOUS
  <2>1. CASE i <= Len(s)
    BY <1>1, <2>1 DEF Elements
  <2>2. CASE i > Len(s)
    <3>1. i - Len(s) \in DOMAIN t /\ u[i] = t[i - Len(s)]
      BY <1>1, <2>2
    <3> QED
      BY <3>1 DEF Elements
  <2> QED
    BY <1>1, <2>1, <2>2
<1>3. \A i \in DOMAIN s : s[i] \in Elements(u)
  <2> SUFFICES ASSUME NEW i \in DOMAIN s PROVE s[i] \in Elements(u)
    OBVIOUS
  <2>1. i \in DOMAIN u /\ u[i] = s[i]
    BY <1>1
  <2> QED
    BY <2>1 DEF Elements
<1>4. \A i \in DOMAIN t : t[i] \in Elements(u)
  <2> SUFFICES ASSUME NEW i \in DOMAIN t PROVE t[i] \in Elements(u)
    OBVIOUS
  <2>1. Len(s) + i \in DOMAIN u /\ u[Len(s) + i] = t[i]
    BY <1>1
  <2> QED
    BY <2>1 DEF Elements
<1>5. Elements(u) = Elements(s) \cup Elements(t)
  BY <1>2, <1>3, <1>4 DEF Elements
<1> QED
  BY <1>1, <1>5 DEF u

LEMMA TailElements ==
  ASSUME NEW S, NEW s \in Seq(S), s # <<>>
  PROVE  /\ Head(s) \in S /\ Tail(s) \in Seq(S) /\ <<Head(s)>> \in Seq(S)
         /\ Elements(s) = {Head(s)} \cup Elements(Tail(s)) /\ Elements(<<Head(s)>>) = {Head(s)}
         /\ Len(Tail(s)) = Len(s) - 1 /\ Len(s) \in Nat \ {0} /\ Head(s) = s[1]
         /\ DOMAIN s = 1 .. Len(s) /\ DOMAIN Tail(s) = 1 .. Len(Tail(s))
         /\ \A i \in 1 .. Len(Tail(s)) : Tail(s)[i] = s[i + 1]
<1> DEFINE t == Tail(s)
<1>1. /\ Head(s) \in S /\ t \in Seq(S) /\ Len(t) = Len(s) - 1 /\ Len(s) \in Nat \ {0} /\ Head(s) = s[1]
      /\ \A i \in 1 .. Len(t) : t[i] = s[i + 1]
      /\ DOMAIN s = 1 .. Len(s) /\ DOMAIN t = 1 .. Len(t)
  BY HeadTailProperties, LenProperties, EmptySeq
<1> HIDE DEF t
<1>2. \A i \in DOMAIN s : s[i] \in {Head(s)} \cup Elements(t)
  <2> SUFFICES ASSUME NEW i \in DOMAIN s, i # 1 PROVE s[i] \in Elements(t)
    BY <1>1
  <2>1. i - 1 \in DOMAIN t /\ t[i - 1] = s[i]
    BY <1>1
  <2> QED
    BY <2>1 DEF Elements
<1>3. \A i \in DOMAIN t : t[i] \in Elements(s)
  <2> SUFFICES ASSUME NEW i \in DOMAIN t PROVE t[i] \in Elements(s)
    OBVIOUS
  <2>1. i + 1 \in DOMAIN s /\ t[i] = s[i + 1]
    BY <1>1
  <2> QED
    BY <2>1 DEF Elements
<1>4. Head(s) \in Elements(s)
  BY <1>1 DEF Elements
<1>5. Elements(s) = {Head(s)} \cup Elements(t)
  BY <1>2, <1>3, <1>4 DEF Elements
<1>6. <<Head(s)>> \in Seq(S) /\ Elements(<<Head(s)>>) = {Head(s)}
  BY <1>1 DEF Elements
<1> QED
  BY <1>1, <1>5, <1>6 DEF t

\* What a turn claims beside a lone round.
LEMMA PromptsElements ==
  ASSUME NEW s \in Seq(Messages), LoneRound(s)
  PROVE  /\ PromptsOf(s) \in Seq(Prompts) /\ Elements(PromptsOf(s)) = PromptsIn(Elements(s))
         /\ RoundsIn(Elements(s)) = {} <=> PromptsOf(s) = s
<1> DEFINE t == SubSeq(s, 1, Len(s) - 1)
<1>1. /\ Len(s) \in Nat /\ DOMAIN s = 1 .. Len(s)
      /\ \A i \in DOMAIN s : s[i] \in Messages
  BY ElementsIn DEF Elements
<1>2. CASE RoundsIn(Elements(s)) = {}
  <2>1. \A i \in 1 .. Len(s) : s[i] \in Prompts
    BY <1>1, <1>2, MessageIs DEF RoundsIn, Elements, Messages
  <2>2. s \in Seq(Prompts)
    BY <1>1, <2>1, SubSeqProperties, SubSeqFull
  <2>3. PromptsIn(Elements(s)) = Elements(s)
    BY <2>1, <1>1, MessageIs DEF PromptsIn, Elements
  <2> QED
    BY <1>2, <2>2, <2>3 DEF PromptsOf
<1>3. CASE RoundsIn(Elements(s)) # {}
  <2>1. PICK k \in DOMAIN s : s[k].kind = "round"
    BY <1>3 DEF RoundsIn, Elements
  <2>2. k = Len(s) /\ Len(s) > 0 /\ s[Len(s)].kind = "round"
    BY <2>1, <1>1 DEF LoneRound
  <2>3. \A i \in 1 .. Len(s) - 1 : s[i] \in Prompts
    BY <1>1, <2>2, MessageIs DEF LoneRound, Messages
  <2>4. /\ t \in Seq(Prompts) /\ Len(t) = Len(s) - 1 /\ DOMAIN t = 1 .. Len(s) - 1
        /\ \A i \in 1 .. Len(s) - 1 : t[i] = s[i]
    <3>1. t \in Seq(Prompts) /\ Len(t) = Len(s) - 1
      BY <1>1, <2>2, <2>3, SubSeqProperties
    <3>2. \A i \in 1 .. Len(s) - 1 : t[i] = s[i]
      BY <1>1, <2>2, <2>3, SubSeqProperties
    <3> QED
      BY <3>1, <3>2, LenProperties
  <2> HIDE DEF t
  <2>5. Elements(t) = PromptsIn(Elements(s))
    <3>1. \A i \in DOMAIN t : t[i] \in PromptsIn(Elements(s))
      BY <1>1, <2>3, <2>4, MessageIs DEF PromptsIn, Elements
    <3>2. ASSUME NEW i \in DOMAIN s, s[i].kind = "prompt" PROVE s[i] \in Elements(t)
      <4>1. i \in DOMAIN t /\ t[i] = s[i]
        BY <1>1, <2>2, <2>4, <3>2
      <4> QED
        BY <4>1 DEF Elements
    <3> QED
      BY <3>1, <3>2 DEF PromptsIn, Elements
  <2>6. PromptsOf(s) = t
    BY <1>3 DEF PromptsOf, t
  <2>7. t # s
    BY <2>4, <1>1
  <2> QED
    BY <1>3, <2>4, <2>5, <2>6, <2>7
<1> QED
  BY <1>2, <1>3

\* A claimed round is the one that TheRound names.
LEMMA TheRoundIs ==
  ASSUME NEW s \in Seq(Messages), LoneRound(s)
  PROVE  \A m, n \in RoundsIn(Elements(s)) : m = n
BY DEF RoundsIn, Elements, LoneRound
-----------------------------------------------------------------------------
(* What the driver's operators do to a world *)

\* The loop of r stands somewhere, or is as it was in w.
Runs(w, r) ==
  \/ Suspends(r.state) \/ r.reserves = "loop"
  \/ /\ r.state.run = w.state.run
     /\ r.state.flushing = w.state.flushing /\ r.state.retiring = w.state.retiring
Same(w, r) == r \in Worlds /\ r.idle = w.idle /\ r.state.competing = w.state.competing
Quiet(w, r) ==
  Same(w, r) /\ r.cache = w.cache /\ r.state.attempt = w.state.attempt /\ r.reserves = w.reserves

\* d is c stopped at a phase.
Stops(c, d, phase) ==
  /\ c.goal \in Goals /\ d.goal \in Goals /\ d.goal.id = c.goal.id
  /\ d.goal.revision = c.goal.revision + 1 /\ d.goal.rounds = c.goal.rounds
  /\ d.goal.phase = phase /\ ~d.armed /\ d.corrupt = c.corrupt

\* A look of the driver's loop at the world, which ends in a suspension or in
\* a reservation.
Drives(w, r) ==
  \/ r.cache = w.cache /\ r.state.attempt = w.state.attempt /\ r.reserves = "none"
  \/ /\ fiber = "up" /\ w.idle /\ r.cache = w.cache
     /\ r.state.attempt = NoAttempt /\ r.reserves = "none"
  \/ /\ fiber = "up" /\ w.idle /\ Driven(w.cache) /\ w.state.attempt = NoAttempt
     /\ Stops(w.cache, r.cache, "blocked") /\ r.state.attempt = NoAttempt /\ r.reserves = "none"
  \/ /\ fiber = "up" /\ w.idle /\ Driven(w.cache) /\ w.state.attempt = NoAttempt
     /\ w.cache.goal.rounds < w.cache.goal.cap /\ r.cache = w.cache
     /\ r.state.attempt = Reservation(w.cache.goal) /\ r.reserves \in {"fresh", "loop"}

LEMMA WorldIs ==
  ASSUME NEW w \in Worlds
  PROVE  w.cache \in Caches /\ w.state \in States
         /\ w.state.attempt \in Attempts \cup {NoAttempt}
         /\ w.state.flushing \in Nat /\ w.state.retiring \in Nat
BY DEF Worlds, States

LEMMA WorldWith ==
  ASSUME NEW w \in Worlds, NEW s \in States
  PROVE  LET r == [w EXCEPT !.state = s] IN
         r \in Worlds /\ r.state = s /\ r.cache = w.cache /\ r.idle = w.idle /\ r.reserves = w.reserves
BY DEF Worlds

LEMMA AwaitsIs ==
  ASSUME NEW w \in Worlds, NEW fresh \in BOOLEAN
  PROVE  Quiet(w, Awaits(w, fresh)) /\ Suspends(Awaits(w, fresh).state)
<1> DEFINE run == w.state.run \/ fresh
           flushing == w.state.flushing + 1
           s == [w.state EXCEPT !.flushing = @ + 1, !.checkpoint = FALSE, !.requested = FALSE,
                                !.run = @ \/ fresh]
           r == [w EXCEPT !.state = s]
<1>1. Awaits(w, fresh) = r
  BY DEF Awaits, Worlds, States
<1>2. s = [w.state EXCEPT !.flushing = flushing, !.checkpoint = FALSE, !.requested = FALSE, !.run = run]
  BY DEF Worlds, States
<1>3. run \in BOOLEAN /\ flushing \in Nat /\ flushing > 0 /\ w.state \in States /\ w.state.retiring \in Nat
  BY DEF Worlds, States
<1> HIDE DEF run, flushing, s
<1>4. /\ s \in States /\ s.attempt = w.state.attempt /\ s.competing = w.state.competing
      /\ s.flushing = flushing /\ s.retiring = w.state.retiring
  BY <1>2, <1>3 DEF States
<1>5. r \in Worlds /\ r.state = s /\ r.cache = w.cache /\ r.idle = w.idle /\ r.reserves = w.reserves
  BY <1>4, WorldWith
<1> HIDE DEF r
<1> QED
  BY <1>1, <1>3, <1>4, <1>5 DEF Quiet, Same, Suspends

LEMMA ReturnsIs ==
  ASSUME NEW w \in Worlds, NEW fresh \in BOOLEAN
  PROVE  Quiet(w, Returns(w, fresh)) /\ Suspends(Returns(w, fresh).state)
<1> DEFINE run == w.state.run \/ fresh
           retiring == w.state.retiring + 1
           s == [w.state EXCEPT !.retiring = @ + 1, !.requested = FALSE, !.run = @ \/ fresh]
           r == [w EXCEPT !.state = s]
<1>1. Returns(w, fresh) = r
  BY DEF Returns, Worlds, States
<1>2. s = [w.state EXCEPT !.retiring = retiring, !.requested = FALSE, !.run = run]
  BY DEF Worlds, States
<1>3. run \in BOOLEAN /\ retiring \in Nat /\ retiring > 0 /\ w.state \in States /\ w.state.flushing \in Nat
  BY DEF Worlds, States
<1> HIDE DEF run, retiring, s
<1>4. /\ s \in States /\ s.attempt = w.state.attempt /\ s.competing = w.state.competing
      /\ s.flushing = w.state.flushing /\ s.retiring = retiring
  BY <1>2, <1>3 DEF States
<1>5. r \in Worlds /\ r.state = s /\ r.cache = w.cache /\ r.idle = w.idle /\ r.reserves = w.reserves
  BY <1>4, WorldWith
<1> HIDE DEF r
<1> QED
  BY <1>1, <1>3, <1>4, <1>5 DEF Quiet, Same, Suspends

LEMMA CacheWith ==
  ASSUME NEW w \in Worlds, NEW c \in Caches
  PROVE  LET r == [w EXCEPT !.cache = c] IN
         r \in Worlds /\ r.cache = c /\ r.state = w.state /\ r.idle = w.idle /\ r.reserves = w.reserves
BY DEF Worlds

LEMMA StoppedIs ==
  ASSUME NEW w \in Worlds, w.cache.goal \in Goals, NEW phase \in Phases
  PROVE  LET r == Stopped(w, phase) IN
         /\ r \in Worlds /\ r.state = w.state /\ r.idle = w.idle /\ r.reserves = w.reserves
         /\ Stops(w.cache, r.cache, phase)
<1> DEFINE revision == w.cache.goal.revision + 1
           g == [w.cache.goal EXCEPT !.phase = phase, !.revision = @ + 1]
           c == [w.cache EXCEPT !.goal = g, !.armed = FALSE]
           r == [w EXCEPT !.cache = c]
<1>1. Stopped(w, phase) = r
  BY DEF Stopped, Worlds, Caches, Goals
<1>2. g = [w.cache.goal EXCEPT !.phase = phase, !.revision = revision]
  BY DEF Goals
<1>3. revision \in Nat \ {0} /\ w.cache \in Caches
  BY DEF Goals, Worlds
<1>4. revision = w.cache.goal.revision + 1
  OBVIOUS
<1> HIDE DEF revision, g
<1>5. /\ g \in Goals /\ g.id = w.cache.goal.id /\ g.revision = revision /\ g.rounds = w.cache.goal.rounds
      /\ g.phase = phase
  BY <1>2, <1>3 DEF Goals
<1>6. c \in Caches /\ c.goal = g /\ ~c.armed /\ c.corrupt = w.cache.corrupt
  BY <1>3, <1>5 DEF Caches
<1> HIDE DEF c
<1>7. r \in Worlds /\ r.cache = c /\ r.state = w.state /\ r.idle = w.idle /\ r.reserves = w.reserves
  BY <1>6, CacheWith
<1> HIDE DEF r
<1> QED
  BY <1>1, <1>4, <1>5, <1>6, <1>7 DEF Stops

LEMMA DisarmedIs ==
  ASSUME NEW w \in Worlds
  PROVE  LET r == Disarmed(w) IN
         /\ r \in Worlds /\ r.state = w.state /\ r.idle = w.idle /\ r.reserves = w.reserves
         /\ r.cache.goal = w.cache.goal /\ r.cache.corrupt = w.cache.corrupt
         /\ ~Driven(r.cache) /\ (r.cache.armed => w.cache.armed)
BY DEF Disarmed, Driven, Worlds, Caches

LEMMA WithoutIs ==
  ASSUME NEW w \in Worlds
  PROVE  LET r == Without(w) IN
         /\ Same(w, r) /\ r.cache = w.cache /\ r.reserves = w.reserves
         /\ r.state.attempt = NoAttempt /\ Runs(w, r)
BY DEF Without, Same, Runs, Worlds, States

LEMMA LimitIs ==
  ASSUME NEW w \in Worlds, NEW fresh \in BOOLEAN, w.cache.goal \in Goals
  PROVE  LET r == LimitReached(w, fresh) IN
         /\ Same(w, r) /\ Suspends(r.state) /\ Stops(w.cache, r.cache, "blocked")
         /\ r.state.attempt = w.state.attempt /\ r.reserves = w.reserves
<1> DEFINE b == Stopped(w, "blocked")
<1>1. b \in Worlds /\ b.state = w.state /\ b.idle = w.idle /\ b.reserves = w.reserves
      /\ Stops(w.cache, b.cache, "blocked")
  BY StoppedIs DEF Phases
<1> HIDE DEF b
<1>2. Quiet(b, Awaits(b, fresh)) /\ Suspends(Awaits(b, fresh).state)
  BY <1>1, AwaitsIs
<1>3. Quiet(b, Awaits(b, TRUE)) /\ Awaits(b, TRUE) \in Worlds
  BY <1>1, AwaitsIs DEF Quiet, Same
<1>4. Quiet(Awaits(b, TRUE), Returns(Awaits(b, TRUE), fresh)) /\ Suspends(Returns(Awaits(b, TRUE), fresh).state)
  BY <1>3, ReturnsIs
<1>5. LimitReached(w, fresh) = IF w.state.run THEN Awaits(b, fresh) ELSE Returns(Awaits(b, TRUE), fresh)
  BY DEF LimitReached, b
<1>6. CASE w.state.run
  BY <1>1, <1>2, <1>5, <1>6 DEF Quiet, Same
<1>7. CASE ~w.state.run
  BY <1>1, <1>3, <1>4, <1>5, <1>7 DEF Quiet, Same
<1> QED
  BY <1>6, <1>7

LEMMA ReserveIs ==
  ASSUME NEW w \in Worlds, NEW fresh \in BOOLEAN, w.reserves = "none", fiber = "up", w.idle
  PROVE  LET r == Reserve(w, fresh) IN Same(w, r) /\ Drives(w, r) /\ (fresh => Runs(w, r))
                                       /\ (~fresh => Suspends(r.state) \/ r.reserves = "loop")
<1> DEFINE r == Reserve(w, fresh)
<1>1. CASE w.state.attempt # NoAttempt
  <2> DEFINE v == [w EXCEPT !.state.attempt = NoAttempt]
  <2>1. v \in Worlds /\ v.cache = w.cache /\ v.idle = w.idle /\ v.reserves = "none"
        /\ v.state.attempt = NoAttempt /\ v.state.competing = w.state.competing
    BY DEF Worlds, States
  <2> HIDE DEF v
  <2>2. Quiet(v, Awaits(v, fresh)) /\ Suspends(Awaits(v, fresh).state)
    BY <2>1, AwaitsIs
  <2>3. r = Awaits(v, fresh)
    BY <1>1 DEF Reserve, v
  <2> QED
    BY <2>1, <2>2, <2>3 DEF Quiet, Same, Drives, Runs
<1>2. CASE w.state.attempt = NoAttempt /\ ~Driven(w.cache)
  BY <1>2, ReturnsIs DEF Reserve, Quiet, Drives, Runs
<1>3. CASE w.state.attempt = NoAttempt /\ Driven(w.cache) /\ w.cache.goal.rounds >= w.cache.goal.cap
  <2>1. w.cache.goal \in Goals
    BY <1>3, WorldIs, DrivenGoal
  <2>2. r = LimitReached(w, fresh)
    BY <1>3 DEF Reserve
  <2> QED
    BY <1>3, <2>1, <2>2, LimitIs DEF Drives, Runs
<1>4. CASE w.state.attempt = NoAttempt /\ Driven(w.cache) /\ ~(w.cache.goal.rounds >= w.cache.goal.cap)
  <2>1. w.cache.goal \in Goals
    BY <1>4, WorldIs, DrivenGoal
  <2>2. Reservation(w.cache.goal) \in Attempts
    BY <2>1, RoundIs
  <2>3. r = [w EXCEPT !.state.attempt = Reservation(w.cache.goal),
                      !.reserves = IF fresh THEN "fresh" ELSE "loop"]
    BY <1>4 DEF Reserve
  <2> HIDE DEF r
  <2>4. /\ r \in Worlds /\ r.cache = w.cache /\ r.idle = w.idle /\ r.state.competing = w.state.competing
        /\ r.state.attempt = Reservation(w.cache.goal)
        /\ r.reserves = IF fresh THEN "fresh" ELSE "loop"
        /\ r.state.run = w.state.run /\ r.state.flushing = w.state.flushing
        /\ r.state.retiring = w.state.retiring
    BY <2>2, <2>3 DEF Worlds, States
  <2>5. w.cache.goal.rounds < w.cache.goal.cap
    <3>1. w.cache.goal.cap \in Nat /\ w.cache.goal.rounds \in Nat
      BY <2>1, BoundsAssumption DEF Goals
    <3> QED
      BY <1>4, <3>1
  <2>6. Same(w, r) /\ Runs(w, r)
    BY <2>4 DEF Same, Runs
  <2>7. Drives(w, r)
    BY <1>4, <2>4, <2>5 DEF Drives
  <2> QED
    BY <2>4, <2>6, <2>7 DEF r
<1> QED
  BY <1>1, <1>2, <1>3, <1>4

LEMMA PassIs ==
  ASSUME NEW w \in Worlds, NEW fresh \in BOOLEAN, w.reserves = "none"
  PROVE  LET r == Pass(w, fresh) IN
         /\ Same(w, r) /\ Drives(w, r) /\ (fresh => Runs(w, r))
         /\ (~fresh => Suspends(r.state) \/ r.reserves = "loop")
         /\ (w.state.checkpoint => Quiet(w, r))
<1> DEFINE r == Pass(w, fresh)
<1>1. CASE ~Ready(w)
  BY <1>1, ReturnsIs DEF Pass, Quiet, Drives, Runs
<1>2. CASE Ready(w) /\ w.state.checkpoint
  BY <1>2, AwaitsIs DEF Pass, Quiet, Drives, Runs
<1>3. CASE Ready(w) /\ ~w.state.checkpoint
  <2> DEFINE v == [w EXCEPT !.state.requested = FALSE]
  <2>1. /\ v \in Worlds /\ v.cache = w.cache /\ v.idle = w.idle /\ v.reserves = "none"
        /\ v.state.attempt = w.state.attempt /\ v.state.competing = w.state.competing
        /\ v.state.run = w.state.run /\ v.state.flushing = w.state.flushing
        /\ v.state.retiring = w.state.retiring
    BY DEF Worlds, States
  <2> HIDE DEF v
  <2>2. r = Reserve(v, fresh)
    BY <1>3 DEF Pass, v
  <2>3. fiber = "up" /\ v.idle
    BY <1>3, <2>1 DEF Ready
  <2>4. Same(v, r) /\ Drives(v, r) /\ (fresh => Runs(v, r)) /\ (~fresh => Suspends(r.state) \/ r.reserves = "loop")
    BY <2>1, <2>2, <2>3, ReserveIs
  <2> HIDE DEF r
  <2>5. Same(w, r) /\ (Runs(v, r) => Runs(w, r))
    BY <2>1, <2>4 DEF Same, Runs
  <2>6. Drives(w, r)
    BY <2>1, <2>4 DEF Drives
  <2> QED
    BY <1>3, <2>4, <2>5, <2>6 DEF r
<1> QED
  BY <1>1, <1>2, <1>3

LEMMA GoesOnIs ==
  ASSUME NEW w \in Worlds, w.reserves = "none"
  PROVE  LET r == GoesOn(w) IN
         Same(w, r) /\ Drives(w, r) /\ (Suspends(r.state) \/ r.reserves = "loop")
<1>1. CASE w.state.requested
  BY <1>1, PassIs DEF GoesOn
<1>2. CASE ~w.state.requested
  BY <1>2, ReturnsIs DEF GoesOn, Quiet, Drives
<1> QED
  BY <1>1, <1>2

LEMMA RequestDriveIs ==
  ASSUME NEW w \in Worlds, w.reserves = "none"
  PROVE  LET r == RequestDrive(w) IN
         /\ Same(w, r) /\ Drives(w, r) /\ Runs(w, r)
         /\ (w.state.checkpoint \/ w.state.run \/ fiber # "up" => Quiet(w, r))
         /\ (fiber # "up" => r = w)
<1>1. CASE fiber # "up"
  BY <1>1 DEF RequestDrive, Same, Drives, Runs, Quiet
<1>2. CASE fiber = "up" /\ w.state.run
  <2> DEFINE r == RequestDrive(w)
  <2>1. r = [w EXCEPT !.state.requested = TRUE]
    BY <1>2 DEF RequestDrive
  <2> HIDE DEF r
  <2>2. /\ r \in Worlds /\ r.cache = w.cache /\ r.idle = w.idle /\ r.reserves = "none"
        /\ r.state.attempt = w.state.attempt /\ r.state.competing = w.state.competing
        /\ r.state.run = w.state.run /\ r.state.flushing = w.state.flushing
        /\ r.state.retiring = w.state.retiring
    BY <2>1 DEF Worlds, States
  <2> QED
    BY <1>2, <2>2 DEF Same, Drives, Runs, Quiet, r
<1>3. CASE fiber = "up" /\ ~w.state.run
  <2>1. RequestDrive(w) = Pass(w, TRUE)
    BY <1>3 DEF RequestDrive
  <2> QED
    BY <1>3, <2>1, PassIs
<1> QED
  BY <1>1, <1>2, <1>3

LEMMA GoalChangedIs ==
  ASSUME NEW w \in Worlds, w.reserves = "none"
  PROVE  Quiet(w, GoalChanged(w)) /\ Runs(w, GoalChanged(w)) /\ (fiber = "down" => GoalChanged(w) = w)
<1>1. CASE fiber = "down"
  BY <1>1 DEF GoalChanged, Quiet, Same, Runs
<1>2. CASE fiber # "down"
  <2> DEFINE v == [w EXCEPT !.state.checkpoint = TRUE]
  <2>1. /\ v \in Worlds /\ v.cache = w.cache /\ v.idle = w.idle /\ v.reserves = "none"
        /\ v.state.attempt = w.state.attempt /\ v.state.competing = w.state.competing
        /\ v.state.run = w.state.run /\ v.state.flushing = w.state.flushing
        /\ v.state.retiring = w.state.retiring /\ v.state.checkpoint
    BY DEF Worlds, States
  <2> HIDE DEF v
  <2>2. GoalChanged(w) = RequestDrive(v)
    BY <1>2 DEF GoalChanged, v
  <2>3. Quiet(v, RequestDrive(v)) /\ Runs(v, RequestDrive(v))
    BY <2>1, RequestDriveIs
  <2> QED
    BY <1>2, <2>1, <2>2, <2>3 DEF Quiet, Same, Runs
<1> QED
  BY <1>1, <1>2
-----------------------------------------------------------------------------
(* The listeners of the turn and of the inbox *)

CutOff(attempt) == attempt # NoAttempt /\ (attempt.phase # "admitted" \/ attempt.cancelled)

\* What the listener at idle makes of w.
Idles(w, r) ==
  /\ r \in Worlds /\ r.idle = w.idle /\ Runs(w, r)
  /\ \/ fiber = "down" /\ r = w
     \/ /\ fiber # "down" /\ w.cache.corrupt
        /\ r.cache = w.cache /\ r.state.attempt = w.state.attempt /\ r.reserves = "none"
     \/ /\ fiber # "down" /\ CutOff(w.state.attempt) /\ Driven(w.cache)
        /\ Stops(w.cache, r.cache, "paused") /\ r.state.attempt = NoAttempt /\ r.reserves = "none"
     \/ fiber # "down" /\ ~(CutOff(w.state.attempt) /\ Driven(w.cache)) /\ Drives(w, r)

LEMMA StatusIdleIs ==
  ASSUME NEW w \in Worlds, w.reserves = "none"
  PROVE  Idles(w, StatusIdle(w))
<1> DEFINE r == StatusIdle(w)
           rested == [w EXCEPT !.state.competing = FALSE]
           left == [rested EXCEPT !.state.attempt = NoAttempt]
<1>1. /\ rested \in Worlds /\ rested.cache = w.cache /\ rested.idle = w.idle /\ rested.reserves = "none"
      /\ rested.state.attempt = w.state.attempt /\ rested.state.run = w.state.run
      /\ rested.state.flushing = w.state.flushing /\ rested.state.retiring = w.state.retiring
  BY DEF Worlds, States
<1>2. /\ r = IF fiber = "down" THEN w
             ELSE IF w.cache.corrupt THEN rested
             ELSE IF CutOff(w.state.attempt) /\ Driven(w.cache)
                  THEN RequestDrive(GoalChanged(Stopped(left, "paused")))
             ELSE RequestDrive(rested)
  BY DEF StatusIdle, CutOff
<1> HIDE DEF rested, r
<1>3. /\ left \in Worlds /\ left.cache = w.cache /\ left.idle = w.idle /\ left.reserves = "none"
      /\ left.state.attempt = NoAttempt /\ left.state.run = w.state.run
      /\ left.state.flushing = w.state.flushing /\ left.state.retiring = w.state.retiring
  BY <1>1 DEF Worlds, States
<1> HIDE DEF left
<1>4. CASE fiber = "down"
  BY <1>2, <1>4 DEF Idles, Runs, r
<1>5. CASE fiber # "down" /\ w.cache.corrupt
  BY <1>1, <1>2, <1>5 DEF Idles, Runs, r
<1>6. CASE fiber # "down" /\ ~w.cache.corrupt /\ CutOff(w.state.attempt) /\ Driven(w.cache)
  <2> DEFINE p == Stopped(left, "paused")
             g == GoalChanged(p)
  <2>1. w.cache.goal \in Goals
    BY <1>6, WorldIs, DrivenGoal
  <2>2. /\ p \in Worlds /\ p.state = left.state /\ p.idle = w.idle /\ p.reserves = "none"
        /\ Stops(w.cache, p.cache, "paused")
    BY <1>3, <2>1, StoppedIs DEF Phases
  <2> HIDE DEF p
  <2>3. Quiet(p, g) /\ Runs(p, g)
    BY <2>2, GoalChangedIs
  <2> HIDE DEF g
  <2>4. g \in Worlds /\ g.cache = p.cache /\ g.state.attempt = NoAttempt /\ g.idle = w.idle /\ g.reserves = "none"
    BY <1>3, <2>2, <2>3 DEF Quiet, Same
  <2>5. ~Driven(g.cache)
    BY <2>2, <2>4 DEF Stops, Driven
  <2>6. Same(g, RequestDrive(g)) /\ Drives(g, RequestDrive(g)) /\ Runs(g, RequestDrive(g))
    BY <2>4, RequestDriveIs
  <2>7. r = RequestDrive(g)
    BY <1>2, <1>6 DEF p, g
  <2>8. r.cache = p.cache /\ r.state.attempt = NoAttempt /\ r.reserves = "none" /\ r \in Worlds /\ r.idle = w.idle
    BY <2>4, <2>5, <2>6, <2>7 DEF Same, Drives
  <2>9. Runs(w, r)
    BY <1>3, <2>2, <2>3, <2>4, <2>6, <2>7 DEF Runs, Suspends, Quiet, Same
  <2> QED
    BY <1>6, <2>2, <2>8, <2>9 DEF Idles, r
<1>7. CASE fiber # "down" /\ ~w.cache.corrupt /\ ~(CutOff(w.state.attempt) /\ Driven(w.cache))
  <2>1. r = RequestDrive(rested)
    BY <1>2, <1>7
  <2>2. Same(rested, r) /\ Drives(rested, r) /\ Runs(rested, r)
    BY <1>1, <2>1, RequestDriveIs
  <2>3. Drives(w, r) /\ Runs(w, r) /\ r \in Worlds /\ r.idle = w.idle
    BY <1>1, <2>2 DEF Drives, Runs, Same
  <2> QED
    BY <1>7, <2>3 DEF Idles, r
<1> QED
  BY <1>4, <1>5, <1>6, <1>7

\* The loops of s are those of r.
Counts(s, r) == r.run = s.run /\ r.flushing = s.flushing /\ r.retiring = s.retiring

\* b is a, with another phase and other marks.
Like(a, b) ==
  \/ a = NoAttempt /\ b = NoAttempt
  \/ a \in Attempts /\ b \in Attempts /\ b.message = a.message

\* What the end of a turn makes of w.
Closed(w, r, ending) ==
  /\ r \in Worlds /\ r.idle = w.idle /\ r.reserves = w.reserves /\ Counts(w.state, r.state)
  /\ \/ r = w /\ (ending # "aborted" \/ fiber = "down")
     \/ /\ fiber # "down" /\ ending = "aborted" /\ r.cache = w.cache
        /\ w.state.attempt \in Attempts /\ w.state.attempt.phase \in {"claimed", "admitted"}
        /\ r.state.attempt = [w.state.attempt EXCEPT !.cancelled = TRUE]
     \/ /\ fiber # "down" /\ r.state = w.state /\ r.cache.goal = w.cache.goal
        /\ r.cache.corrupt = w.cache.corrupt /\ ~Driven(r.cache) /\ (r.cache.armed => w.cache.armed)

LEMMA TurnClosedIs ==
  ASSUME NEW w \in Worlds, NEW ending
  PROVE  Closed(w, TurnClosed(w, ending), ending)
<1> DEFINE r == TurnClosed(w, ending)
<1>1. CASE fiber = "down" \/ ending \notin {"aborted", "max-tokens"}
  BY <1>1 DEF TurnClosed, Closed, Counts
<1>2. CASE /\ fiber # "down" /\ ending = "aborted"
           /\ w.state.attempt.phase \in {"claimed", "admitted"}
  <2>1. w.state.attempt \in Attempts
    BY <1>2, WorldIs, AttemptIs
  <2>2. r = [w EXCEPT !.state.attempt.cancelled = TRUE]
    BY <1>2 DEF TurnClosed
  <2> DEFINE a == [w.state.attempt EXCEPT !.cancelled = TRUE]
  <2>3. a \in Attempts
    BY <2>1 DEF Attempts
  <2>4. r = [w EXCEPT !.state.attempt = a]
    BY <2>2
  <2> HIDE DEF r, a
  <2>5. /\ r \in Worlds /\ r.cache = w.cache /\ r.idle = w.idle /\ r.reserves = w.reserves
        /\ r.state.attempt = a /\ r.state.run = w.state.run
        /\ r.state.flushing = w.state.flushing /\ r.state.retiring = w.state.retiring
    BY <2>3, <2>4 DEF Worlds, States
  <2> QED
    BY <1>2, <2>1, <2>5 DEF Closed, Counts, r, a
<1>3. CASE /\ fiber # "down" /\ ending \in {"aborted", "max-tokens"}
           /\ ~(ending = "aborted" /\ w.state.attempt.phase \in {"claimed", "admitted"})
  <2>1. r = Disarmed(w)
    BY <1>3 DEF TurnClosed
  <2> HIDE DEF r
  <2>2. /\ r \in Worlds /\ r.state = w.state /\ r.idle = w.idle /\ r.reserves = w.reserves
        /\ r.cache.goal = w.cache.goal /\ r.cache.corrupt = w.cache.corrupt
        /\ ~Driven(r.cache) /\ (r.cache.armed => w.cache.armed)
    BY <2>1, DisarmedIs
  <2> QED
    BY <1>3, <2>2 DEF Closed, Counts, r
<1> QED
  BY <1>1, <1>2, <1>3

LEMMA FailedIs ==
  ASSUME NEW w \in Worlds
  PROVE  Closed(w, Failed(w), "error") /\ Failed(w).state = w.state
<1>1. CASE fiber = "down"
  BY <1>1 DEF Failed, Closed, Counts
<1>2. CASE fiber # "down"
  <2> DEFINE r == Disarmed(w)
  <2>1. /\ r \in Worlds /\ r.state = w.state /\ r.idle = w.idle /\ r.reserves = w.reserves
        /\ r.cache.goal = w.cache.goal /\ r.cache.corrupt = w.cache.corrupt
        /\ ~Driven(r.cache) /\ (r.cache.armed => w.cache.armed)
    BY DisarmedIs
  <2>2. Failed(w) = r
    BY <1>2 DEF Failed
  <2> HIDE DEF r
  <2> QED
    BY <1>2, <2>1, <2>2 DEF Closed, Counts
<1> QED
  BY <1>1, <1>2

LEMMA InsertedIs ==
  ASSUME NEW s \in States, NEW queue
  PROVE  LET r == Inserted(s, queue) IN
         /\ r \in States /\ Counts(s, r) /\ Like(s.attempt, r.attempt)
         /\ r.attempt.phase = s.attempt.phase
         /\ s.attempt # NoAttempt => r.attempt.cancelled = s.attempt.cancelled
         /\ fiber = "down" => r = s
         /\ s.attempt.phase = "queued" =>
              /\ r.attempt.stale = (s.attempt.stale \/ (fiber # "down" /\ queue = "next-turn"))
         /\ s.attempt.phase # "queued" => r.attempt = s.attempt
<1> DEFINE r == Inserted(s, queue)
<1>0. s.attempt \in Attempts \cup {NoAttempt}
  BY DEF States
<1>1. CASE fiber = "down" \/ queue # "next-turn"
  <2>1. r = s
    BY <1>1 DEF Inserted
  <2>2. s.attempt.phase = "queued" => s.attempt.stale \in BOOLEAN
    BY <1>0, AttemptIs DEF Attempts
  <2> QED
    BY <1>0, <1>1, <2>1, <2>2 DEF Counts, Like
<1>2. CASE fiber # "down" /\ queue = "next-turn" /\ s.attempt.phase = "queued"
  <2>1. s.attempt \in Attempts
    BY <1>0, <1>2, AttemptIs
  <2> DEFINE a == [s.attempt EXCEPT !.stale = TRUE]
  <2>2. /\ a \in Attempts /\ a.message = s.attempt.message /\ a.phase = s.attempt.phase
        /\ a.cancelled = s.attempt.cancelled /\ a.stale = TRUE
    BY <2>1 DEF Attempts
  <2>3. r = [s EXCEPT !.competing = TRUE, !.attempt = a]
    BY <1>2 DEF Inserted, States
  <2> HIDE DEF r, a
  <2>4. /\ r \in States /\ r.attempt = a /\ r.run = s.run /\ r.flushing = s.flushing
        /\ r.retiring = s.retiring
    BY <2>2, <2>3 DEF States
  <2> QED
    BY <1>2, <2>1, <2>2, <2>4 DEF Counts, Like, r
<1>3. CASE fiber # "down" /\ queue = "next-turn" /\ s.attempt.phase # "queued"
  <2>1. r = [s EXCEPT !.competing = TRUE]
    BY <1>3 DEF Inserted
  <2> HIDE DEF r
  <2>2. /\ r \in States /\ r.attempt = s.attempt /\ r.run = s.run /\ r.flushing = s.flushing
        /\ r.retiring = s.retiring
    BY <2>1 DEF States
  <2> QED
    BY <1>0, <1>3, <2>2 DEF Counts, Like, r
<1> QED
  BY <1>1, <1>2, <1>3

LEMMA ClaimedIs ==
  ASSUME NEW s \in States, NEW messages
  PROVE  LET r == Claimed(s, messages) IN
         /\ r \in States /\ Counts(s, r) /\ Like(s.attempt, r.attempt)
         /\ s.attempt # NoAttempt =>
              r.attempt.cancelled = s.attempt.cancelled /\ r.attempt.stale = s.attempt.stale
         /\ \/ r = s /\ (fiber = "down" \/ s.attempt = NoAttempt \/ s.attempt.message \notin messages)
            \/ fiber # "down" /\ s.attempt # NoAttempt /\ s.attempt.message \in messages
                 /\ r.attempt.phase = "claimed"
<1> DEFINE r == Claimed(s, messages)
<1>0. s.attempt \in Attempts \cup {NoAttempt}
  BY DEF States
<1>1. CASE fiber = "down" \/ s.attempt = NoAttempt \/ s.attempt.message \notin messages
  <2>1. r = s
    BY <1>1 DEF Claimed, Matches
  <2> QED
    BY <1>0, <1>1, <2>1 DEF Counts, Like
<1>2. CASE fiber # "down" /\ s.attempt # NoAttempt /\ s.attempt.message \in messages
  <2>1. s.attempt \in Attempts
    BY <1>0, <1>2
  <2> DEFINE a == [s.attempt EXCEPT !.phase = "claimed"]
  <2>2. /\ a \in Attempts /\ a.message = s.attempt.message /\ a.phase = "claimed"
        /\ a.cancelled = s.attempt.cancelled /\ a.stale = s.attempt.stale
    BY <2>1 DEF Attempts
  <2>3. r = [s EXCEPT !.attempt = a]
    BY <1>2 DEF Claimed, Matches
  <2> HIDE DEF r, a
  <2>4. /\ r \in States /\ r.attempt = a /\ r.run = s.run /\ r.flushing = s.flushing
        /\ r.retiring = s.retiring
    BY <2>2, <2>3 DEF States
  <2> QED
    BY <1>2, <2>1, <2>2, <2>4 DEF Counts, Like, r
<1> QED
  BY <1>1, <1>2

LEMMA DiscardedIs ==
  ASSUME NEW s \in States, NEW messages
  PROVE  LET r == Discarded(s, messages) IN
         /\ r \in States /\ Counts(s, r) /\ Like(s.attempt, r.attempt)
         /\ r.attempt.phase = s.attempt.phase
         /\ s.attempt # NoAttempt => r.attempt.stale = s.attempt.stale
         /\ \/ r = s /\ (fiber = "down" \/ s.attempt = NoAttempt \/ s.attempt.message \notin messages)
            \/ fiber # "down" /\ s.attempt # NoAttempt /\ s.attempt.message \in messages
                 /\ r.attempt.cancelled
<1> DEFINE r == Discarded(s, messages)
<1>0. s.attempt \in Attempts \cup {NoAttempt}
  BY DEF States
<1>1. CASE fiber = "down" \/ s.attempt = NoAttempt \/ s.attempt.message \notin messages
  <2>1. r = s
    BY <1>1 DEF Discarded, Matches
  <2> QED
    BY <1>0, <1>1, <2>1 DEF Counts, Like
<1>2. CASE fiber # "down" /\ s.attempt # NoAttempt /\ s.attempt.message \in messages
  <2>1. s.attempt \in Attempts
    BY <1>0, <1>2
  <2> DEFINE a == [s.attempt EXCEPT !.cancelled = TRUE]
  <2>2. /\ a \in Attempts /\ a.message = s.attempt.message /\ a.phase = s.attempt.phase
        /\ a.cancelled = TRUE /\ a.stale = s.attempt.stale
    BY <2>1 DEF Attempts
  <2>3. r = [s EXCEPT !.attempt = a]
    BY <1>2 DEF Discarded, Matches
  <2> HIDE DEF r, a
  <2>4. /\ r \in States /\ r.attempt = a /\ r.run = s.run /\ r.flushing = s.flushing
        /\ r.retiring = s.retiring
    BY <2>2, <2>3 DEF States
  <2> QED
    BY <1>2, <2>1, <2>2, <2>4 DEF Counts, Like, r
<1> QED
  BY <1>1, <1>2

LEMMA RejectedIs ==
  ASSUME World \in Worlds
  PROVE  LET r == Rejected IN
         /\ r \in Worlds /\ r.idle = World.idle /\ r.reserves = "none"
         /\ r.state.attempt = NoAttempt /\ Runs(World, r)
         /\ \/ r.cache = World.cache
            \/ Driven(World.cache) /\ Stops(World.cache, r.cache, "blocked")
<1> DEFINE w == Without(World)
<1>1. /\ w \in Worlds /\ w.idle = World.idle /\ w.cache = World.cache /\ w.reserves = "none"
      /\ w.state.attempt = NoAttempt /\ Runs(World, w)
  <2>1. World.reserves = "none"
    BY DEF World
  <2> QED
    BY <2>1, WithoutIs DEF Same
<1>2. /\ Rejected = IF Driven(cache) /\ cache.goal.id = TheRound.id /\ cache.goal.revision = TheRound.revision
                    THEN GoalChanged(Stopped(w, "blocked")) ELSE w
      /\ World.cache = cache
  BY DEF Rejected, World
<1> HIDE DEF w
<1>3. CASE Rejected = w
  BY <1>1, <1>3
<1>4. CASE Driven(cache) /\ Rejected = GoalChanged(Stopped(w, "blocked"))
  <2> DEFINE b == Stopped(w, "blocked")
  <2>1. w.cache.goal \in Goals
    BY <1>1, <1>2, <1>4, WorldIs, DrivenGoal
  <2>2. /\ b \in Worlds /\ b.state = w.state /\ b.idle = w.idle /\ b.reserves = "none"
        /\ Stops(w.cache, b.cache, "blocked")
    BY <1>1, <2>1, StoppedIs DEF Phases
  <2> HIDE DEF b
  <2>3. Quiet(b, GoalChanged(b)) /\ Runs(b, GoalChanged(b))
    BY <2>2, GoalChangedIs
  <2>4. Rejected = GoalChanged(b)
    BY <1>4 DEF b
  <2> QED
    <3>1. /\ Rejected \in Worlds /\ Rejected.idle = World.idle /\ Rejected.reserves = "none"
          /\ Rejected.state.attempt = NoAttempt /\ Rejected.cache = b.cache
      BY <1>1, <2>2, <2>3, <2>4 DEF Quiet, Same
    <3>2. Runs(b, Rejected) /\ b.state = w.state
      BY <2>2, <2>3, <2>4
    <3>3. Runs(World, Rejected)
      BY <1>1, <3>1, <3>2 DEF Runs, Suspends
    <3> QED
      BY <1>1, <1>2, <1>4, <2>2, <3>1, <3>3
<1> QED
  BY <1>2, <1>3, <1>4
-----------------------------------------------------------------------------
(* What an action leaves behind keeps Shape *)

\* A world that may become the next state.
Good(w) ==
  /\ w \in Worlds
  /\ w.cache.armed => w.cache.goal.phase = "active"
  /\ fiber = "down" => w.state = FreshState
  /\ w.state.run => Suspends(w.state) \/ w.reserves = "loop"
  /\ w.reserves # "none" => fiber = "up" /\ w.state.attempt \in Attempts /\ w.state.attempt.phase = "queued"

LEMMA WorldGood ==
  ASSUME Shape
  PROVE  /\ World \in Worlds /\ World.cache = cache /\ World.state = state
         /\ World.idle = (pc = "idle") /\ World.reserves = "none"
         /\ frame # "loop" => Good(World)
<1>1. World \in Worlds
  BY DEF World, Worlds, Shape, GoalShape, DriverShape
<1>2. /\ World.cache = cache /\ World.state = state
      /\ World.idle = (pc = "idle") /\ World.reserves = "none"
  BY DEF World
<1> QED
  BY <1>1, <1>2 DEF Good, Shape, GoalShape, DriverShape

LEMMA DrivesGood ==
  ASSUME NEW w, Good(w), NEW r \in Worlds, Drives(w, r),
         Runs(w, r) \/ Suspends(r.state) \/ r.reserves = "loop", w.reserves = "none",
         fiber = "down" => r = w
  PROVE  Good(r)
<1>1. r.cache.armed => r.cache.goal.phase = "active"
  BY DEF Drives, Good, Stops
<1>2. r.state.run => Suspends(r.state) \/ r.reserves = "loop"
  BY DEF Runs, Good, Suspends
<1>3. r.reserves # "none" => fiber = "up" /\ r.state.attempt \in Attempts /\ r.state.attempt.phase = "queued"
  <2> SUFFICES ASSUME r.reserves # "none"
               PROVE  fiber = "up" /\ r.state.attempt \in Attempts /\ r.state.attempt.phase = "queued"
    OBVIOUS
  <2>1. fiber = "up" /\ Driven(w.cache) /\ r.state.attempt = Reservation(w.cache.goal)
    BY DEF Drives
  <2>2. w.cache.goal \in Goals
    BY <2>1, WorldIs, DrivenGoal DEF Good
  <2> QED
    BY <2>1, <2>2, RoundIs
<1> QED
  BY <1>1, <1>2, <1>3 DEF Good

LEMMA ClosedGood ==
  ASSUME NEW w, Good(w), w.reserves = "none", NEW u, NEW ending, Closed(w, u, ending)
  PROVE  Good(u) /\ u.reserves = "none"
<1>1. u.state.run => Suspends(u.state)
  BY DEF Closed, Counts, Good, Suspends
<1>2. u.cache.armed => u.cache.goal.phase = "active"
  BY DEF Closed, Good
<1>3. fiber = "down" => u.state = FreshState
  BY DEF Closed, Good
<1> QED
  BY <1>1, <1>2, <1>3 DEF Closed, Good

LEMMA IdlesGood ==
  ASSUME NEW w, Good(w), w.reserves = "none", NEW v, Idles(w, v)
  PROVE  Good(v)
<1>1. CASE fiber = "down"
  BY <1>1 DEF Idles
<1>2. CASE fiber # "down" /\ Drives(w, v)
  BY <1>2, DrivesGood DEF Idles
<1>3. CASE fiber # "down" /\ ~Drives(w, v)
  <2>1. v.reserves = "none" /\ v \in Worlds /\ Runs(w, v)
    BY <1>3 DEF Idles
  <2>2. v.cache.armed => v.cache.goal.phase = "active"
    BY <1>3 DEF Idles, Stops, Good
  <2>3. v.state.run => Suspends(v.state)
    BY <2>1 DEF Runs, Suspends, Good
  <2> QED
    BY <1>3, <2>1, <2>2, <2>3 DEF Good
<1> QED
  BY <1>1, <1>2, <1>3

\* The agent comes to rest in w.
Rests(w, steps) ==
  /\ cache' = w.cache /\ state' = w.state
  /\ Inserts(w, nextTurn)
  /\ pc' = "idle" /\ batch' = <<>> /\ aborted' = FALSE /\ latch' = FALSE
  /\ nextStep' = steps /\ excuse' = "none"

\* The ways the agent leaves its turn: a latched wake opens the next one, or it
\* comes to rest.
Settled(v) ==
  /\ \E x \in Worlds : /\ Good(x) /\ x.cache = cache /\ x.state = state /\ x.idle
                      /\ x.reserves = "none" /\ Idles(x, v)
  /\ Good(v) /\ v \in Worlds
  /\ \/ v.reserves = "none" /\ Opens(v, nextTurn, nextStep) /\ UNCHANGED breaches
     \/ Rests(v, nextStep)
  /\ pc = "exiting" /\ batch = <<>> /\ UNCHANGED dropped

LEMMA ExitsIs ==
  ASSUME Shape, frame = "none", Exits
  PROVE  \E v : Settled(v)
<1> DEFINE x == [World EXCEPT !.idle = TRUE]
           v == StatusIdle(x)
<1>1. pc = "exiting" /\ UNCHANGED dropped
  BY DEF Exits
<1>2. batch = <<>> /\ excuse = "none"
  BY <1>1 DEF Shape, TurnShape
<1>3. World \in Worlds /\ World.cache = cache /\ World.state = state /\ World.reserves = "none" /\ Good(World)
  BY WorldGood
<1>4. x \in Worlds /\ x.idle /\ x.cache = cache /\ x.state = state /\ x.reserves = "none"
  BY <1>3 DEF Worlds
<1>5. \/ v.reserves = "none" /\ Opens(v, nextTurn, nextStep) /\ UNCHANGED breaches
      \/ Rests(v, nextStep)
  BY <1>2 DEF Exits, Rests
<1> HIDE DEF x
<1>6. Good(x)
  BY <1>3, <1>4 DEF Good
<1>7. Idles(x, v)
  BY <1>4, StatusIdleIs
<1> HIDE DEF v
<1>8. Good(v) /\ v \in Worlds
  BY <1>4, <1>6, <1>7, IdlesGood DEF Idles
<1> QED
  BY <1>1, <1>2, <1>4, <1>5, <1>6, <1>7, <1>8 DEF Settled

\* What a turn claims: prompts, and one queued message behind them.
LEMMA ClaimsOne ==
  ASSUME NEW w, NEW turns \in Seq(Messages), NEW steps \in Seq(Prompts), Opens(w, turns, steps)
  PROVE  /\ batch' \in Seq(Messages) /\ nextTurn' \in Seq(Messages) /\ nextStep' = <<>>
         /\ LoneRound(batch)'
         /\ turns = <<>> => nextTurn' = <<>> /\ Elements(batch') = Elements(steps)
         /\ turns # <<>> => nextTurn' = Tail(turns) /\ Elements(batch') = Elements(steps) \cup {Head(turns)}
         /\ Elements(nextTurn') \cup Elements(batch') = Elements(turns) \cup Elements(steps)
         /\ RoundsIn(Elements(steps)) = {}
         /\ state' = Claimed(w.state, Elements(batch'))
<1>1. steps \in Seq(Messages) /\ Len(steps) \in Nat /\ DOMAIN steps = 1 .. Len(steps)
      /\ \A i \in 1 .. Len(steps) : steps[i] \in Prompts
  BY SeqMonotonic, ElementsIn, ElementOfSeq DEF Messages
<1>2. RoundsIn(Elements(steps)) = {}
  BY <1>1, MessageIs DEF RoundsIn, Elements
<1>3. CASE turns = <<>>
  <2>1. batch' = steps \o <<>> /\ nextTurn' = <<>> /\ nextStep' = <<>> /\ state' = Claimed(w.state, Elements(batch'))
    BY <1>3 DEF Opens
  <2>2. batch' = steps
    BY <1>1, <2>1, ConcatEmptySeq
  <2>3. LoneRound(steps)
    BY <1>1, MessageIs DEF LoneRound
  <2>4. Elements(turns) = {} /\ Elements(nextTurn') = {} /\ nextTurn' \in Seq(Messages)
    BY <1>3, <2>1, EmptyElements
  <2> QED
    BY <1>1, <1>2, <1>3, <2>1, <2>2, <2>3, <2>4 DEF LoneRound
<1>4. CASE turns # <<>>
  <2> DEFINE head == <<Head(turns)>>
  <2>1. /\ batch' = steps \o head /\ nextTurn' = Tail(turns) /\ nextStep' = <<>>
        /\ state' = Claimed(w.state, Elements(batch'))
    BY <1>4 DEF Opens
  <2>2. /\ Tail(turns) \in Seq(Messages) /\ head \in Seq(Messages) /\ Elements(head) = {Head(turns)}
        /\ Elements(turns) = {Head(turns)} \cup Elements(Tail(turns))
    BY <1>4, TailElements
  <2>3. Len(head) = 1 /\ head[1] = Head(turns)
    OBVIOUS
  <2> HIDE DEF head
  <2>4. /\ steps \o head \in Seq(Messages) /\ Elements(steps \o head) = Elements(steps) \cup {Head(turns)}
        /\ Len(steps \o head) = Len(steps) + 1
        /\ \A i \in 1 .. Len(steps) + 1 : (steps \o head)[i] = IF i <= Len(steps) THEN steps[i] ELSE head[i - Len(steps)]
        /\ DOMAIN (steps \o head) = 1 .. Len(steps) + 1
    <3>1. /\ steps \o head \in Seq(Messages) /\ Len(steps \o head) = Len(steps) + Len(head)
          /\ \A i \in 1 .. Len(steps) + Len(head) : (steps \o head)[i] = IF i <= Len(steps) THEN steps[i] ELSE head[i - Len(steps)]
      BY <1>1, <2>2, ConcatProperties
    <3>2. Elements(steps \o head) = Elements(steps) \cup Elements(head)
      BY <1>1, <2>2, ConcatElements
    <3>3. DOMAIN (steps \o head) = 1 .. Len(steps \o head)
      BY <3>1, LenProperties
    <3> QED
      BY <2>2, <2>3, <3>1, <3>2, <3>3
  <2>5. LoneRound(steps \o head)
    <3> SUFFICES ASSUME NEW i \in DOMAIN (steps \o head), (steps \o head)[i].kind = "round"
                 PROVE  i = Len(steps \o head)
      BY DEF LoneRound
    <3>1. CASE i <= Len(steps)
      BY <1>1, <2>4, <3>1, MessageIs
    <3> QED
      BY <1>1, <2>4, <3>1
  <2>6. LoneRound(batch)'
    BY <2>1, <2>5 DEF LoneRound
  <2> QED
    BY <1>2, <1>4, <2>1, <2>2, <2>4, <2>6
<1> QED
  BY <1>3, <1>4

LEMMA OpensShape ==
  ASSUME Shape, NEW w, Good(w), w.reserves = "none", NEW turns \in Seq(Messages), NEW steps \in Seq(Prompts),
         Opens(w, turns, steps), fiber' = fiber, HistoryShape'
  PROVE  Shape'
<1>1. GoalShape'
  BY DEF Opens, Good, GoalShape, Worlds
<1>2. DriverShape'
  <2>1. w.state \in States /\ state' = Claimed(w.state, Elements(batch'))
    BY DEF Good, Worlds, Opens
  <2>2. state' \in States /\ Counts(w.state, state') /\ (fiber = "down" => state' = w.state)
    BY <2>1, ClaimedIs
  <2> QED
    BY <2>2 DEF DriverShape, Shape, Good, Counts, Suspends
<1>3. InboxShape'
  BY ClaimsOne, EmptyElements DEF InboxShape
<1>4. TurnShape'
  <2>1. batch' \in Seq(Messages) /\ LoneRound(batch)'
    BY ClaimsOne
  <2>2. pc' = "claimed" /\ aborted' = FALSE /\ latch' = FALSE /\ frame' = "none" /\ excuse' = "none"
    BY DEF Opens
  <2> QED
    BY <2>1, <2>2 DEF TurnShape, Watched
<1> QED
  BY <1>1, <1>2, <1>3, <1>4 DEF Shape

\* A reservation is queued.
LEMMA InsertsShape ==
  ASSUME Shape, NEW w, Good(w), Inserts(w, nextTurn)
  PROVE  /\ nextTurn' \in Seq(Messages) /\ frame' = w.reserves /\ frame' \in {"none", "fresh", "loop"}
         /\ w.reserves = "none" => nextTurn' = nextTurn /\ breaches' = breaches
         /\ breaches' = breaches \cup (IF w.reserves # "none" /\ revoked THEN {"restarted"} ELSE {})
         /\ w.reserves # "none" =>
              /\ nextTurn' = Append(nextTurn, w.state.attempt.message)
              /\ w.state.attempt.message \in Messages
              /\ Elements(nextTurn') = Elements(nextTurn) \cup {w.state.attempt.message}
<1>1. nextTurn \in Seq(Messages) /\ w.reserves \in {"none", "fresh", "loop"}
  BY DEF Shape, InboxShape, Good, Worlds
<1>2. CASE w.reserves = "none"
  BY <1>1, <1>2 DEF Inserts
<1>3. CASE w.reserves # "none"
  <2>1. w.state.attempt.message \in Messages
    BY <1>3, AttemptIs DEF Good, Messages
  <2> QED
    BY <1>1, <1>3, <2>1, AppendElements DEF Inserts
<1> QED
  BY <1>2, <1>3

LEMMA RestsShape ==
  ASSUME Shape, NEW w, Good(w), NEW steps \in Seq(Prompts), Rests(w, steps), fiber' = fiber, HistoryShape'
  PROVE  Shape'
<1>1. GoalShape' /\ DriverShape' /\ InboxShape'
  <2>1. cache' = w.cache /\ state' = w.state /\ frame' = w.reserves /\ nextTurn' \in Seq(Messages) /\ nextStep' = steps
    BY InsertsShape DEF Rests
  <2> QED
    BY <2>1 DEF GoalShape, DriverShape, InboxShape, Shape, Good, Worlds
<1>2. TurnShape'
  <2>1. /\ frame' = w.reserves /\ frame' \in {"none", "fresh", "loop"} /\ state' = w.state /\ pc' = "idle"
        /\ aborted' = FALSE /\ latch' = FALSE /\ batch' = <<>> /\ excuse' = "none"
    BY InsertsShape DEF Rests
  <2>2. <<>> \in Seq(Messages) /\ LoneRound(<<>>)
    BY DEF LoneRound
  <2>3. LoneRound(batch)'
    BY <2>1, <2>2 DEF LoneRound
  <2> QED
    BY <2>1, <2>2, <2>3 DEF TurnShape, Good
<1> QED
  BY <1>1, <1>2 DEF Shape

LEMMA ContinuesShape ==
  ASSUME Shape, NEW w, Good(w), Continues(w), HistoryShape',
         w.reserves # "none" => pc = "idle",
         pc = "idle" /\ frame # "none" => FALSE,
         excuse' # "none" => pc = "entering" /\ HoldsRound
  PROVE  Shape'
<1>1. GoalShape' /\ DriverShape' /\ InboxShape'
  <2>1. cache' = w.cache /\ state' = w.state /\ frame' = w.reserves /\ nextTurn' \in Seq(Messages) /\ nextStep' = nextStep
        /\ fiber' = fiber
    BY InsertsShape DEF Continues
  <2> QED
    BY <2>1 DEF GoalShape, DriverShape, InboxShape, Shape, Good, Worlds
<1>2. TurnShape'
  <2>1. /\ frame' = w.reserves /\ frame' \in {"none", "fresh", "loop"} /\ state' = w.state
        /\ UNCHANGED <<pc, aborted, latch, batch, fiber>>
    BY InsertsShape DEF Continues
  <2>2. HoldsRound' = HoldsRound /\ LoneRound(batch)' = LoneRound(batch)
    BY <2>1 DEF HoldsRound, LoneRound
  <2> QED
    BY <2>1, <2>2 DEF TurnShape, Shape, Good
<1> QED
  BY <1>1, <1>2 DEF Shape
-----------------------------------------------------------------------------
(* Shape is inductive *)

\* What a mutation with the current ref makes of the goal.
Renews(c, d, edits) ==
  /\ d \in Caches /\ d.corrupt = c.corrupt /\ (d.armed => d.goal.phase = "active")
  /\ \/ /\ c.goal.phase \in {"none", "complete"} /\ d.goal \in Goals /\ d.goal.id = 1 + edits
        /\ d.armed
     \/ /\ c.goal \in Goals /\ d.goal \in Goals /\ d.goal.id = c.goal.id
        /\ d.goal.revision = c.goal.revision + 1 /\ d.goal.rounds = c.goal.rounds
        /\ d.armed => c.armed \/ ~Driven(c)
     \/ c.goal # NoGoal /\ d.goal = NoGoal /\ ~d.armed

LEMMA RevisedIs ==
  ASSUME NEW c \in Caches, c.goal \in Goals, NEW phase \in Phases, NEW cap \in Caps, NEW armed \in BOOLEAN
  PROVE  LET d == [goal |-> [id |-> c.goal.id, revision |-> c.goal.revision + 1, phase |-> phase,
                             cap |-> cap, rounds |-> c.goal.rounds],
                   armed |-> armed, corrupt |-> c.corrupt] IN
         /\ d \in Caches /\ d.goal \in Goals /\ d.goal.id = c.goal.id
         /\ d.goal.revision = c.goal.revision + 1 /\ d.goal.rounds = c.goal.rounds
         /\ d.goal.phase = phase /\ d.armed = armed /\ d.corrupt = c.corrupt
BY DEF Caches, Goals

LEMMA MutationIs ==
  ASSUME Shape, ~cache.corrupt,
         NEW c \in Created(cache) \cup
                   (IF cache.goal = NoGoal THEN {}
                    ELSE Edited(cache) \cup Resumed(cache) \cup Halted(cache) \cup Cleared(cache))
  PROVE  Renews(cache, c, spent.edits)
<1>1. /\ cache \in Caches /\ (cache.armed => cache.goal.phase = "active") /\ spent.edits \in Nat
      /\ cache.goal \in Goals \cup {NoGoal}
  BY DEF Shape, GoalShape, HistoryShape, Caches
<1>2. CASE c \in Created(cache)
  <2>1. PICK cap \in Caps : /\ c = [cache EXCEPT !.goal = GoalOf(1 + spent.edits, 1, "active", cap, 0), !.armed = TRUE]
                            /\ cache.goal.phase \in {"none", "complete"}
    BY <1>2 DEF Created
  <2> DEFINE g == GoalOf(1 + spent.edits, 1, "active", cap, 0)
  <2>2. g \in Goals /\ g.id = 1 + spent.edits /\ g.phase = "active"
    BY <1>1 DEF Goals, GoalOf, Phases
  <2> HIDE DEF g
  <2>3. c \in Caches /\ c.goal = g /\ c.armed /\ c.corrupt = cache.corrupt
    BY <1>1, <2>1, <2>2 DEF Caches, g
  <2> QED
    BY <2>1, <2>2, <2>3 DEF Renews
<1>3. CASE cache.goal # NoGoal /\ c \in Edited(cache)
  <2>1. cache.goal \in Goals
    BY <1>1, <1>3
  <2>2. PICK cap \in Caps : c = [cache EXCEPT !.goal.cap = cap, !.goal.revision = @ + 1]
    BY <1>3 DEF Edited
  <2>3. c = [goal |-> [id |-> cache.goal.id, revision |-> cache.goal.revision + 1, phase |-> cache.goal.phase,
                       cap |-> cap, rounds |-> cache.goal.rounds],
             armed |-> cache.armed, corrupt |-> cache.corrupt]
    BY <1>1, <2>1, <2>2 DEF Caches, Goals
  <2>4. cache.goal.phase \in Phases /\ cache.armed \in BOOLEAN
    BY <1>1, <2>1 DEF Caches, Goals
  <2>5. /\ c \in Caches /\ c.goal \in Goals /\ c.goal.id = cache.goal.id
        /\ c.goal.revision = cache.goal.revision + 1 /\ c.goal.rounds = cache.goal.rounds
        /\ c.goal.phase = cache.goal.phase /\ c.armed = cache.armed /\ c.corrupt = cache.corrupt
    BY <1>1, <2>1, <2>3, <2>4, RevisedIs
  <2>6. (c.armed => cache.armed) /\ (c.armed => c.goal.phase = "active")
    BY <1>1, <2>5
  <2> QED
    BY <2>1, <2>5, <2>6 DEF Renews
<1>4. CASE cache.goal # NoGoal /\ c \in Resumed(cache)
  <2>1. cache.goal \in Goals
    BY <1>1, <1>4
  <2>2. c = [cache EXCEPT !.goal.phase = "active", !.goal.revision = @ + 1, !.armed = TRUE] /\ ~Driven(cache)
    BY <1>4 DEF Resumed
  <2>3. c = [goal |-> [id |-> cache.goal.id, revision |-> cache.goal.revision + 1, phase |-> "active",
                       cap |-> cache.goal.cap, rounds |-> cache.goal.rounds],
             armed |-> TRUE, corrupt |-> cache.corrupt]
    BY <1>1, <2>1, <2>2 DEF Caches, Goals
  <2>4. cache.goal.cap \in Caps /\ "active" \in Phases
    BY <2>1 DEF Goals, Phases
  <2>5. /\ c \in Caches /\ c.goal \in Goals /\ c.goal.id = cache.goal.id
        /\ c.goal.revision = cache.goal.revision + 1 /\ c.goal.rounds = cache.goal.rounds
        /\ c.goal.phase = "active" /\ c.armed = TRUE /\ c.corrupt = cache.corrupt
    BY <1>1, <2>1, <2>3, <2>4, RevisedIs
  <2> QED
    BY <2>1, <2>2, <2>5 DEF Renews
<1>5. CASE cache.goal # NoGoal /\ c \in Halted(cache)
  <2>1. cache.goal \in Goals
    BY <1>1, <1>5
  <2>2. PICK phase \in Phases : c = [cache EXCEPT !.goal.phase = phase, !.goal.revision = @ + 1, !.armed = FALSE]
    BY <1>5 DEF Halted, Phases
  <2>3. c = [goal |-> [id |-> cache.goal.id, revision |-> cache.goal.revision + 1, phase |-> phase,
                       cap |-> cache.goal.cap, rounds |-> cache.goal.rounds],
             armed |-> FALSE, corrupt |-> cache.corrupt]
    BY <1>1, <2>1, <2>2 DEF Caches, Goals
  <2>4. cache.goal.cap \in Caps
    BY <2>1 DEF Goals
  <2>5. /\ c \in Caches /\ c.goal \in Goals /\ c.goal.id = cache.goal.id
        /\ c.goal.revision = cache.goal.revision + 1 /\ c.goal.rounds = cache.goal.rounds
        /\ c.goal.phase = phase /\ c.armed = FALSE /\ c.corrupt = cache.corrupt
    BY <1>1, <2>1, <2>3, <2>4, RevisedIs
  <2> QED
    BY <2>1, <2>5 DEF Renews
<1>6. CASE cache.goal # NoGoal /\ c \in Cleared(cache)
  <2>1. c = [cache EXCEPT !.goal = NoGoal, !.armed = FALSE]
    BY <1>6 DEF Cleared
  <2>2. c \in Caches /\ c.goal = NoGoal /\ c.armed = FALSE /\ c.corrupt = cache.corrupt
    BY <1>1, <2>1 DEF Caches
  <2> QED
    BY <1>6, <2>2 DEF Renews
<1> QED
  BY <1>2, <1>3, <1>4, <1>5, <1>6

\* A mutation moves the goal and leaves the attempt.
LEMMA MutateIs ==
  ASSUME Shape, Mutate
  PROVE  /\ Renews(cache, cache', spent.edits) /\ ~cache.corrupt
         /\ state' \in States /\ state'.attempt = state.attempt
         /\ state'.run => Suspends(state') \/ frame = "loop"
         /\ fiber = "down" => state' = state
         /\ spent' = [spent EXCEPT !.edits = @ + 1]
         /\ excuse' = IF Slips THEN "slipped" ELSE excuse
         /\ revoked' = (revoked /\ ~(cache'.armed /\ ~cache.armed))
         /\ UNCHANGED <<fiber, turn, inbox, waiting, served, dropped, breaches>>
<1>1. PICK c \in Created(cache) \cup
                 (IF cache.goal = NoGoal THEN {}
                  ELSE Edited(cache) \cup Resumed(cache) \cup Halted(cache) \cup Cleared(cache)) :
        LET w == GoalChanged([World EXCEPT !.cache = c]) IN
        /\ cache' = w.cache /\ state' = w.state
        /\ revoked' = (revoked /\ ~(c.armed /\ ~cache.armed))
  BY DEF Mutate
<1>2. ~cache.corrupt /\ Renews(cache, c, spent.edits)
  BY MutationIs DEF Mutate
<1> DEFINE v == [World EXCEPT !.cache = c]
<1>3. v \in Worlds /\ v.cache = c /\ v.state = state /\ v.reserves = "none"
  BY <1>2, WorldGood, CacheWith DEF Renews
<1> HIDE DEF v
<1>4. Quiet(v, GoalChanged(v)) /\ Runs(v, GoalChanged(v)) /\ (fiber = "down" => GoalChanged(v) = v)
  BY <1>3, GoalChangedIs
<1>5. cache' = GoalChanged(v).cache /\ state' = GoalChanged(v).state
  BY <1>1 DEF v
<1>6. cache' = c /\ state' \in States /\ state'.attempt = state.attempt /\ (fiber = "down" => state' = state)
  BY <1>3, <1>4, <1>5 DEF Quiet, Same, Worlds
<1>7. state'.run => Suspends(state') \/ frame = "loop"
  BY <1>3, <1>4, <1>5 DEF Runs, Quiet, Suspends, Shape, DriverShape
<1> QED
  BY <1>1, <1>2, <1>6, <1>7 DEF Mutate

LEMMA MutateShape ==
  ASSUME Shape, Mutate
  PROVE  Shape'
<1>1. GoalShape' /\ DriverShape' /\ InboxShape'
  BY MutateIs DEF Renews, Shape, GoalShape, DriverShape, InboxShape, turn, inbox
<1>2. TurnShape'
  <2>1. UNCHANGED <<fiber, pc, frame, batch, aborted, latch>> /\ state'.attempt = state.attempt
        /\ excuse' = IF Slips THEN "slipped" ELSE excuse
    BY MutateIs DEF turn
  <2>2. HoldsRound' = HoldsRound /\ LoneRound(batch)' = LoneRound(batch)
    BY <2>1 DEF HoldsRound, LoneRound
  <2> QED
    BY <2>1, <2>2 DEF TurnShape, Shape, Slips, HoldsRound
<1>3. HistoryShape'
  <2>1. spent' = [spent EXCEPT !.edits = @ + 1] /\ excuse' \in {excuse, "slipped"} /\ breaches' = breaches
        /\ revoked' \in BOOLEAN
    BY MutateIs
  <2>2. spent' \in [prompts : 0 .. MaxPrompts, edits : Nat, mishaps : Nat]
    BY <2>1 DEF Shape, HistoryShape
  <2> QED
    BY <2>1, <2>2 DEF Shape, HistoryShape
<1> QED
  BY <1>1, <1>2, <1>3 DEF Shape

\* The worlds the other actions start from.
LEMMA InsertedWorld ==
  ASSUME Shape, NEW queue
  PROVE  LET w == [World EXCEPT !.state = Inserted(state, queue)] IN
         /\ w \in Worlds /\ w.cache = cache /\ w.state = Inserted(state, queue)
         /\ w.idle = (pc = "idle") /\ w.reserves = "none"
         /\ w.state \in States /\ Counts(state, w.state) /\ (fiber = "down" => w.state = state)
<1> DEFINE s == Inserted(state, queue)
           w == [World EXCEPT !.state = s]
<1>1. state \in States
  BY DEF Shape, DriverShape
<1>2. s \in States /\ Counts(state, s) /\ (fiber = "down" => s = state)
  BY <1>1, InsertedIs
<1> HIDE DEF s
<1>3. w \in Worlds /\ w.state = s /\ w.cache = cache /\ w.idle = (pc = "idle") /\ w.reserves = "none"
  BY <1>2, WorldGood, WorldWith
<1> QED
  BY <1>2, <1>3 DEF s

LEMMA FinishedIs ==
  ASSUME Shape, NEW w \in Worlds, w.cache = cache, w.reserves = "none", Counts(state, w.state),
         fiber = "down" => w.state = state
  PROVE  /\ Good(Finished(w)) /\ Finished(w).reserves = "none" /\ Finished(w).cache = cache
         /\ Finished(w).state.attempt = w.state.attempt
<1>1. CASE frame = "none"
  <2>1. Finished(w) = w
    BY <1>1 DEF Finished
  <2>2. w.state.run => Suspends(w.state)
    BY <1>1 DEF Shape, DriverShape, Counts, Suspends
  <2> QED
    BY <2>1, <2>2 DEF Good, Shape, GoalShape, DriverShape
<1>2. CASE frame # "none"
  <2> DEFINE v == [w EXCEPT !.idle = FALSE]
             fresh == frame = "fresh"
  <2>1. v \in Worlds /\ v.cache = cache /\ v.state = w.state /\ v.reserves = "none"
    BY DEF Worlds
  <2>2. Finished(w) = Returns(v, fresh) /\ fresh \in BOOLEAN
    BY <1>2 DEF Finished
  <2> HIDE DEF v, fresh
  <2>3. Quiet(v, Returns(v, fresh)) /\ Suspends(Returns(v, fresh).state)
    BY <2>1, <2>2, ReturnsIs
  <2>4. fiber = "up"
    BY <1>2 DEF Shape, TurnShape
  <2> QED
    BY <2>1, <2>2, <2>3, <2>4 DEF Good, Quiet, Same, Shape, GoalShape
<1> QED
  BY <1>1, <1>2

\* What a message of a person does to the lists and to the driver.
LEMMA SendIs ==
  ASSUME Shape, NEW queue \in {"next-turn", "next-step"}, NEW wakeup \in BOOLEAN, Send(queue, wakeup)
  PROVE  \E target \in {"next-turn", "next-step"}, turns \in Seq(Messages), steps \in Seq(Prompts) :
           /\ spent.prompts < MaxPrompts
           /\ target = "next-turn" => turns = Append(nextTurn, Prompt(spent.prompts + 1)) /\ steps = nextStep
           /\ target = "next-step" => turns = nextTurn /\ steps = Append(nextStep, Prompt(spent.prompts + 1))
           /\ \/ /\ pc = "idle"
                 /\ \E w : /\ Good(w) /\ w.reserves = "none" /\ w.cache = cache
                           /\ w.state.attempt = Inserted(state, target).attempt
                           /\ Opens(w, turns, steps)
              \/ /\ cache' = cache /\ state' = Inserted(state, target)
                 /\ nextTurn' = turns /\ nextStep' = steps
                 /\ latch' \in BOOLEAN /\ (pc = "idle" => latch' = latch)
                 /\ UNCHANGED <<pc, frame, batch, aborted, waiting, excuse>>
           /\ spent' = [spent EXCEPT !.prompts = @ + 1]
           /\ UNCHANGED <<fiber, revoked, served, dropped, breaches>>
<1> DEFINE message == Prompt(spent.prompts + 1)
           late == wakeup /\ pc # "idle" /\ aborted
           target == IF late THEN "next-turn" ELSE queue
           turns == IF target = "next-turn" THEN Append(nextTurn, message) ELSE nextTurn
           steps == IF target = "next-step" THEN Append(nextStep, message) ELSE nextStep
           w == [World EXCEPT !.state = Inserted(state, target)]
<1>1. /\ spent.prompts < MaxPrompts
      /\ spent' = [spent EXCEPT !.prompts = @ + 1]
      /\ IF wakeup /\ pc = "idle"
         THEN Opens(Finished(w), turns, steps)
         ELSE /\ cache' = w.cache /\ state' = w.state
              /\ nextTurn' = turns /\ nextStep' = steps
              /\ latch' = (latch \/ late)
              /\ UNCHANGED <<pc, frame, batch, aborted, waiting, excuse>>
      /\ UNCHANGED <<fiber, revoked, served, dropped, breaches>>
  BY DEF Send
<1>2. message \in Prompts
  BY <1>1, BoundsAssumption DEF Prompts, Shape, HistoryShape
<1>3. target \in {"next-turn", "next-step"}
  OBVIOUS
<1> HIDE DEF message
<1>4. nextTurn \in Seq(Messages) /\ nextStep \in Seq(Prompts) /\ message \in Messages
  BY <1>2 DEF Shape, InboxShape, Messages
<1>5. turns \in Seq(Messages) /\ steps \in Seq(Prompts)
  BY <1>2, <1>4, AppendProperties
<1>6. late \in BOOLEAN /\ (pc = "idle" => ~late) /\ latch \in BOOLEAN
  BY DEF Shape, TurnShape
<1> HIDE DEF target, late
<1>7. /\ w \in Worlds /\ w.cache = cache /\ w.state = Inserted(state, target) /\ w.reserves = "none"
      /\ Counts(state, w.state) /\ (fiber = "down" => w.state = state)
  BY InsertedWorld
<1> HIDE DEF w
<1>8. /\ Good(Finished(w)) /\ Finished(w).reserves = "none" /\ Finished(w).cache = cache
      /\ Finished(w).state.attempt = w.state.attempt
  BY <1>7, FinishedIs
<1>9. \/ /\ pc = "idle" /\ Good(Finished(w)) /\ Finished(w).reserves = "none" /\ Finished(w).cache = cache
         /\ Finished(w).state.attempt = Inserted(state, target).attempt
         /\ Opens(Finished(w), turns, steps)
      \/ /\ cache' = cache /\ state' = Inserted(state, target)
         /\ nextTurn' = turns /\ nextStep' = steps
         /\ latch' \in BOOLEAN /\ (pc = "idle" => latch' = latch)
         /\ UNCHANGED <<pc, frame, batch, aborted, waiting, excuse>>
  <2>1. CASE wakeup /\ pc = "idle"
    BY <1>1, <1>7, <1>8, <2>1
  <2>2. CASE ~(wakeup /\ pc = "idle")
    BY <1>1, <1>6, <1>7, <2>2
  <2> QED
    BY <2>1, <2>2
<1>10. /\ target = "next-turn" => turns = Append(nextTurn, Prompt(spent.prompts + 1)) /\ steps = nextStep
       /\ target = "next-step" => turns = nextTurn /\ steps = Append(nextStep, Prompt(spent.prompts + 1))
  BY DEF message
<1> HIDE DEF turns, steps
<1> QED
  BY <1>1, <1>3, <1>5, <1>9, <1>10

LEMMA SentHistory ==
  ASSUME Shape, spent.prompts < MaxPrompts, spent' = [spent EXCEPT !.prompts = @ + 1],
         excuse' \in {"none", excuse}, UNCHANGED <<revoked, breaches>>
  PROVE  HistoryShape'
<1>1. spent' \in [prompts : 0 .. MaxPrompts, edits : Nat, mishaps : Nat]
  BY BoundsAssumption DEF Shape, HistoryShape
<1> QED
  BY <1>1 DEF Shape, HistoryShape

LEMMA SendShape ==
  ASSUME Shape, NEW queue \in {"next-turn", "next-step"}, NEW wakeup \in BOOLEAN, Send(queue, wakeup)
  PROVE  Shape'
<1>1. PICK target \in {"next-turn", "next-step"}, turns \in Seq(Messages), steps \in Seq(Prompts) :
           /\ spent.prompts < MaxPrompts
           /\ \/ /\ pc = "idle"
                 /\ \E w : /\ Good(w) /\ w.reserves = "none" /\ w.cache = cache
                           /\ Opens(w, turns, steps)
              \/ /\ cache' = cache /\ state' = Inserted(state, target)
                 /\ nextTurn' = turns /\ nextStep' = steps
                 /\ latch' \in BOOLEAN /\ (pc = "idle" => latch' = latch)
                 /\ UNCHANGED <<pc, frame, batch, aborted, waiting, excuse>>
           /\ spent' = [spent EXCEPT !.prompts = @ + 1]
           /\ UNCHANGED <<fiber, revoked, served, dropped, breaches>>
  BY SendIs
<1>2. CASE \E w : /\ Good(w) /\ w.reserves = "none" /\ w.cache = cache
                  /\ Opens(w, turns, steps)
  <2>1. PICK w : Good(w) /\ w.reserves = "none" /\ Opens(w, turns, steps)
    BY <1>2
  <2>2. HistoryShape'
    BY <1>1, <2>1, SentHistory DEF Opens
  <2> QED
    BY <1>1, <2>1, <2>2, OpensShape
<1>3. CASE /\ cache' = cache /\ state' = Inserted(state, target)
           /\ nextTurn' = turns /\ nextStep' = steps
           /\ latch' \in BOOLEAN /\ (pc = "idle" => latch' = latch)
           /\ UNCHANGED <<pc, frame, batch, aborted, waiting, excuse>>
  <2>1. HistoryShape'
    BY <1>1, <1>3, SentHistory
  <2>2. GoalShape' /\ InboxShape'
    BY <1>3 DEF Shape, GoalShape, InboxShape
  <2>3. state \in States
    BY DEF Shape, DriverShape
  <2>4. /\ state' \in States /\ Counts(state, state') /\ (fiber = "down" => state' = state)
        /\ state'.attempt.phase = state.attempt.phase
    BY <1>3, <2>3, InsertedIs
  <2>5. DriverShape'
    BY <1>1, <1>3, <2>4 DEF Shape, DriverShape, Counts, Suspends
  <2>6. TurnShape'
    <3>1. HoldsRound' = HoldsRound /\ LoneRound(batch)' = LoneRound(batch)
      BY <1>3 DEF HoldsRound, LoneRound
    <3> QED
      BY <1>1, <1>3, <2>4, <3>1 DEF Shape, TurnShape
  <2> QED
    BY <2>1, <2>2, <2>5, <2>6 DEF Shape
<1> QED
  BY <1>1, <1>2, <1>3

LEMMA CancelShape ==
  ASSUME Shape, NEW keepInbox \in BOOLEAN, Cancel(keepInbox)
  PROVE  Shape'
<1> DEFINE gone == IF keepInbox THEN {} ELSE Elements(nextTurn) \cup Elements(nextStep)
<1>1. /\ state' = Discarded(state, gone)
      /\ aborted' = (pc # "idle") /\ latch' = (latch /\ keepInbox)
      /\ nextTurn' \in {nextTurn, <<>>} /\ nextStep' \in {nextStep, <<>>}
      /\ UNCHANGED <<cache, fiber, pc, frame, batch, spent, waiting, excuse, served, breaches>>
      /\ revoked' \in BOOLEAN
  BY DEF Cancel, inbox
<1> HIDE DEF gone
<1>2. state \in States
  BY DEF Shape, DriverShape
<1>3. /\ state' \in States /\ Counts(state, state') /\ state'.attempt.phase = state.attempt.phase
  BY <1>1, <1>2, DiscardedIs
<1>4. fiber = "down" => state' = state
  BY <1>1, <1>2, DiscardedIs
<1>5. GoalShape' /\ InboxShape' /\ HistoryShape'
  BY <1>1, EmptyElements DEF Shape, GoalShape, InboxShape, HistoryShape
<1>6. DriverShape'
  BY <1>1, <1>3, <1>4 DEF Shape, DriverShape, Counts, Suspends
<1>7. TurnShape'
  <2>1. HoldsRound' = HoldsRound /\ LoneRound(batch)' = LoneRound(batch)
    BY <1>1 DEF HoldsRound, LoneRound
  <2>2. aborted' \in BOOLEAN /\ latch' \in BOOLEAN /\ (pc = "idle" => ~aborted' /\ ~latch')
    BY <1>1 DEF Shape, TurnShape
  <2> QED
    BY <1>1, <1>3, <2>1, <2>2 DEF Shape, TurnShape
<1> QED
  BY <1>5, <1>6, <1>7 DEF Shape
-----------------------------------------------------------------------------
(* The agent's steps *)

\* The world a turn gives up in: the driver has looked at it, or given its round up.
Leaves(w) ==
  /\ Good(w) /\ w.reserves = "none"
  /\ \/ w.cache = cache /\ w.state.attempt = state.attempt
     \/ /\ HoldsRound /\ w.state.attempt = NoAttempt
        /\ pc = "deciding" \/ Matches(TheRound, state.attempt)
        /\ w.cache = cache \/ (Driven(cache) /\ Stops(cache, w.cache, "blocked"))

\* A turn gives up its batch, or puts the prompts of it back; u is left of the
\* world, and a turn whose signal is aborted closes as such once it is looked at.
Yields(w, u, ending) ==
  /\ Leaves(w) /\ Closed(w, u, ending)
  /\ pc # "idle" /\ pc' \in {"unwinding", "throwing", "returned", "failing", "ended", "exiting"}
  /\ pc \in Watched /\ aborted => pc' \in Watched \/ ending = "aborted"
  /\ cache' = u.cache /\ state' = u.state
  /\ batch' = <<>> /\ excuse' = "none" /\ nextStep' \in Seq(Prompts)
  /\ \/ nextStep' = nextStep /\ dropped' = dropped \cup PromptsIn(Elements(batch))
     \/ Elements(nextStep') = PromptsIn(Elements(batch)) \cup Elements(nextStep) /\ dropped' = dropped
  /\ UNCHANGED <<frame, aborted, latch, nextTurn, breaches>>

LEMMA YieldsShape ==
  ASSUME Shape, frame = "none", NEW w, NEW u, NEW ending, Yields(w, u, ending),
         UNCHANGED <<fiber, spent, revoked>>
  PROVE  Shape'
<1>1. Good(u) /\ u.reserves = "none"
  BY ClosedGood DEF Yields, Leaves
<1>2. GoalShape' /\ InboxShape' /\ HistoryShape'
  BY <1>1 DEF Yields, Good, Worlds, Shape, GoalShape, InboxShape, HistoryShape
<1>3. DriverShape'
  BY <1>1 DEF Yields, Good, Worlds, Shape, DriverShape
<1>4. TurnShape'
  <2>1. <<>> \in Seq(Messages) /\ LoneRound(<<>>)
    BY DEF LoneRound
  <2>2. LoneRound(batch)' /\ batch' \in Seq(Messages)
    BY <2>1 DEF LoneRound, Yields
  <2> QED
    BY <2>2 DEF Yields, Shape, TurnShape, Watched
<1> QED
  BY <1>2, <1>3, <1>4 DEF Shape

LEMMA ClosedSame ==
  ASSUME NEW w \in Worlds
  PROVE  Closed(w, w, "completed")
BY DEF Closed, Counts

LEMMA DropsIs ==
  ASSUME Shape, NEW w, Leaves(w), pc # "idle",
         NEW place \in {"unwinding", "throwing", "returned", "exiting"},
         pc \in Watched /\ aborted => place \in Watched,
         Drops(w, place) \/ (Refuses(w) /\ place = "unwinding")
  PROVE  Yields(w, w, "completed")
<1>1. nextStep \in Seq(Prompts) /\ batch \in Seq(Messages) /\ LoneRound(batch)
  BY DEF Shape, InboxShape, TurnShape
<1>2. Closed(w, w, "completed")
  BY ClosedSame DEF Leaves, Good
<1>3. CASE Drops(w, place)
  BY <1>1, <1>2, <1>3 DEF Drops, GivesUp, Yields
<1>4. CASE Refuses(w) /\ place = "unwinding"
  <2>1. PromptsOf(batch) \in Seq(Prompts) /\ Elements(PromptsOf(batch)) = PromptsIn(Elements(batch))
    BY <1>1, PromptsElements
  <2>2. /\ Restored(batch) \in Seq(Prompts)
        /\ Elements(Restored(batch)) = PromptsIn(Elements(batch)) \cup Elements(nextStep)
    BY <1>1, <2>1, ConcatElements DEF Restored
  <2> QED
    BY <1>2, <1>4, <2>2 DEF Refuses, GivesUp, Yields
<1> QED
  BY <1>3, <1>4

LEMMA WorldLeaves ==
  ASSUME Shape, frame = "none"
  PROVE  Leaves(World) /\ World \in Worlds
BY WorldGood DEF Leaves

LEMMA TurnEndsIs ==
  ASSUME Shape, frame = "none", pc # "idle", NEW ending, TurnEnds(ending),
         pc \in Watched /\ aborted => ending = "aborted"
  PROVE  \E u : Yields(World, u, ending)
<1> DEFINE u == TurnClosed(World, ending)
<1>1. Leaves(World) /\ World \in Worlds
  BY WorldLeaves
<1>2. Closed(World, u, ending)
  BY <1>1, TurnClosedIs
<1>3. nextStep \in Seq(Prompts)
  BY DEF Shape, InboxShape
<1>4. /\ cache' = u.cache /\ state' = u.state /\ pc' \in {"ended", "exiting"}
      /\ batch' = <<>> /\ excuse' = "none" /\ dropped' = dropped \cup PromptsIn(Elements(batch))
      /\ UNCHANGED <<frame, aborted, latch, nextTurn, nextStep, breaches>>
  BY DEF TurnEnds, inbox
<1> HIDE DEF u
<1>5. Yields(World, u, ending)
  BY <1>1, <1>2, <1>3, <1>4 DEF Yields
<1> QED
  BY <1>5

LEMMA FailsIs ==
  ASSUME Shape, frame = "none", pc # "idle", Fails
  PROVE  \E u, ending : Yields(World, u, ending)
<1>1. CASE aborted /\ TurnEnds("aborted")
  BY <1>1, TurnEndsIs
<1>2. CASE /\ ~aborted /\ pc' = "failing"
           /\ cache' = Failed(World).cache
           /\ batch' = <<>> /\ dropped' = dropped \cup PromptsIn(Elements(batch))
           /\ excuse' = "none"
           /\ UNCHANGED <<state, frame, aborted, latch, inbox, breaches>>
  <2> DEFINE u == Failed(World)
  <2>1. Leaves(World) /\ World \in Worlds /\ World.state = state
    BY WorldLeaves, WorldGood
  <2>2. Closed(World, u, "error") /\ u.state = state
    BY <2>1, FailedIs
  <2>3. nextStep \in Seq(Prompts)
    BY DEF Shape, InboxShape
  <2>4. cache' = u.cache
    BY <1>2
  <2> HIDE DEF u
  <2>5. Yields(World, u, "error")
    BY <1>2, <2>1, <2>2, <2>3, <2>4 DEF Yields, inbox
  <2> QED
    BY <2>5
<1> QED
  BY <1>1, <1>2 DEF Fails

LEMMA WithoutWorld ==
  ASSUME Shape, frame = "none"
  PROVE  Good(Without(World)) /\ Without(World).reserves = "none" /\ Without(World).cache = cache
         /\ Without(World).state.attempt = NoAttempt /\ Without(World).idle = (pc = "idle")
<1> DEFINE w == Without(World)
<1>1. /\ World \in Worlds /\ World.cache = cache /\ World.state = state
      /\ World.idle = (pc = "idle") /\ World.reserves = "none" /\ Good(World)
  BY WorldGood
<1>2. /\ w \in Worlds /\ w.idle = World.idle /\ w.cache = cache /\ w.reserves = "none"
      /\ w.state.attempt = NoAttempt /\ Runs(World, w)
  BY <1>1, WithoutIs DEF Same
<1>3. fiber = "down" => w.state = FreshState
  <2> SUFFICES ASSUME fiber = "down" PROVE w.state = FreshState
    OBVIOUS
  <2>1. state = FreshState
    BY DEF Shape, DriverShape
  <2>2. w.state = [state EXCEPT !.attempt = NoAttempt]
    BY <1>1 DEF Without, Worlds
  <2> QED
    BY <2>1, <2>2 DEF FreshState
<1> HIDE DEF w
<1>4. Good(w)
  BY <1>1, <1>2, <1>3 DEF Good, Runs, Suspends
<1> QED
  BY <1>1, <1>2, <1>4 DEF w

\* While a turn is open the driver only notes what it is asked.
LEMMA BusyDrive ==
  ASSUME NEW w, Good(w), w.reserves = "none", ~w.idle
  PROVE  LET r == RequestDrive(w) IN
         Good(r) /\ r.reserves = "none" /\ r.cache = w.cache /\ r.state.attempt = w.state.attempt
<1> DEFINE r == RequestDrive(w)
<1>1. Same(w, r) /\ Drives(w, r) /\ Runs(w, r) /\ (fiber # "up" => r = w)
  BY RequestDriveIs DEF Good
<1> HIDE DEF r
<1>2. r.reserves = "none" /\ r.cache = w.cache /\ r.state.attempt = w.state.attempt
  BY <1>1 DEF Drives
<1>3. Good(r)
  BY <1>1, DrivesGood DEF Same
<1> QED
  BY <1>2, <1>3 DEF r

LEMMA RejectedGood ==
  ASSUME Shape, frame = "none"
  PROVE  /\ Good(Rejected) /\ Rejected.reserves = "none" /\ Rejected.state.attempt = NoAttempt
         /\ Rejected.cache = cache \/ (Driven(cache) /\ Stops(cache, Rejected.cache, "blocked"))
<1> DEFINE r == Rejected
<1>1. World \in Worlds /\ World.cache = cache /\ World.state = state /\ Good(World) /\ World.reserves = "none"
  BY WorldGood
<1>2. /\ r \in Worlds /\ r.reserves = "none" /\ r.state.attempt = NoAttempt /\ Runs(World, r)
      /\ r.cache = cache \/ (Driven(cache) /\ Stops(cache, r.cache, "blocked"))
  BY <1>1, RejectedIs
<1>3. fiber = "down" => r.state = FreshState
  <2> SUFFICES ASSUME fiber = "down" PROVE r.state = FreshState
    OBVIOUS
  <2>1. Good(Without(World)) /\ Without(World).cache = cache /\ Without(World).reserves = "none"
    BY WithoutWorld
  <2>2. CASE r = Without(World)
    BY <2>1, <2>2 DEF Good
  <2>3. CASE r = GoalChanged(Stopped(Without(World), "blocked")) /\ Driven(cache)
    <3>1. cache.goal \in Goals
      BY <2>3, DrivenGoal DEF Shape, GoalShape
    <3>2. Without(World) \in Worlds
      BY <2>1 DEF Good
    <3>3. /\ Stopped(Without(World), "blocked") \in Worlds
          /\ Stopped(Without(World), "blocked").state = Without(World).state
          /\ Stopped(Without(World), "blocked").reserves = "none"
      BY <2>1, <3>1, <3>2, StoppedIs DEF Phases
    <3>4. r = Stopped(Without(World), "blocked")
      BY <2>3, <3>3, GoalChangedIs
    <3> QED
      BY <2>1, <3>3, <3>4 DEF Good
  <2> QED
    BY <2>2, <2>3 DEF Rejected
<1> HIDE DEF r
<1>4. r.cache.armed => r.cache.goal.phase = "active"
  BY <1>2 DEF Stops, Shape, GoalShape
<1>5. r.state.run => Suspends(r.state)
  BY <1>1, <1>2 DEF Good, Runs, Suspends
<1>6. Good(r)
  BY <1>2, <1>3, <1>4, <1>5 DEF Good
<1> QED
  BY <1>2, <1>6 DEF r

\* The fence and the step, as the invariants need them.
PassesFence ==
  /\ HoldsRound = HoldsRound'
  /\ \/ /\ pc = "claimed" /\ pc' = "entering" /\ (~HoldsRound \/ fiber = "down")
        /\ excuse' = IF HoldsRound THEN "unfenced" ELSE excuse
     \/ /\ pc = "claimed" /\ pc' = "deciding" /\ HoldsRound /\ ValidReservation /\ excuse' = excuse
     \/ /\ pc = "deciding" /\ pc' = "entering" /\ HoldsRound /\ ValidReservation /\ excuse' = excuse
  /\ UNCHANGED <<cache, state, frame, batch, aborted, latch, inbox, waiting, dropped, breaches, served>>

Steps ==
  /\ pc = "stepping" /\ pc' \in {"stepping", "unwinding"} /\ ~aborted /\ nextStep' = <<>>
  /\ \/ served' = served \cup Elements(nextStep) /\ UNCHANGED dropped
     \/ dropped' = dropped \cup Elements(nextStep) /\ UNCHANGED served
  /\ UNCHANGED <<cache, state, frame, batch, aborted, latch, nextTurn, waiting, excuse, breaches>>

\* A turn opens behind another one that completed, or at a drive's wake.
Reopens ==
  /\ pc = "ended" \/ frame # "none"
  /\ UNCHANGED <<served, dropped, breaches>>
  /\ \E w : /\ Good(w) /\ w.reserves = "none" /\ w.cache = cache /\ w.state.attempt = state.attempt
            /\ Opens(w, nextTurn, nextStep)

LEMMA AgentCases ==
  ASSUME Shape, AgentRuns
  PROVE  /\ UNCHANGED <<fiber, spent, revoked>>
         /\ \/ Reopens
            \/ frame = "none" /\ UNCHANGED served /\ \E w, u, ending : Yields(w, u, ending)
            \/ frame = "none" /\ PassesFence
            \/ /\ frame = "none" /\ pc = "entering" /\ ~aborted
               /\ \E entered \in {batch, PromptsOf(batch)} : Enters(entered)
            \/ frame = "none" /\ Steps
            \/ frame = "none" /\ UNCHANGED served /\ \E v : Settled(v)
<1>0. UNCHANGED <<fiber, spent, revoked>>
  BY DEF AgentRuns
<1>1. CASE Wake
  <2>1. Opens(Finished(World), nextTurn, nextStep) /\ frame # "none" /\ UNCHANGED <<served, dropped, breaches>>
    BY <1>1 DEF Wake
  <2>2. World \in Worlds /\ World.cache = cache /\ World.state = state /\ World.reserves = "none"
    BY WorldGood
  <2>3. Counts(state, World.state)
    BY <2>2 DEF Counts
  <2>4. /\ Good(Finished(World)) /\ Finished(World).reserves = "none" /\ Finished(World).cache = cache
        /\ Finished(World).state.attempt = state.attempt
    BY <2>2, <2>3, FinishedIs
  <2>5. Reopens
    BY <2>1, <2>4 DEF Reopens
  <2> QED
    BY <1>0, <2>5
<1>2. ASSUME frame = "none"
      PROVE  /\ Good(World) /\ World.reserves = "none" /\ World.cache = cache /\ World.state = state
             /\ World.idle = (pc = "idle") /\ Leaves(World)
  BY <1>2, WorldGood DEF Leaves
<1>4. CASE frame = "none" /\ ReachesFence /\ UNCHANGED served
  <2>1. pc = "claimed"
    BY <1>4 DEF ReachesFence
  <2>2. CASE Fails
    BY <1>0, <1>4, <2>1, <2>2, FailsIs
  <2>3. CASE /\ IF ~HoldsRound \/ fiber = "down" THEN pc' = "entering"
                ELSE ValidReservation /\ pc' = "deciding"
             /\ excuse' = IF HoldsRound /\ fiber = "down" THEN "unfenced" ELSE excuse
             /\ UNCHANGED <<cache, state, frame, batch, aborted, latch, inbox, waiting, dropped, breaches>>
    <3>1. HoldsRound' = HoldsRound
      BY <2>3 DEF HoldsRound
    <3>2. PassesFence
      BY <1>4, <2>1, <2>3, <3>1 DEF PassesFence
    <3> QED
      BY <1>0, <1>4, <3>2
  <2>4. CASE /\ HoldsRound /\ fiber # "down" /\ ~ValidReservation
             /\ Refuses(RequestDrive(IF Matches(TheRound, state.attempt) THEN Without(World) ELSE World))
    <3> DEFINE v == IF Matches(TheRound, state.attempt) THEN Without(World) ELSE World
               w == RequestDrive(v)
    <3>1. Good(v) /\ v.reserves = "none" /\ v.cache = cache /\ ~v.idle
      BY <1>2, <1>4, <2>1, WithoutWorld
    <3>2. /\ v.state.attempt = NoAttempt /\ Matches(TheRound, state.attempt)
          \/ v.state.attempt = state.attempt
      BY <1>2, <1>4, WithoutWorld
    <3> HIDE DEF v
    <3>3. Good(w) /\ w.reserves = "none" /\ w.cache = cache /\ w.state.attempt = v.state.attempt
      BY <3>1, BusyDrive
    <3>4. Refuses(w)
      BY <2>4 DEF v
    <3> HIDE DEF w
    <3>5. Leaves(w)
      BY <2>4, <3>2, <3>3 DEF Leaves
    <3>6. Yields(w, w, "completed")
      BY <2>1, <3>4, <3>5, DropsIs DEF Watched
    <3> QED
      BY <1>0, <1>4, <3>6
  <2>5. CASE ~aborted /\ Drops(World, "returned")
    <3>1. Yields(World, World, "completed")
      BY <1>2, <1>4, <2>1, <2>5, DropsIs
    <3> QED
      BY <1>0, <1>4, <3>1
  <2> QED
    BY <1>4, <2>2, <2>3, <2>4, <2>5 DEF ReachesFence
<1>5. CASE frame = "none" /\ Decided /\ UNCHANGED served
  <2>1. pc = "deciding" /\ HoldsRound
    BY <1>5 DEF Decided, Shape, TurnShape
  <2> DEFINE v == Without(World)
             d == RequestDrive(v)
  <2>2. Good(v) /\ v.reserves = "none" /\ v.cache = cache /\ ~v.idle /\ v.state.attempt = NoAttempt
    BY <1>5, <2>1, WithoutWorld
  <2>3. Good(d) /\ d.reserves = "none" /\ d.cache = cache /\ d.state.attempt = NoAttempt
    BY <2>2, BusyDrive
  <2>4. /\ Good(Rejected) /\ Rejected.reserves = "none" /\ Rejected.state.attempt = NoAttempt
        /\ Rejected.cache = cache \/ (Driven(cache) /\ Stops(cache, Rejected.cache, "blocked"))
    BY <1>5, RejectedGood
  <2>5. Leaves(d) /\ Leaves(Rejected)
    BY <2>1, <2>3, <2>4 DEF Leaves
  <2>6. ASSUME NEW w, Leaves(w), NEW place \in {"unwinding", "throwing"},
               Drops(w, place) \/ (Refuses(w) /\ place = "unwinding")
        PROVE  \E x, u, ending : Yields(x, u, ending)
    <3>1. Yields(w, w, "completed")
      BY <2>1, <2>6, DropsIs DEF Watched
    <3> QED
      BY <3>1
  <2>7. CASE \/ Drops(World, "unwinding") \/ Refuses(World) \/ Drops(d, "throwing")
             \/ Drops(Rejected, "unwinding") \/ Refuses(d)
    <3>1. \E x, u, ending : Yields(x, u, ending)
      BY <1>2, <1>5, <2>5, <2>6, <2>7
    <3> QED
      BY <1>0, <1>5, <3>1
  <2>9. CASE /\ ValidReservation
             /\ pc' = "entering"
             /\ UNCHANGED <<cache, state, frame, batch, aborted, latch, inbox, waiting, excuse,
                            dropped, breaches>>
    <3>1. HoldsRound' = HoldsRound
      BY <2>9 DEF HoldsRound
    <3>2. PassesFence
      BY <1>5, <2>1, <2>9, <3>1 DEF PassesFence
    <3> QED
      BY <1>0, <1>5, <3>2
  <2> QED
    BY <1>5, <2>7, <2>9 DEF Decided
<1>6. CASE frame = "none" /\ Entered
  <2>1. pc = "entering"
    BY <1>6 DEF Entered
  <2>2. CASE Fails /\ UNCHANGED served
    BY <1>0, <1>6, <2>1, <2>2, FailsIs
  <2>3. CASE ~aborted /\ \E entered \in {batch, PromptsOf(batch)} : Enters(entered)
    BY <1>0, <1>6, <2>1, <2>3
  <2>4. CASE ~aborted /\ Drops(World, "returned") /\ UNCHANGED served
    <3>1. Yields(World, World, "completed")
      BY <1>2, <1>6, <2>1, <2>4, DropsIs
    <3> QED
      BY <1>0, <1>6, <2>4, <3>1
  <2> QED
    BY <1>6, <2>2, <2>3, <2>4 DEF Entered
<1>7. CASE frame = "none" /\ Stepped
  <2>1. pc = "stepping"
    BY <1>7 DEF Stepped
  <2>2. CASE Fails /\ UNCHANGED served
    BY <1>0, <1>7, <2>1, <2>2, FailsIs
  <2>3. CASE LaterBoundary
    <3>1. Steps
      BY <2>1, <2>3 DEF LaterBoundary, Steps
    <3> QED
      BY <1>0, <1>7, <3>1
  <2>4. CASE ~aborted /\ UNCHANGED served /\ \E ending : TurnEnds(ending)
    BY <1>0, <1>7, <2>1, <2>4, TurnEndsIs
  <2> QED
    BY <1>7, <2>2, <2>3, <2>4 DEF Stepped
<1>8. CASE frame = "none" /\ Unwinds /\ UNCHANGED served
  <2>1. pc \in {"unwinding", "throwing"}
    BY <1>8 DEF Unwinds
  <2>2. CASE Fails
    BY <1>0, <1>8, <2>1, <2>2, FailsIs
  <2>3. CASE ~aborted /\ Drops(World, "returned")
    <3>1. Yields(World, World, "completed")
      BY <1>2, <1>8, <2>1, <2>3, DropsIs
    <3> QED
      BY <1>0, <1>8, <3>1
  <2> QED
    BY <1>8, <2>2, <2>3 DEF Unwinds
<1>9. CASE frame = "none" /\ AfterTurn /\ UNCHANGED served
  <2>1. pc \in {"returned", "failing", "ended"} /\ pc \notin Watched
    BY <1>9 DEF AfterTurn, Watched
  <2>2. CASE \E ending : TurnEnds(ending)
    BY <1>0, <1>9, <2>1, <2>2, TurnEndsIs
  <2>3. CASE pc = "ended" /\ Opens(World, nextTurn, nextStep) /\ UNCHANGED <<dropped, breaches>>
    <3>1. Reopens
      BY <1>2, <1>9, <2>3 DEF Reopens
    <3> QED
      BY <1>0, <3>1
  <2>4. CASE Drops(World, "exiting")
    <3>1. Yields(World, World, "completed")
      BY <1>2, <1>9, <2>1, <2>4, DropsIs
    <3> QED
      BY <1>0, <1>9, <3>1
  <2> QED
    BY <1>9, <2>2, <2>3, <2>4 DEF AfterTurn
<1>10. CASE frame = "none" /\ Exits /\ UNCHANGED served
  BY <1>0, <1>10, ExitsIs
<1> QED
  BY <1>1, <1>4, <1>5, <1>6, <1>7, <1>8, <1>9, <1>10 DEF AgentRuns

LEMMA PassesShape ==
  ASSUME Shape, PassesFence, UNCHANGED <<fiber, spent, revoked>>
  PROVE  Shape'
<1>1. GoalShape' /\ DriverShape' /\ InboxShape' /\ HistoryShape'
  BY DEF PassesFence, inbox, Shape, GoalShape, DriverShape, InboxShape, HistoryShape
<1>2. TurnShape'
  <2>1. LoneRound(batch)' = LoneRound(batch)
    BY DEF PassesFence, LoneRound
  <2> QED
    BY <2>1 DEF PassesFence, Shape, TurnShape, Watched
<1> QED
  BY <1>1, <1>2 DEF Shape

\* The fold of an admitted round.
LEMMA EntersIs ==
  ASSUME Shape, pc = "entering", NEW entered \in {batch, PromptsOf(batch)}, Enters(entered)
  PROVE  LET admitted == RoundsIn(Elements(entered)) # {} IN
         /\ admitted => entered = batch /\ HoldsRound /\ TheRound \in Rounds /\ TheRound \in Elements(batch)
         /\ PromptsIn(Elements(entered)) = PromptsIn(Elements(batch))
         /\ ~admitted => cache' = cache /\ state' = state
         /\ admitted =>
              /\ \/ /\ Accepts(cache.goal, TheRound) /\ cache.goal \in Goals /\ cache'.goal \in Goals
                    /\ cache'.goal.id = cache.goal.id /\ cache'.goal.revision = cache.goal.revision
                    /\ cache'.goal.phase = cache.goal.phase /\ cache'.goal.rounds = cache.goal.rounds + 1
                    /\ cache'.corrupt = cache.corrupt
                 \/ ~Accepts(cache.goal, TheRound) /\ cache'.goal = cache.goal /\ cache'.corrupt
              /\ cache'.armed = cache.armed /\ cache' \in Caches
              /\ \/ state' = state
                 \/ /\ fiber # "down" /\ state.attempt \in Attempts /\ state.attempt.message = TheRound
                    /\ Like(state.attempt, state'.attempt) /\ state'.attempt.phase = "admitted"
                    /\ state'.attempt.cancelled = state.attempt.cancelled
         /\ state' \in States /\ Counts(state, state') /\ cache' \in Caches
         /\ cache'.armed => cache'.goal.phase = "active"
<1> DEFINE admitted == RoundsIn(Elements(entered)) # {}
<1>1. /\ batch \in Seq(Messages) /\ LoneRound(batch) /\ cache \in Caches /\ state \in States
      /\ state.attempt \in Attempts \cup {NoAttempt} /\ cache.goal \in Goals \cup {NoGoal}
      /\ cache.armed => cache.goal.phase = "active"
  BY DEF Shape, TurnShape, GoalShape, DriverShape, Caches, States
<1>2. PromptsOf(batch) \in Seq(Prompts) /\ Elements(PromptsOf(batch)) = PromptsIn(Elements(batch))
  BY <1>1, PromptsElements
<1>3. admitted => entered = batch
  <2> SUFFICES ASSUME entered = PromptsOf(batch) PROVE RoundsIn(Elements(entered)) = {}
    BY <1>2
  <2> QED
    BY <1>2 DEF RoundsIn, PromptsIn
<1>4. admitted => HoldsRound /\ TheRound \in RoundsIn(Elements(batch))
  BY <1>3 DEF HoldsRound, TheRound
<1>5. admitted => TheRound \in Rounds /\ TheRound \in Elements(batch)
  <2>1. Elements(batch) \subseteq Messages
    BY <1>1, ElementsIn
  <2> QED
    BY <1>4, <2>1, MessageIs DEF RoundsIn, Messages
<1>6. PromptsIn(Elements(entered)) = PromptsIn(Elements(batch))
  BY <1>2 DEF PromptsIn
<1>7. /\ cache' = IF ~admitted THEN cache
                  ELSE IF Accepts(cache.goal, TheRound) THEN [cache EXCEPT !.goal.rounds = TheRound.round]
                  ELSE [cache EXCEPT !.corrupt = TRUE]
      /\ state' = IF admitted /\ fiber # "down" /\ Matches(TheRound, state.attempt)
                  THEN [state EXCEPT !.attempt.phase = "admitted"] ELSE state
  BY DEF Enters
<1> HIDE DEF admitted
<1>8. ASSUME admitted, Accepts(cache.goal, TheRound)
      PROVE  /\ cache.goal \in Goals /\ cache'.goal \in Goals
             /\ cache'.goal.id = cache.goal.id /\ cache'.goal.revision = cache.goal.revision
             /\ cache'.goal.phase = cache.goal.phase /\ cache'.goal.rounds = cache.goal.rounds + 1
             /\ cache'.corrupt = cache.corrupt /\ cache'.armed = cache.armed /\ cache' \in Caches
  <2>1. cache.goal \in Goals /\ TheRound.round = cache.goal.rounds + 1
    BY <1>1, <1>8, GoalIs DEF Accepts
  <2> DEFINE rounds == cache.goal.rounds + 1
             g == [cache.goal EXCEPT !.rounds = rounds]
  <2>2. rounds \in Nat
    BY <2>1 DEF Goals
  <2>3. rounds = cache.goal.rounds + 1
    OBVIOUS
  <2> HIDE DEF rounds
  <2>4. /\ g \in Goals /\ g.id = cache.goal.id /\ g.revision = cache.goal.revision /\ g.phase = cache.goal.phase
        /\ g.rounds = rounds
    BY <2>1, <2>2 DEF Goals
  <2>5. cache' = [cache EXCEPT !.goal = g]
    BY <1>7, <1>8, <2>1, <2>3
  <2> HIDE DEF g
  <2>6. cache' \in Caches /\ cache'.goal = g /\ cache'.armed = cache.armed /\ cache'.corrupt = cache.corrupt
    BY <1>1, <2>4, <2>5 DEF Caches
  <2> QED
    BY <2>1, <2>3, <2>4, <2>6
<1>9. ASSUME admitted, ~Accepts(cache.goal, TheRound)
      PROVE  cache' \in Caches /\ cache'.goal = cache.goal /\ cache'.armed = cache.armed /\ cache'.corrupt
  BY <1>1, <1>7, <1>9 DEF Caches
<1>10. ASSUME admitted, fiber # "down", Matches(TheRound, state.attempt)
       PROVE  /\ state' \in States /\ Counts(state, state') /\ state.attempt \in Attempts
              /\ state.attempt.message = TheRound /\ Like(state.attempt, state'.attempt)
              /\ state'.attempt.phase = "admitted" /\ state'.attempt.cancelled = state.attempt.cancelled
  <2>1. state.attempt \in Attempts /\ state.attempt.message = TheRound
    BY <1>1, <1>10 DEF Matches
  <2> DEFINE a == [state.attempt EXCEPT !.phase = "admitted"]
  <2>2. /\ a \in Attempts /\ a.message = state.attempt.message /\ a.phase = "admitted"
        /\ a.cancelled = state.attempt.cancelled
    BY <2>1 DEF Attempts
  <2>3. state' = [state EXCEPT !.attempt = a]
    BY <1>7, <1>10
  <2> HIDE DEF a
  <2>4. state' \in States /\ state'.attempt = a /\ Counts(state, state')
    BY <1>1, <2>2, <2>3 DEF States, Counts
  <2> QED
    BY <2>1, <2>2, <2>4 DEF Like
<1>11. ~(admitted /\ fiber # "down" /\ Matches(TheRound, state.attempt)) => state' = state
  BY <1>7
<1>12. state' \in States /\ Counts(state, state')
  BY <1>1, <1>10, <1>11 DEF Counts
<1>13. cache' \in Caches /\ (cache'.armed => cache'.goal.phase = "active")
  BY <1>1, <1>7, <1>8, <1>9
<1> QED
  BY <1>3, <1>4, <1>5, <1>6, <1>7, <1>8, <1>9, <1>10, <1>11, <1>12, <1>13 DEF admitted

LEMMA EntersShape ==
  ASSUME Shape, pc = "entering", NEW entered \in {batch, PromptsOf(batch)}, Enters(entered),
         UNCHANGED <<fiber, spent, revoked>>
  PROVE  Shape'
<1>1. state' \in States /\ Counts(state, state') /\ cache' \in Caches /\ (cache'.armed => cache'.goal.phase = "active")
  BY EntersIs
<1>2. /\ fiber = "down" => state' = state
      /\ pc' = "stepping" /\ batch' = <<>> /\ excuse' = "none"
      /\ breaches' = breaches \cup Breach(entered)
      /\ UNCHANGED <<frame, aborted, latch, inbox, dropped>>
  BY DEF Enters
<1>3. frame = "none"
  BY DEF Shape, TurnShape
<1>4. Breach(entered) \subseteq {"stale", "slipped", "unfenced", "overtook", "restarted"}
  BY DEF Breach, Shape, HistoryShape
<1>5. GoalShape' /\ InboxShape' /\ HistoryShape'
  BY <1>1, <1>2, <1>4 DEF Shape, GoalShape, InboxShape, HistoryShape, inbox
<1>6. DriverShape'
  BY <1>1, <1>2 DEF Shape, DriverShape, Counts, Suspends
<1>7. TurnShape'
  <2>1. <<>> \in Seq(Messages) /\ LoneRound(<<>>)
    BY DEF LoneRound
  <2>2. LoneRound(batch)' /\ batch' \in Seq(Messages)
    BY <1>2, <2>1 DEF LoneRound
  <2> QED
    BY <1>2, <1>3, <2>2 DEF Shape, TurnShape, Watched
<1> QED
  BY <1>5, <1>6, <1>7 DEF Shape

LEMMA StepsShape ==
  ASSUME Shape, Steps, UNCHANGED <<fiber, spent, revoked>>
  PROVE  Shape'
<1>1. GoalShape' /\ DriverShape' /\ InboxShape' /\ HistoryShape'
  BY EmptyElements DEF Steps, Shape, GoalShape, DriverShape, InboxShape, HistoryShape
<1>2. TurnShape'
  <2>1. LoneRound(batch)' = LoneRound(batch)
    BY DEF Steps, LoneRound
  <2> QED
    BY <2>1 DEF Steps, Shape, TurnShape, Watched
<1> QED
  BY <1>1, <1>2 DEF Shape

LEMMA AgentShape ==
  ASSUME Shape, AgentRuns
  PROVE  Shape'
<1>0. UNCHANGED <<fiber, spent, revoked>>
  BY DEF AgentRuns
<1>1. nextTurn \in Seq(Messages) /\ nextStep \in Seq(Prompts)
  BY DEF Shape, InboxShape
<1>2. ASSUME NEW w, Good(w), w.reserves = "none", Opens(w, nextTurn, nextStep), UNCHANGED breaches
      PROVE  Shape'
  <2>1. HistoryShape'
    BY <1>0, <1>2 DEF Opens, Shape, HistoryShape
  <2> QED
    BY <1>0, <1>1, <1>2, <2>1, OpensShape
<1>3. CASE Reopens
  BY <1>2, <1>3 DEF Reopens
<1>4. CASE frame = "none" /\ \E w, u, ending : Yields(w, u, ending)
  BY <1>0, <1>4, YieldsShape
<1>5. CASE PassesFence
  BY <1>0, <1>5, PassesShape
<1>6. CASE pc = "entering" /\ \E entered \in {batch, PromptsOf(batch)} : Enters(entered)
  BY <1>0, <1>6, EntersShape
<1>7. CASE Steps
  BY <1>0, <1>7, StepsShape
<1>8. ASSUME NEW v, Settled(v)
      PROVE  Shape'
  <2>1. Good(v)
    BY <1>8 DEF Settled
  <2>2. CASE v.reserves = "none" /\ Opens(v, nextTurn, nextStep) /\ UNCHANGED breaches
    BY <1>2, <2>1, <2>2
  <2>3. CASE Rests(v, nextStep)
    <3>1. Inserts(v, nextTurn) /\ excuse' = "none"
      BY <2>3 DEF Rests
    <3>2. breaches' = breaches \cup (IF v.reserves # "none" /\ revoked THEN {"restarted"} ELSE {})
      BY <2>1, <3>1, InsertsShape
    <3>3. HistoryShape'
      BY <1>0, <3>1, <3>2 DEF Shape, HistoryShape
    <3> QED
      BY <1>0, <1>1, <2>1, <2>3, <3>3, RestsShape
  <2> QED
    BY <1>8, <2>2, <2>3 DEF Settled
<1>9. \/ Reopens
      \/ frame = "none" /\ \E w, u, ending : Yields(w, u, ending)
      \/ PassesFence
      \/ pc = "entering" /\ \E entered \in {batch, PromptsOf(batch)} : Enters(entered)
      \/ Steps
      \/ \E v : Settled(v)
  BY AgentCases
<1> QED
  BY <1>3, <1>4, <1>5, <1>6, <1>7, <1>8, <1>9
-----------------------------------------------------------------------------
(* The driver's loop and its plugin *)

\* d is c, or c disarmed.
Calms(c, d) ==
  \/ d = c
  \/ d.goal = c.goal /\ d.corrupt = c.corrupt /\ ~Driven(d) /\ (d.armed => c.armed) /\ d \in Caches

LEMMA LoopGood ==
  ASSUME fiber # "down", NEW w \in Worlds, w.cache.armed => w.cache.goal.phase = "active",
         w.reserves = "none",
         NEW r \in Worlds, Drives(w, r), Suspends(r.state) \/ r.reserves = "loop"
  PROVE  Good(r)
<1>1. r.cache.armed => r.cache.goal.phase = "active"
  BY DEF Drives, Stops
<1>2. r.reserves # "none" => fiber = "up" /\ r.state.attempt \in Attempts /\ r.state.attempt.phase = "queued"
  <2> SUFFICES ASSUME r.reserves # "none"
               PROVE  fiber = "up" /\ r.state.attempt \in Attempts /\ r.state.attempt.phase = "queued"
    OBVIOUS
  <2>1. fiber = "up" /\ Driven(w.cache) /\ r.state.attempt = Reservation(w.cache.goal)
    BY DEF Drives
  <2>2. w.cache.goal \in Goals
    BY <2>1, WorldIs, DrivenGoal
  <2> QED
    BY <2>1, <2>2, RoundIs
<1> QED
  BY <1>1, <1>2 DEF Good

\* A settled flush or a retired loop makes the driver look at the world at
\* most once, and a failed flush disarms the goal first.
LoopRuns(v, w) ==
  /\ v \in Worlds /\ v.state.attempt = state.attempt /\ v.idle = (pc = "idle") /\ v.reserves = "none"
  /\ \/ v.cache = cache /\ excuse' = excuse
     \/ Calms(cache, v.cache) /\ excuse' = IF Slips THEN "slipped" ELSE excuse
  /\ Drives(v, w) /\ Good(w) /\ Continues(w)

LEMMA FlushedIs ==
  ASSUME Shape, Flushed
  PROVE  /\ fiber # "down" /\ frame = "none"
         /\ spent' \in [prompts : 0 .. MaxPrompts, edits : Nat, mishaps : Nat]
         /\ spent'.prompts = spent.prompts /\ spent'.edits = spent.edits
         /\ \E v, w : LoopRuns(v, w)
<1> DEFINE flushing == state.flushing - 1
           s == [state EXCEPT !.flushing = flushing]
           v == [World EXCEPT !.state = s]
<1>1. /\ frame = "none" /\ state.flushing > 0 /\ fiber # "down"
  BY DEF Flushed, Shape, DriverShape, FreshState
<1>2. state \in States /\ flushing \in Nat
  BY <1>1 DEF Shape, DriverShape, States
<1>3. [World EXCEPT !.state.flushing = @ - 1] = v
  BY DEF World
<1> HIDE DEF flushing
<1>4. s \in States /\ s.attempt = state.attempt
  BY <1>2 DEF States
<1> HIDE DEF s
<1>5. /\ v \in Worlds /\ v.state = s /\ v.cache = cache /\ v.idle = (pc = "idle") /\ v.reserves = "none"
  BY <1>4, WorldGood, WorldWith
<1>6. \/ /\ Continues(IF Ready(v) /\ ~v.state.checkpoint THEN Reserve(v, FALSE) ELSE GoesOn(v))
         /\ UNCHANGED <<spent, excuse>>
      \/ /\ spent' = [spent EXCEPT !.mishaps = @ + 1]
         /\ Continues(GoesOn(Disarmed(v)))
         /\ excuse' = IF Slips THEN "slipped" ELSE excuse
  BY <1>3 DEF Flushed
<1> HIDE DEF v
<1>7. v.cache.armed => v.cache.goal.phase = "active"
  BY <1>5 DEF Shape, GoalShape
<1>8. ASSUME NEW u \in Worlds, u.reserves = "none", u.cache.armed => u.cache.goal.phase = "active"
      PROVE  Drives(u, GoesOn(u)) /\ Good(GoesOn(u))
  <2>1. Same(u, GoesOn(u)) /\ Drives(u, GoesOn(u)) /\ (Suspends(GoesOn(u).state) \/ GoesOn(u).reserves = "loop")
    BY <1>8, GoesOnIs
  <2> QED
    BY <1>1, <1>8, <2>1, LoopGood DEF Same
<1>9. CASE Continues(Reserve(v, FALSE)) /\ Ready(v) /\ UNCHANGED <<spent, excuse>>
  <2>1. fiber = "up" /\ v.idle
    BY <1>9 DEF Ready
  <2>2. /\ Same(v, Reserve(v, FALSE)) /\ Drives(v, Reserve(v, FALSE))
        /\ Suspends(Reserve(v, FALSE).state) \/ Reserve(v, FALSE).reserves = "loop"
    BY <1>5, <2>1, ReserveIs
  <2>3. Good(Reserve(v, FALSE))
    BY <1>1, <1>5, <1>7, <2>2, LoopGood DEF Same
  <2>4. LoopRuns(v, Reserve(v, FALSE))
    BY <1>4, <1>5, <1>9, <2>2, <2>3 DEF LoopRuns
  <2> QED
    BY <1>1, <1>9, <2>4 DEF Shape, HistoryShape
<1>10. CASE Continues(GoesOn(v)) /\ UNCHANGED <<spent, excuse>>
  <2>1. LoopRuns(v, GoesOn(v))
    BY <1>4, <1>5, <1>7, <1>8, <1>10 DEF LoopRuns
  <2> QED
    BY <1>1, <1>10, <2>1 DEF Shape, HistoryShape
<1>11. CASE /\ spent' = [spent EXCEPT !.mishaps = @ + 1]
            /\ Continues(GoesOn(Disarmed(v)))
            /\ excuse' = IF Slips THEN "slipped" ELSE excuse
  <2> DEFINE u == Disarmed(v)
  <2>1. /\ u \in Worlds /\ u.state = v.state /\ u.idle = v.idle /\ u.reserves = "none"
        /\ u.cache.goal = v.cache.goal /\ u.cache.corrupt = v.cache.corrupt
        /\ ~Driven(u.cache) /\ (u.cache.armed => v.cache.armed)
    BY <1>5, DisarmedIs
  <2>2. Continues(GoesOn(u))
    BY <1>11
  <2> HIDE DEF u
  <2>3. Calms(cache, u.cache)
    BY <1>5, <2>1, WorldIs DEF Calms
  <2>4. LoopRuns(u, GoesOn(u))
    BY <1>4, <1>5, <1>7, <1>8, <1>11, <2>1, <2>2, <2>3 DEF LoopRuns
  <2>5. /\ spent' \in [prompts : 0 .. MaxPrompts, edits : Nat, mishaps : Nat]
        /\ spent'.prompts = spent.prompts /\ spent'.edits = spent.edits
    BY <1>11 DEF Shape, HistoryShape
  <2> QED
    BY <1>1, <2>4, <2>5
<1> QED
  BY <1>6, <1>9, <1>10, <1>11

LEMMA RetireIs ==
  ASSUME Shape, Retire
  PROVE  /\ fiber # "down" /\ frame = "none" /\ spent' = spent
         /\ \E v, w : LoopRuns(v, w)
<1> DEFINE retiring == state.retiring - 1
           s == [state EXCEPT !.retiring = retiring, !.run = FALSE]
           v == [World EXCEPT !.state = s]
<1>1. /\ frame = "none" /\ state.retiring > 0 /\ fiber # "down" /\ UNCHANGED <<spent, excuse>>
  BY DEF Retire, Shape, DriverShape, FreshState
<1>2. state \in States /\ retiring \in Nat
  BY <1>1 DEF Shape, DriverShape, States
<1>3. [World EXCEPT !.state.retiring = @ - 1, !.state.run = FALSE] = v
  BY DEF World
<1> HIDE DEF retiring
<1>4. s \in States /\ s.attempt = state.attempt /\ ~s.run
  BY <1>2 DEF States
<1> HIDE DEF s
<1>5. /\ v \in Worlds /\ v.state = s /\ v.cache = cache /\ v.idle = (pc = "idle") /\ v.reserves = "none"
  BY <1>4, WorldGood, WorldWith
<1>6. Continues(IF state.requested THEN RequestDrive(v) ELSE v)
  BY <1>3 DEF Retire
<1> HIDE DEF v
<1>7. Good(v)
  BY <1>1, <1>4, <1>5 DEF Good, Shape, GoalShape
<1>8. Drives(v, RequestDrive(v)) /\ Good(RequestDrive(v))
  <2>1. Same(v, RequestDrive(v)) /\ Drives(v, RequestDrive(v)) /\ Runs(v, RequestDrive(v))
    BY <1>5, RequestDriveIs
  <2> QED
    BY <1>1, <1>5, <1>7, <2>1, DrivesGood DEF Same
<1>9. Drives(v, v)
  BY <1>5 DEF Drives
<1>10. PICK w \in {v, RequestDrive(v)} : Continues(w)
  BY <1>6
<1>11. LoopRuns(v, w)
  BY <1>1, <1>4, <1>5, <1>7, <1>8, <1>9, <1>10 DEF LoopRuns
<1> QED
  BY <1>1, <1>11

LEMMA LoopShape ==
  ASSUME Shape, frame = "none", spent' \in [prompts : 0 .. MaxPrompts, edits : Nat, mishaps : Nat],
         NEW v, NEW w, LoopRuns(v, w)
  PROVE  Shape'
<1>1. Good(w) /\ Continues(w) /\ (w.reserves # "none" => pc = "idle")
  BY DEF LoopRuns, Drives
<1>2. Inserts(w, nextTurn) /\ UNCHANGED revoked
  BY <1>1 DEF Continues
<1>3. breaches' = breaches \cup (IF w.reserves # "none" /\ revoked THEN {"restarted"} ELSE {})
  BY <1>1, <1>2, InsertsShape
<1>4. excuse' \in {"none", "slipped", "unfenced"} /\ (excuse' # "none" => pc = "entering" /\ HoldsRound)
  BY DEF LoopRuns, Slips, HoldsRound, Shape, HistoryShape, TurnShape
<1>5. HistoryShape'
  BY <1>2, <1>3, <1>4 DEF Shape, HistoryShape
<1> QED
  BY <1>1, <1>4, <1>5, ContinuesShape

LEMMA UnloadIs ==
  ASSUME Shape, Unload
  PROVE  LET gone == Elements(nextTurn) \cup Elements(nextStep) IN
         /\ fiber = "up" /\ frame = "none" /\ fiber' \in {"closing", "draining"}
         /\ Calms(cache, cache') /\ ~Driven(cache') /\ cache' \in Caches
         /\ state' \in States /\ Counts(state, state') /\ Like(state.attempt, state'.attempt)
         /\ state'.attempt.phase = state.attempt.phase
         /\ state.attempt # NoAttempt => state'.attempt.stale
         /\ spent' \in [prompts : 0 .. MaxPrompts, edits : Nat, mishaps : Nat]
         /\ spent'.prompts = spent.prompts /\ spent'.edits = spent.edits
         /\ \/ /\ pc # "idle" /\ nextTurn' = <<>> /\ nextStep' = <<>>
               /\ dropped' = dropped \cup PromptsIn(gone) /\ aborted' = TRUE /\ latch' = FALSE
            \/ UNCHANGED <<inbox, dropped, aborted, latch>>
         /\ excuse' = IF Slips THEN "slipped" ELSE excuse
         /\ UNCHANGED <<pc, frame, batch, waiting, revoked, served, breaches>>
<1> DEFINE w == Disarmed(World)
           gone == Elements(nextTurn) \cup Elements(nextStep)
           stale == IF state.attempt # NoAttempt THEN [w.state EXCEPT !.attempt.stale = TRUE] ELSE w.state
<1>1. /\ World \in Worlds /\ World.cache = cache /\ World.state = state
      /\ state \in States /\ state.attempt \in Attempts \cup {NoAttempt}
  BY WorldGood DEF Shape, DriverShape, States
<1>2. /\ w \in Worlds /\ w.state = state /\ w.cache.goal = cache.goal /\ w.cache.corrupt = cache.corrupt
      /\ ~Driven(w.cache) /\ (w.cache.armed => cache.armed)
  BY <1>1, DisarmedIs
<1>3. /\ fiber = "up" /\ frame = "none" /\ cache' = w.cache
      /\ spent' = [spent EXCEPT !.mishaps = @ + 1]
      /\ \/ /\ state.attempt # NoAttempt /\ pc # "idle" /\ state' = Discarded(stale, gone) /\ fiber' = "draining"
            /\ nextTurn' = <<>> /\ nextStep' = <<>> /\ dropped' = dropped \cup PromptsIn(gone)
            /\ aborted' = TRUE /\ latch' = FALSE
         \/ state' = stale /\ fiber' = "closing" /\ UNCHANGED <<inbox, dropped, aborted, latch>>
      /\ excuse' = IF Slips THEN "slipped" ELSE excuse
      /\ UNCHANGED <<pc, frame, batch, waiting, revoked, served, breaches>>
  BY DEF Unload
<1> HIDE DEF w
<1>4. /\ stale \in States /\ Counts(state, stale) /\ Like(state.attempt, stale.attempt)
      /\ stale.attempt.phase = state.attempt.phase
      /\ state.attempt # NoAttempt => stale.attempt.stale
  <2>1. CASE state.attempt = NoAttempt
    BY <1>1, <1>2, <2>1 DEF Counts, Like
  <2>2. CASE state.attempt # NoAttempt
    <3> DEFINE a == [state.attempt EXCEPT !.stale = TRUE]
    <3>1. a \in Attempts /\ a.message = state.attempt.message /\ a.phase = state.attempt.phase /\ a.stale
      BY <1>1, <2>2 DEF Attempts
    <3>2. stale = [state EXCEPT !.attempt = a]
      BY <1>2, <2>2
    <3> HIDE DEF a, stale
    <3>3. stale \in States /\ stale.attempt = a /\ Counts(state, stale)
      BY <1>1, <3>1, <3>2 DEF States, Counts
    <3> QED
      BY <1>1, <2>2, <3>1, <3>3 DEF Like
  <2> QED
    BY <2>1, <2>2
<1> HIDE DEF stale
<1>5. /\ state' \in States /\ Counts(state, state') /\ Like(state.attempt, state'.attempt)
      /\ state'.attempt.phase = state.attempt.phase
      /\ state.attempt # NoAttempt => state'.attempt.stale
  <2>1. CASE state' = stale
    BY <1>4, <2>1
  <2>2. CASE state' = Discarded(stale, gone)
    <3>1. /\ state' \in States /\ Counts(stale, state') /\ Like(stale.attempt, state'.attempt)
          /\ state'.attempt.phase = stale.attempt.phase
          /\ stale.attempt # NoAttempt => state'.attempt.stale = stale.attempt.stale
      BY <1>4, <2>2, DiscardedIs
    <3>2. state.attempt # NoAttempt => stale.attempt # NoAttempt
      BY <1>1, <1>4, AttemptIs DEF Like
    <3> QED
      BY <1>4, <3>1, <3>2 DEF Counts, Like
  <2> QED
    BY <1>3, <2>1, <2>2
<1>6. Calms(cache, cache') /\ ~Driven(cache') /\ cache' \in Caches
  BY <1>2, <1>3, WorldIs DEF Calms
<1>7. /\ spent' \in [prompts : 0 .. MaxPrompts, edits : Nat, mishaps : Nat]
      /\ spent'.prompts = spent.prompts /\ spent'.edits = spent.edits
  BY <1>3 DEF Shape, HistoryShape
<1> QED
  BY <1>3, <1>5, <1>6, <1>7

LEMMA UnloadShape ==
  ASSUME Shape, Unload
  PROVE  Shape'
<1>1. GoalShape' /\ InboxShape'
  BY UnloadIs, EmptyElements DEF Calms, Shape, GoalShape, InboxShape, inbox
<1>2. DriverShape'
  BY UnloadIs DEF Shape, DriverShape, Counts, Suspends
<1>3. HistoryShape'
  BY UnloadIs DEF Shape, HistoryShape, Slips
<1>4. TurnShape'
  <2>1. /\ frame = "none"
        /\ \/ pc # "idle" /\ aborted' = TRUE /\ latch' = FALSE
           \/ aborted' = aborted /\ latch' = latch
        /\ excuse' = IF Slips THEN "slipped" ELSE excuse
        /\ UNCHANGED <<pc, frame, batch>>
    BY UnloadIs
  <2>2. HoldsRound' = HoldsRound /\ LoneRound(batch)' = LoneRound(batch)
    BY <2>1 DEF HoldsRound, LoneRound
  <2>3. aborted' \in BOOLEAN /\ latch' \in BOOLEAN /\ (pc = "idle" => ~aborted' /\ ~latch')
    <3>1. aborted \in BOOLEAN /\ latch \in BOOLEAN /\ (pc = "idle" => ~aborted /\ ~latch)
      BY DEF Shape, TurnShape
    <3>2. CASE pc # "idle" /\ aborted' = TRUE /\ latch' = FALSE
      BY <3>2
    <3>3. CASE aborted' = aborted /\ latch' = latch
      BY <3>1, <3>3
    <3> QED
      BY <2>1, <3>2, <3>3
  <2>4. excuse' # "none" => pc = "entering" /\ HoldsRound
    BY <2>1 DEF Shape, TurnShape, Slips, HoldsRound
  <2> QED
    BY <2>1, <2>2, <2>3, <2>4 DEF Shape, TurnShape
<1> QED
  BY <1>1, <1>2, <1>3, <1>4 DEF Shape

LEMMA UnloadedShape ==
  ASSUME Shape, Unloaded
  PROVE  Shape'
<1>1. /\ fiber \in {"closing", "draining"} /\ fiber' = "down" /\ state' = FreshState
      /\ UNCHANGED <<cache, turn, inbox, spent, history>>
  BY DEF Unloaded
<1>2. FreshState \in States /\ ~FreshState.run
  BY DEF FreshState, States
<1>3. GoalShape' /\ InboxShape' /\ HistoryShape' /\ DriverShape'
  BY <1>1, <1>2 DEF Shape, GoalShape, InboxShape, HistoryShape, DriverShape, inbox, history
<1>4. TurnShape'
  <2>1. HoldsRound' = HoldsRound /\ LoneRound(batch)' = LoneRound(batch)
    BY <1>1 DEF turn, HoldsRound, LoneRound
  <2> QED
    BY <1>1, <2>1 DEF Shape, TurnShape, turn, history
<1> QED
  BY <1>3, <1>4 DEF Shape

LEMMA LoadIs ==
  ASSUME Shape, Load
  PROVE  /\ fiber = "down" /\ fiber' = "up" /\ frame = "none" /\ state.attempt = NoAttempt
         /\ Calms(cache, cache') /\ ~Driven(cache') /\ cache' \in Caches
         /\ excuse' = IF Slips THEN "slipped" ELSE excuse
         /\ UNCHANGED <<state, turn, inbox, spent, waiting, revoked, served, dropped, breaches>>
<1> DEFINE w == Disarmed(World)
<1>1. World \in Worlds /\ World.cache = cache
  BY WorldGood
<1>2. /\ w \in Worlds /\ w.cache.goal = cache.goal /\ w.cache.corrupt = cache.corrupt
      /\ ~Driven(w.cache) /\ (w.cache.armed => cache.armed)
  BY <1>1, DisarmedIs
<1>3. /\ fiber = "down" /\ fiber' = "up" /\ cache' = w.cache
      /\ excuse' = IF Slips THEN "slipped" ELSE excuse
      /\ UNCHANGED <<state, turn, inbox, spent, waiting, revoked, served, dropped, breaches>>
  BY DEF Load
<1> HIDE DEF w
<1>4. frame = "none" /\ state.attempt = NoAttempt
  BY <1>3 DEF Shape, TurnShape, DriverShape, FreshState
<1>5. Calms(cache, cache') /\ ~Driven(cache') /\ cache' \in Caches
  BY <1>2, <1>3, WorldIs DEF Calms
<1> QED
  BY <1>3, <1>4, <1>5

LEMMA LoadShape ==
  ASSUME Shape, Load
  PROVE  Shape'
<1>1. GoalShape' /\ InboxShape' /\ HistoryShape' /\ DriverShape'
  BY LoadIs DEF Calms, Shape, GoalShape, InboxShape, HistoryShape, DriverShape, inbox, turn, Slips
<1>2. TurnShape'
  <2>1. /\ frame = "none" /\ UNCHANGED <<pc, frame, batch, aborted, latch>>
        /\ excuse' = IF Slips THEN "slipped" ELSE excuse
    BY LoadIs DEF turn
  <2>2. HoldsRound' = HoldsRound /\ LoneRound(batch)' = LoneRound(batch)
    BY <2>1 DEF HoldsRound, LoneRound
  <2> QED
    BY <2>1, <2>2 DEF Shape, TurnShape, Slips, HoldsRound
<1> QED
  BY <1>1, <1>2 DEF Shape

LEMMA ShapeInit ==
  ASSUME Init
  PROVE  Shape
<1>1. PICK cap \in Caps : \E goal \in {NoGoal, GoalOf(1, 1, "active", cap, 0)} :
           /\ cache = [goal |-> goal, armed |-> FALSE, corrupt |-> FALSE]
           /\ nextTurn \in IF goal = NoGoal THEN {<<>>} ELSE {<<>>, <<RoundOf(goal)>>}
  BY DEF Init
<1>2. PICK goal \in {NoGoal, GoalOf(1, 1, "active", cap, 0)} :
           /\ cache = [goal |-> goal, armed |-> FALSE, corrupt |-> FALSE]
           /\ nextTurn \in IF goal = NoGoal THEN {<<>>} ELSE {<<>>, <<RoundOf(goal)>>}
  BY <1>1
<1>3. goal \in Goals \cup {NoGoal}
  BY DEF GoalOf, Goals, Phases
<1>4. GoalShape
  BY <1>2, <1>3 DEF GoalShape, Caches
<1>5. InboxShape
  <2>1. goal # NoGoal => RoundOf(goal) \in Messages
    BY <1>3, RoundIs DEF Messages
  <2>2. <<>> \in Seq(Messages) /\ \A m \in Messages : <<m>> \in Seq(Messages)
    OBVIOUS
  <2>3. nextStep \in Seq(Prompts)
    BY DEF Init
  <2> QED
    BY <1>2, <2>1, <2>2, <2>3 DEF InboxShape
<1>6. DriverShape
  BY DEF Init, DriverShape, FreshState, States
<1>7. TurnShape
  <2>1. <<>> \in Seq(Messages) /\ LoneRound(<<>>)
    BY DEF LoneRound
  <2>2. LoneRound(batch) = LoneRound(<<>>) /\ batch \in Seq(Messages)
    BY <2>1 DEF Init, LoneRound
  <2> QED
    BY <2>1, <2>2 DEF Init, TurnShape
<1>8. HistoryShape
  <2>1. /\ spent = [prompts |-> 0, edits |-> 0, mishaps |-> 0]
        /\ excuse = "none" /\ revoked = FALSE /\ breaches = {}
    BY DEF Init
  <2>2. 0 \in 0 .. MaxPrompts
    BY BoundsAssumption
  <2> QED
    BY <2>1, <2>2 DEF HistoryShape
<1> QED
  BY <1>4, <1>5, <1>6, <1>7, <1>8 DEF Shape

LEMMA ShapeNext ==
  ASSUME Shape, [Next]_vars
  PROVE  Shape'
<1>1. CASE Mutate
  BY <1>1, MutateShape
<1>2. CASE \E queue \in {"next-turn", "next-step"}, wakeup \in BOOLEAN : Send(queue, wakeup)
  BY <1>2, SendShape
<1>3. CASE \E keepInbox \in BOOLEAN : Cancel(keepInbox)
  BY <1>3, CancelShape
<1>4. CASE AgentRuns
  BY <1>4, AgentShape
<1>5. CASE Flushed
  BY <1>5, FlushedIs, LoopShape
<1>6. CASE Retire
  BY <1>6, RetireIs, LoopShape DEF Shape, HistoryShape
<1>7. CASE Unload \/ Unloaded \/ Load
  BY <1>7, UnloadShape, UnloadedShape, LoadShape
<1>8. CASE UNCHANGED vars
  <2>1. HoldsRound' = HoldsRound /\ LoneRound(batch)' = LoneRound(batch)
    BY <1>8 DEF vars, turn, HoldsRound, LoneRound
  <2> QED
    BY <1>8, <2>1 DEF vars, turn, inbox, history, Shape, GoalShape, DriverShape, TurnShape, InboxShape, HistoryShape
<1> QED
  BY <1>1, <1>2, <1>3, <1>4, <1>5, <1>6, <1>7, <1>8 DEF Next

LEMMA ShapeTypes ==
  ASSUME Shape
  PROVE  TypeOK
<1>1. /\ cache \in Caches /\ cache.goal \in Goals \cup {NoGoal} /\ state \in States
      /\ state.attempt \in Attempts \cup {NoAttempt}
      /\ batch \in Seq(Messages) /\ LoneRound(batch) /\ nextTurn \in Seq(Messages)
  BY DEF Shape, GoalShape, DriverShape, TurnShape, InboxShape, Caches, States
<1>2. cache.goal = NoGoal \/
        (cache.goal.phase \in Phases /\ cache.goal.revision \in Nat \ {0}
          /\ cache.goal.cap \in Caps /\ cache.goal.rounds \in Nat)
  BY <1>1 DEF Goals
<1>3. state.attempt.phase \in {"none", "queued", "claimed", "admitted"}
  BY <1>1, AttemptIs DEF Attempts
<1>4. Cardinality(RoundsIn(Elements(batch))) <= 1
  <2>1. CASE RoundsIn(Elements(batch)) = {}
    BY <2>1, FS_EmptySet
  <2>2. CASE RoundsIn(Elements(batch)) # {}
    <3>1. PICK m : RoundsIn(Elements(batch)) = {m}
      BY <1>1, <2>2, TheRoundIs
    <3> QED
      BY <3>1, FS_Singleton
  <2> QED
    BY <2>1, <2>2
<1>5. nextTurn \in Seq(Prompts \cup RoundsIn(Elements(nextTurn)))
  <2>1. /\ Len(nextTurn) \in Nat /\ DOMAIN nextTurn = 1 .. Len(nextTurn)
        /\ \A i \in DOMAIN nextTurn : nextTurn[i] \in Messages
    BY <1>1, ElementsIn DEF Elements
  <2>2. \A i \in 1 .. Len(nextTurn) : nextTurn[i] \in Prompts \cup RoundsIn(Elements(nextTurn))
    BY <2>1, MessageIs DEF Messages, RoundsIn, Elements
  <2> QED
    BY <1>1, <2>1, <2>2, SubSeqProperties, SubSeqFull
<1>6. cache.corrupt \in BOOLEAN /\ cache.armed \in BOOLEAN /\ (cache.armed => cache.goal.phase = "active")
  BY <1>1 DEF Shape, GoalShape, Caches
<1>7. /\ state.competing \in BOOLEAN /\ state.checkpoint \in BOOLEAN /\ state.requested \in BOOLEAN
      /\ state.flushing \in Nat /\ state.retiring \in Nat
  BY <1>1 DEF States
<1>8. /\ state.run => state.flushing + state.retiring > 0 \/ frame = "loop"
      /\ fiber \in {"up", "closing", "draining", "down"}
  BY DEF Shape, DriverShape, Suspends
<1>9. /\ pc \in Watched \cup {"idle", "returned", "failing", "ended", "exiting"}
      /\ frame \in {"none", "fresh", "loop"}
      /\ pc \notin {"claimed", "deciding", "entering"} => batch = <<>>
      /\ pc = "idle" => ~aborted /\ ~latch
      /\ frame # "none" => pc = "idle" /\ state.attempt.phase = "queued"
  BY DEF Shape, TurnShape
<1>10. nextStep \in Seq(Prompts)
  BY DEF Shape, InboxShape
<1> QED
  BY <1>2, <1>3, <1>4, <1>5, <1>6, <1>7, <1>8, <1>9, <1>10 DEF TypeOK

\* The types hold in every reachable state: an armed goal is active, a held run
\* has its loop, nothing of a turn is left at idle, and a batch holds one round
\* at most (src/packages/goal/goal-round-driver/src/index.ts).
THEOREM TypeCorrect == Spec => []TypeOK
<1>1. Init => Shape
  BY ShapeInit
<1>2. Shape /\ [Next]_vars => Shape'
  BY ShapeNext
<1>3. Shape => TypeOK
  BY ShapeTypes
<1> QED
  BY <1>1, <1>2, <1>3, PTL DEF Spec
-----------------------------------------------------------------------------
(* Lists that hold nothing twice *)

LEMMA AppendOnce ==
  ASSUME NEW s \in Seq(Messages), NEW m \in Messages, NEW kind, Once(kind, s),
         m.kind = kind => m \notin Elements(s)
  PROVE  Once(kind, Append(s, m))
<1> DEFINE t == Append(s, m)
<1>1. /\ Len(t) = Len(s) + 1 /\ t[Len(s) + 1] = m /\ Len(s) \in Nat
      /\ \A i \in 1 .. Len(s) : t[i] = s[i]
      /\ DOMAIN s = 1 .. Len(s) /\ DOMAIN t = 1 .. Len(t)
  BY AppendProperties, LenProperties
<1> HIDE DEF t
<1>2. SUFFICES ASSUME NEW i \in DOMAIN t, NEW j \in DOMAIN t, t[i].kind = kind, t[i] = t[j]
               PROVE  i = j
  BY DEF Once, t
<1>3. ASSUME NEW k \in DOMAIN t, t[k] = m, m.kind = kind PROVE k = Len(s) + 1
  <2> SUFFICES ASSUME k \in DOMAIN s PROVE FALSE
    BY <1>1
  <2>1. s[k] = m
    BY <1>1, <1>3
  <2> QED
    BY <1>3, <2>1 DEF Elements
<1>4. CASE t[i] = m
  BY <1>2, <1>3, <1>4
<1>5. CASE t[i] # m
  <2>1. i \in DOMAIN s /\ j \in DOMAIN s /\ s[i] = s[j] /\ s[i].kind = kind
    BY <1>1, <1>2, <1>5
  <2> QED
    BY <2>1 DEF Once
<1> QED
  BY <1>4, <1>5

LEMMA TailOnce ==
  ASSUME NEW s \in Seq(Messages), s # <<>>, NEW kind, Once(kind, s)
  PROVE  /\ Once(kind, Tail(s))
         /\ Head(s).kind = kind => Head(s) \notin Elements(Tail(s))
<1>1. /\ Len(Tail(s)) = Len(s) - 1 /\ Len(s) \in Nat \ {0} /\ Head(s) = s[1]
      /\ DOMAIN s = 1 .. Len(s) /\ DOMAIN Tail(s) = 1 .. Len(Tail(s))
      /\ \A i \in 1 .. Len(Tail(s)) : Tail(s)[i] = s[i + 1]
  BY TailElements
<1> DEFINE t == Tail(s)
<1> HIDE DEF t
<1>2. \A i \in DOMAIN t : i + 1 \in DOMAIN s /\ t[i] = s[i + 1] /\ i \in Nat \ {0}
  BY <1>1 DEF t
<1>3. Once(kind, t)
  <2> SUFFICES ASSUME NEW i \in DOMAIN t, NEW j \in DOMAIN t, t[i].kind = kind, t[i] = t[j]
               PROVE  i = j
    BY DEF Once
  <2>1. i + 1 = j + 1
    BY <1>2 DEF Once
  <2> QED
    BY <1>2, <2>1
<1>4. ASSUME Head(s).kind = kind, NEW i \in DOMAIN t, t[i] = Head(s) PROVE FALSE
  <2>1. 1 \in DOMAIN s /\ s[1].kind = kind /\ s[1] = s[i + 1]
    BY <1>1, <1>2, <1>4
  <2>2. 1 = i + 1
    BY <1>2, <2>1 DEF Once
  <2> QED
    BY <1>2, <2>2
<1> QED
  BY <1>3, <1>4 DEF t, Elements

LEMMA EmptyOnce == \A kind : Once(kind, <<>>)
BY DEF Once
-----------------------------------------------------------------------------
(* How the rounds and the attempt stand to a goal that moves *)

\* What the lemmas below have in common.
Related(c, attempt, messages, edits) ==
  /\ c \in Caches /\ attempt \in Attempts \cup {NoAttempt} /\ edits \in Nat
  /\ RoundsIn(messages) \subseteq Rounds
  /\ Relates(c, attempt, messages, edits)

LEMMA GoalOfCache ==
  ASSUME NEW c \in Caches
  PROVE  /\ c.goal \in Goals \cup {NoGoal}
         /\ c.goal \in Goals => /\ c.goal.id \in Nat /\ c.goal.revision \in Nat /\ c.goal.rounds \in Nat
                                /\ c.goal.cap \in Nat /\ c.goal # NoGoal
BY GoalIs, BoundsAssumption DEF Caches, Goals

LEMMA RoundNumbers ==
  ASSUME NEW m \in Rounds
  PROVE  m.id \in Nat /\ m.revision \in Nat /\ m.round \in Nat /\ m.kind = "round"
BY DEF Rounds

\* A past round is not the next one of a goal that has moved on.
LEMMA PastMoves ==
  ASSUME NEW c \in Caches, NEW d \in Caches, NEW edits \in Nat, NEW m \in Rounds,
         Past(m, c, edits), d.goal \in Goals,
         \/ /\ c.goal.phase \in {"none", "complete"} /\ d.goal.id = 1 + edits
         \/ /\ c.goal \in Goals /\ d.goal.id = c.goal.id
            /\ d.goal.revision = c.goal.revision + 1 /\ d.goal.rounds = c.goal.rounds
         \/ /\ c.goal \in Goals /\ d.goal.id = c.goal.id
            /\ d.goal.revision = c.goal.revision /\ d.goal.rounds = c.goal.rounds + 1
  PROVE  Behind(m, d) /\ m # RoundOf(d.goal)
<1>1. RoundOf(d.goal).id = d.goal.id /\ RoundOf(d.goal).revision = d.goal.revision
      /\ RoundOf(d.goal).round = d.goal.rounds + 1
  BY RoundIs
<1>2. m.id \in Nat /\ m.revision \in Nat /\ m.round \in Nat
  BY RoundNumbers
<1>3. d.goal.id \in Nat /\ d.goal.revision \in Nat /\ d.goal.rounds \in Nat
  BY GoalOfCache
<1>4. CASE c.goal.phase \in {"none", "complete"} /\ d.goal.id = 1 + edits
  <2>1. m.id <= edits
    BY <1>4 DEF Past, Minted
  <2> QED
    BY <1>1, <1>2, <1>3, <1>4, <2>1 DEF Behind
<1>5. CASE /\ c.goal \in Goals /\ d.goal.id = c.goal.id
           /\ d.goal.revision = c.goal.revision + 1 /\ d.goal.rounds = c.goal.rounds
  <2>1. m.id = d.goal.id => m.revision <= c.goal.revision
    BY <1>5, GoalOfCache DEF Past, Behind
  <2>2. c.goal.revision \in Nat
    BY <1>5, GoalOfCache
  <2> QED
    BY <1>1, <1>2, <1>3, <1>5, <2>1, <2>2 DEF Behind
<1>6. CASE /\ c.goal \in Goals /\ d.goal.id = c.goal.id
           /\ d.goal.revision = c.goal.revision /\ d.goal.rounds = c.goal.rounds + 1
  <2>1. m.id = d.goal.id => m.revision <= c.goal.revision /\ (m.revision = c.goal.revision => m.round <= c.goal.rounds + 1)
    BY <1>6, GoalOfCache DEF Past, Behind
  <2>2. c.goal.revision \in Nat /\ c.goal.rounds \in Nat
    BY <1>6, GoalOfCache
  <2> QED
    BY <1>1, <1>2, <1>3, <1>6, <2>1, <2>2 DEF Behind
<1> QED
  BY <1>4, <1>5, <1>6

\* With every round in the past and no driven goal whose next round is about,
\* the rounds relate.
LEMMA RelatesMoved ==
  ASSUME NEW d \in Caches, NEW attempt \in Attempts \cup {NoAttempt}, NEW messages, NEW edits \in Nat,
         \A m \in RoundsIn(messages) : Past(m, d, edits) /\ m # RoundOf(d.goal),
         attempt # NoAttempt => Past(attempt.message, d, edits) /\ attempt.message # RoundOf(d.goal),
         d.goal # NoGoal => Minted(d.goal.id, d, edits)
  PROVE  Relates(d, attempt, messages, edits) /\ ~Live(d, attempt)
<1>1. ~Live(d, attempt)
  BY DEF Live
<1>2. Driven(d) => RoundOf(d.goal) \notin messages
  <2> SUFFICES ASSUME Driven(d), RoundOf(d.goal) \in messages PROVE FALSE
    OBVIOUS
  <2>1. RoundOf(d.goal).kind = "round"
    BY DrivenGoal, RoundIs, MessageIs
  <2> QED
    BY <2>1 DEF RoundsIn
<1> QED
  BY <1>1, <1>2 DEF Relates

LEMMA RenewsRelates ==
  ASSUME NEW c, NEW d, NEW attempt, NEW messages, NEW edits, Related(c, attempt, messages, edits),
         Renews(c, d, edits)
  PROVE  Relates(d, attempt, messages, edits + 1) /\ ~Live(d, attempt)
<1>1. /\ c \in Caches /\ d \in Caches /\ edits \in Nat /\ attempt \in Attempts \cup {NoAttempt}
      /\ RoundsIn(messages) \subseteq Rounds /\ Relates(c, attempt, messages, edits)
  BY DEF Related, Renews
<1>2. CASE d.goal = NoGoal
  <2>1. ~Driven(d)
    BY <1>2, GoalIs DEF Driven
  <2>2. ASSUME NEW m \in Rounds, Past(m, c, edits) PROVE Past(m, d, edits + 1)
    <3>1. m.id \in Nat
      BY RoundNumbers
    <3>2. m.id <= edits + 1
      BY <1>1, <2>2, <3>1 DEF Past, Minted
    <3> QED
      BY <1>2, <3>2 DEF Past, Behind, Minted
  <2>3. attempt # NoAttempt => attempt.message \in Rounds
    BY <1>1, AttemptIs
  <2> QED
    BY <1>1, <1>2, <2>1, <2>2, <2>3 DEF Relates, Live
<1>3. CASE d.goal \in Goals
  <2>1. \/ /\ c.goal.phase \in {"none", "complete"} /\ d.goal.id = 1 + edits
        \/ /\ c.goal \in Goals /\ d.goal.id = c.goal.id
           /\ d.goal.revision = c.goal.revision + 1 /\ d.goal.rounds = c.goal.rounds
    BY <1>3, GoalIs DEF Renews
  <2>2. ASSUME NEW m \in Rounds, Past(m, c, edits) PROVE Past(m, d, edits + 1) /\ m # RoundOf(d.goal)
    <3>1. m.id \in Nat
      BY RoundNumbers
    <3>2. m.id <= edits + 1
      BY <1>1, <2>2, <3>1 DEF Past, Minted
    <3>3. Behind(m, d) /\ m # RoundOf(d.goal)
      BY <1>1, <1>3, <2>1, <2>2, PastMoves
    <3> QED
      BY <3>2, <3>3 DEF Past, Minted
  <2>3. Minted(d.goal.id, d, edits + 1)
    <3>1. CASE d.goal.id = 1 + edits
      BY <1>1, <3>1 DEF Minted
    <3>2. CASE c.goal \in Goals /\ d.goal.id = c.goal.id
      <4>1. Minted(c.goal.id, c, edits) /\ c.goal.id \in Nat
        BY <1>1, <3>2, GoalOfCache DEF Relates
      <4> QED
        BY <1>1, <3>2, <4>1 DEF Minted
    <3> QED
      BY <2>1, <3>1, <3>2
  <2>4. attempt # NoAttempt => attempt.message \in Rounds
    BY <1>1, AttemptIs
  <2>5. /\ \A m \in RoundsIn(messages) : Past(m, c, edits) /\ m \in Rounds
        /\ attempt # NoAttempt => Past(attempt.message, c, edits)
    BY <1>1 DEF Relates
  <2>6. edits + 1 \in Nat
    BY <1>1
  <2> QED
    BY <1>1, <2>2, <2>3, <2>4, <2>5, <2>6, RelatesMoved
<1> QED
  BY <1>1, <1>2, <1>3, GoalOfCache

\* A goal the driver stops has no round left that is next.
LEMMA StopsRelates ==
  ASSUME NEW c, NEW d \in Caches, NEW attempt, NEW messages, NEW edits, Related(c, attempt, messages, edits),
         NEW phase \in {"paused", "blocked"}, Stops(c, d, phase)
  PROVE  /\ Relates(d, attempt, messages, edits) /\ Relates(d, NoAttempt, messages, edits)
         /\ ~Driven(d)
<1>1. /\ c \in Caches /\ edits \in Nat /\ attempt \in Attempts \cup {NoAttempt}
      /\ RoundsIn(messages) \subseteq Rounds /\ Relates(c, attempt, messages, edits)
  BY DEF Related
<1>2. ~Driven(d)
  BY DEF Stops, Driven
<1>3. /\ c.goal \in Goals /\ d.goal \in Goals /\ d.goal.id = c.goal.id
      /\ d.goal.revision = c.goal.revision + 1 /\ d.goal.rounds = c.goal.rounds /\ d.goal.phase = phase
  BY DEF Stops
<1>4. ASSUME NEW id, Minted(id, c, edits) PROVE Minted(id, d, edits)
  BY <1>3, <1>4 DEF Minted
<1>5. ASSUME NEW m \in Rounds, Past(m, c, edits) PROVE Past(m, d, edits)
  BY <1>1, <1>3, <1>4, <1>5, PastMoves DEF Past
<1>6. attempt # NoAttempt => attempt.message \in Rounds
  BY <1>1, AttemptIs
<1>7. c.goal # NoGoal
  BY <1>3, GoalIs
<1> QED
  BY <1>1, <1>2, <1>3, <1>4, <1>5, <1>6, <1>7 DEF Relates, Live

\* A disarmed goal, or the same one.
LEMMA CalmsRelates ==
  ASSUME NEW c, NEW d, NEW attempt, NEW messages, NEW edits, Related(c, attempt, messages, edits),
         Calms(c, d)
  PROVE  /\ Relates(d, attempt, messages, edits) /\ d \in Caches
         /\ Live(d, attempt) => Live(c, attempt)
<1>1. c \in Caches /\ Relates(c, attempt, messages, edits)
  BY DEF Related
<1>2. CASE d = c
  BY <1>1, <1>2
<1>3. CASE d.goal = c.goal /\ ~Driven(d) /\ d \in Caches
  BY <1>1, <1>3 DEF Relates, Past, Behind, Minted, Live
<1> QED
  BY <1>2, <1>3 DEF Calms

\* Rounds that leave, and marks on the attempt.
LEMMA LikeRelates ==
  ASSUME NEW c, NEW a, NEW b, NEW messages, NEW left, NEW edits, Related(c, a, messages, edits),
         Like(a, b), RoundsIn(left) \subseteq RoundsIn(messages),
         b.phase = "admitted" => a.phase = "admitted"
  PROVE  /\ Relates(c, b, left, edits) /\ (Live(c, b) <=> Live(c, a))
<1>1. c \in Caches /\ a \in Attempts \cup {NoAttempt} /\ Relates(c, a, messages, edits)
  BY DEF Related
<1>2. a # NoAttempt <=> b # NoAttempt
  BY AttemptIs DEF Like
<1>3. a # NoAttempt => b.message = a.message
  BY <1>2 DEF Like
<1>4. Live(c, b) <=> Live(c, a)
  BY <1>2, <1>3 DEF Live
<1>5. Driven(c) => RoundOf(c.goal) \notin left \/ RoundOf(c.goal) \in messages
  <2> SUFFICES ASSUME Driven(c), RoundOf(c.goal) \in left PROVE RoundOf(c.goal) \in messages
    OBVIOUS
  <2>1. RoundOf(c.goal).kind = "round"
    BY <1>1, DrivenGoal, RoundIs, MessageIs
  <2> QED
    BY <2>1 DEF RoundsIn
<1> QED
  BY <1>1, <1>2, <1>3, <1>4, <1>5 DEF Relates

\* The attempt is given up, with its round if that was the next.
LEMMA GivesUpRelates ==
  ASSUME NEW c, NEW a, NEW messages, NEW left, NEW edits, Related(c, a, messages, edits),
         RoundsIn(left) \subseteq RoundsIn(messages),
         Live(c, a) => RoundOf(c.goal) \notin left
  PROVE  Relates(c, NoAttempt, left, edits)
<1>1. c \in Caches /\ Relates(c, a, messages, edits)
  BY DEF Related
<1>2. Driven(c) => RoundOf(c.goal) \notin left
  <2> SUFFICES ASSUME Driven(c), RoundOf(c.goal) \in left PROVE FALSE
    OBVIOUS
  <2>1. RoundOf(c.goal).kind = "round"
    BY <1>1, DrivenGoal, RoundIs, MessageIs
  <2>2. RoundOf(c.goal) \in messages
    BY <2>1 DEF RoundsIn
  <2> QED
    BY <1>1, <2>2 DEF Relates
<1> QED
  BY <1>1, <1>2 DEF Relates, Live

\* A reservation is for the next round, which nothing pending is.
LEMMA ReservesRelates ==
  ASSUME NEW c, NEW messages, NEW edits, Related(c, NoAttempt, messages, edits),
         Driven(c), c.goal.rounds < c.goal.cap
  PROVE  /\ RoundOf(c.goal) \notin messages /\ RoundOf(c.goal) \in Rounds
         /\ Relates(c, Reservation(c.goal), messages \cup {RoundOf(c.goal)}, edits)
<1>1. c \in Caches /\ edits \in Nat /\ Relates(c, NoAttempt, messages, edits) /\ c.goal \in Goals /\ c.goal # NoGoal
  BY DrivenGoal, GoalIs DEF Related
<1>2. RoundOf(c.goal) \notin messages
  BY <1>1 DEF Relates, Live
<1>3. /\ RoundOf(c.goal) \in Rounds /\ RoundOf(c.goal).id = c.goal.id /\ RoundOf(c.goal).revision = c.goal.revision
      /\ RoundOf(c.goal).round = c.goal.rounds + 1 /\ Reservation(c.goal) \in Attempts
      /\ Reservation(c.goal).message = RoundOf(c.goal) /\ Reservation(c.goal).phase = "queued"
  BY <1>1, RoundIs
<1>4. c.goal.revision \in Nat /\ c.goal.rounds \in Nat
  BY <1>1, GoalOfCache
<1>5. Past(RoundOf(c.goal), c, edits)
  <2>1. Behind(RoundOf(c.goal), c)
    BY <1>3, <1>4 DEF Behind
  <2> QED
    BY <1>1, <1>3, <2>1 DEF Past, Relates
<1>6. Live(c, Reservation(c.goal))
  BY <1>3, AttemptIs DEF Live
<1>7. RoundsIn(messages \cup {RoundOf(c.goal)}) \subseteq RoundsIn(messages) \cup {RoundOf(c.goal)}
  BY DEF RoundsIn
<1>8. /\ \A m \in RoundsIn(messages) : Past(m, c, edits)
      /\ c.goal # NoGoal => Minted(c.goal.id, c, edits)
  BY <1>1 DEF Relates
<1> DEFINE a == Reservation(c.goal)
<1> HIDE DEF a
<1>9. Relates(c, a, messages \cup {RoundOf(c.goal)}, edits)
  BY <1>3, <1>5, <1>6, <1>7, <1>8 DEF Relates, a
<1> QED
  BY <1>2, <1>3, <1>9 DEF a
-----------------------------------------------------------------------------
(* RoundsInv is inductive, given Shape *)

LEMMA RoundsOnly ==
  /\ \A s \in Seq(Messages) : RoundsIn(Elements(s)) \subseteq Rounds
  /\ \A s \in Seq(Prompts) : RoundsIn(Elements(s)) = {} /\ Elements(s) \subseteq Prompts
<1>1. ASSUME NEW s \in Seq(Messages) PROVE RoundsIn(Elements(s)) \subseteq Rounds
  BY ElementsIn, MessageIs DEF RoundsIn, Messages
<1>2. ASSUME NEW s \in Seq(Prompts) PROVE RoundsIn(Elements(s)) = {} /\ Elements(s) \subseteq Prompts
  BY ElementsIn, MessageIs DEF RoundsIn
<1> QED
  BY <1>1, <1>2

LEMMA HeldRound ==
  ASSUME HoldsRound
  PROVE  TheRound \in RoundsIn(Elements(batch))
BY DEF HoldsRound, TheRound

LEMMA RelatedNow ==
  ASSUME Shape, RoundsInv
  PROVE  /\ Related(cache, state.attempt, Pending, spent.edits)
         /\ RoundsIn(Elements(nextTurn)) \subseteq RoundsIn(Pending)
<1>1. batch \in Seq(Messages) /\ nextTurn \in Seq(Messages)
  BY DEF Shape, TurnShape, InboxShape
<1>2. RoundsIn(Pending) \subseteq Rounds
  BY <1>1, RoundsOnly DEF Pending, RoundsIn
<1>3. cache \in Caches /\ state.attempt \in Attempts \cup {NoAttempt} /\ spent.edits \in Nat
  BY DEF Shape, GoalShape, DriverShape, HistoryShape, States
<1> QED
  BY <1>2, <1>3 DEF Related, RoundsInv, Pending, RoundsIn

\* A world the driver has left, with its reservation if it made one.
Settles(c, w, messages, edits) ==
  /\ w.cache.corrupt = c.corrupt
  /\ \/ w.reserves = "none" /\ Relates(w.cache, w.state.attempt, messages, edits)
     \/ /\ w.reserves # "none" /\ fiber = "up"
        /\ w.state.attempt.message \in Rounds \ messages
        /\ Relates(w.cache, w.state.attempt, messages \cup {w.state.attempt.message}, edits)

LEMMA DrivesRelates ==
  ASSUME NEW w \in Worlds, NEW r \in Worlds, NEW messages, NEW edits,
         Related(w.cache, w.state.attempt, messages, edits), w.reserves = "none", Drives(w, r),
         w.idle => ~Live(w.cache, w.state.attempt)
  PROVE  /\ Settles(w.cache, r, messages, edits)
         /\ Live(r.cache, r.state.attempt) =>
              r.reserves # "none" \/ (~w.idle /\ Live(w.cache, w.state.attempt))
<1>1. Relates(w.cache, w.state.attempt, messages, edits)
  BY DEF Related
<1>2. CASE r.cache = w.cache /\ r.state.attempt = w.state.attempt /\ r.reserves = "none"
  BY <1>1, <1>2 DEF Settles
<1>3. CASE w.idle /\ r.cache = w.cache /\ r.state.attempt = NoAttempt /\ r.reserves = "none"
  <2>1. Relates(w.cache, NoAttempt, messages, edits)
    BY <1>3, GivesUpRelates
  <2> QED
    BY <1>3, <2>1 DEF Settles, Live
<1>4. CASE Stops(w.cache, r.cache, "blocked") /\ r.state.attempt = NoAttempt /\ r.reserves = "none"
  <2>1. Relates(r.cache, NoAttempt, messages, edits)
    BY <1>4, StopsRelates, WorldIs
  <2> QED
    BY <1>4, <2>1 DEF Settles, Live, Stops
<1>5. CASE /\ fiber = "up" /\ Driven(w.cache) /\ w.state.attempt = NoAttempt
           /\ w.cache.goal.rounds < w.cache.goal.cap /\ r.cache = w.cache
           /\ r.state.attempt = Reservation(w.cache.goal) /\ r.reserves \in {"fresh", "loop"}
  <2>1. /\ RoundOf(w.cache.goal) \notin messages /\ RoundOf(w.cache.goal) \in Rounds
        /\ Relates(w.cache, Reservation(w.cache.goal), messages \cup {RoundOf(w.cache.goal)}, edits)
    BY <1>5, ReservesRelates
  <2>2. r.state.attempt.message = RoundOf(w.cache.goal)
    BY <1>5 DEF Reservation
  <2> QED
    BY <1>5, <2>1, <2>2 DEF Settles
<1> QED
  BY <1>2, <1>3, <1>4, <1>5 DEF Drives

LEMMA IdlesRelates ==
  ASSUME NEW w, NEW r, NEW messages, NEW edits, Good(w), w.reserves = "none", w.idle, Idles(w, r),
         Related(w.cache, w.state.attempt, messages, edits)
  PROVE  /\ Settles(w.cache, r, messages, edits)
         /\ Live(r.cache, r.state.attempt) => r.reserves # "none"
<1>1. w \in Worlds /\ r \in Worlds /\ Relates(w.cache, w.state.attempt, messages, edits)
  BY DEF Related, Good, Idles
<1>2. CASE fiber = "down"
  <2>1. w.state.attempt = NoAttempt /\ r = w
    BY <1>2 DEF Good, FreshState, Idles
  <2> QED
    BY <1>1, <2>1 DEF Settles, Live
<1>3. CASE w.cache.corrupt /\ r.cache = w.cache /\ r.state.attempt = w.state.attempt /\ r.reserves = "none"
  BY <1>1, <1>3 DEF Settles, Live, Driven
<1>4. CASE Stops(w.cache, r.cache, "paused") /\ r.state.attempt = NoAttempt /\ r.reserves = "none"
  <2>1. Relates(r.cache, NoAttempt, messages, edits)
    BY <1>1, <1>4, StopsRelates, WorldIs
  <2> QED
    BY <1>4, <2>1 DEF Settles, Live, Stops
<1>5. CASE ~(CutOff(w.state.attempt) /\ Driven(w.cache)) /\ Drives(w, r)
  <2>1. ~Live(w.cache, w.state.attempt)
    BY <1>1, <1>5 DEF Relates, CutOff, Live
  <2> QED
    BY <1>1, <1>5, <2>1, DrivesRelates
<1> QED
  BY <1>2, <1>3, <1>4, <1>5 DEF Idles

LEMMA ClosedRelates ==
  ASSUME NEW w, NEW r, NEW ending, NEW messages, NEW edits, Good(w), Closed(w, r, ending),
         Related(w.cache, w.state.attempt, messages, edits)
  PROVE  /\ Related(r.cache, r.state.attempt, messages, edits) /\ r.cache.corrupt = w.cache.corrupt
         /\ Live(r.cache, r.state.attempt) => Live(w.cache, w.state.attempt)
<1>1. r \in Worlds /\ r.cache \in Caches /\ r.state.attempt \in Attempts \cup {NoAttempt}
  BY WorldIs DEF Closed
<1>2. CASE r = w
  BY <1>2
<1>3. CASE /\ r.cache = w.cache /\ w.state.attempt \in Attempts
           /\ r.state.attempt = [w.state.attempt EXCEPT !.cancelled = TRUE]
  <2>1. Like(w.state.attempt, r.state.attempt) /\ r.state.attempt.phase = w.state.attempt.phase
    BY <1>3 DEF Like, Attempts
  <2>2. /\ Relates(w.cache, r.state.attempt, messages, edits)
        /\ Live(w.cache, r.state.attempt) <=> Live(w.cache, w.state.attempt)
    BY <2>1, LikeRelates
  <2> QED
    BY <1>1, <1>3, <2>2 DEF Related
<1>4. CASE /\ r.state = w.state /\ r.cache.goal = w.cache.goal
           /\ r.cache.corrupt = w.cache.corrupt /\ ~Driven(r.cache) /\ (r.cache.armed => w.cache.armed)
  <2>1. Calms(w.cache, r.cache)
    BY <1>1, <1>4 DEF Calms
  <2>2. /\ Relates(r.cache, w.state.attempt, messages, edits)
        /\ Live(r.cache, w.state.attempt) => Live(w.cache, w.state.attempt)
    BY <2>1, CalmsRelates
  <2> QED
    BY <1>1, <1>4, <2>2 DEF Related
<1> QED
  BY <1>2, <1>3, <1>4 DEF Closed

\* What an action leaves behind keeps RoundsInv.

LEMMA OpensRounds ==
  ASSUME Shape, RoundsInv, NEW w, Good(w), NEW turns \in Seq(Messages), NEW steps \in Seq(Prompts),
         Opens(w, turns, steps), Once("round", turns),
         Related(w.cache, w.state.attempt, Elements(turns), spent.edits), spent'.edits = spent.edits,
         Live(w.cache, w.state.attempt) => fiber = "up", fiber' = fiber,
         w.cache.corrupt = cache.corrupt, breaches' = breaches
  PROVE  RoundsInv'
<1>1. /\ nextTurn' \in Seq(Messages) /\ Elements(nextTurn') \cup Elements(batch') = Elements(turns) \cup Elements(steps)
      /\ turns = <<>> => nextTurn' = <<>> /\ Elements(batch') = Elements(steps)
      /\ turns # <<>> => nextTurn' = Tail(turns) /\ Elements(batch') = Elements(steps) \cup {Head(turns)}
      /\ RoundsIn(Elements(steps)) = {}
      /\ state' = Claimed(w.state, Elements(batch'))
  BY ClaimsOne
<1>2. cache' = w.cache /\ pc' = "claimed" /\ w.state \in States
  BY DEF Opens, Good, Worlds
<1>3. /\ Like(w.state.attempt, state'.attempt)
      /\ state'.attempt.phase = "admitted" => w.state.attempt.phase = "admitted"
  BY <1>1, <1>2, ClaimedIs
<1>4. RoundsIn(Pending') \subseteq RoundsIn(Elements(turns))
  BY <1>1 DEF Pending, RoundsIn
<1>5. /\ Relates(w.cache, state'.attempt, Pending', spent.edits)
      /\ Live(w.cache, state'.attempt) <=> Live(w.cache, w.state.attempt)
  BY <1>3, <1>4, LikeRelates
<1>6. Relates(cache, state.attempt, Pending, spent.edits)'
  BY <1>2, <1>5
<1>7. Attended' /\ Fenced'
  BY <1>2, <1>5 DEF Attended, Fenced
<1>8. RoundsOnce'
  <2>1. CASE turns = <<>>
    BY <1>1, <2>1, EmptyOnce, EmptyElements DEF RoundsOnce
  <2>2. CASE turns # <<>>
    <3>1. Once("round", Tail(turns)) /\ (Head(turns).kind = "round" => Head(turns) \notin Elements(Tail(turns)))
      BY <2>2, TailOnce
    <3>2. RoundsIn(Elements(batch')) \cap Elements(nextTurn') = {}
      BY <1>1, <2>2, <3>1 DEF RoundsIn
    <3> QED
      BY <1>1, <2>2, <3>1, <3>2 DEF RoundsOnce, Once
  <2> QED
    BY <2>1, <2>2
<1>9. Admitted'
  BY <1>2 DEF RoundsInv, Admitted
<1> QED
  BY <1>6, <1>7, <1>8, <1>9 DEF RoundsInv

LEMMA InsertsRounds ==
  ASSUME Shape, RoundsInv, NEW w, Good(w), Inserts(w, nextTurn), NEW messages,
         Elements(nextTurn) \subseteq messages, Settles(cache, w, messages, spent.edits),
         cache' = w.cache, state' = w.state
  PROVE  /\ Once("round", nextTurn)'
         /\ w.reserves = "none" => nextTurn' = nextTurn /\ Relates(cache', state'.attempt, messages, spent.edits)
         /\ w.reserves # "none" =>
              /\ Elements(nextTurn') = Elements(nextTurn) \cup {state'.attempt.message}
              /\ Relates(cache', state'.attempt, messages \cup {state'.attempt.message}, spent.edits)
         /\ Admitted'
<1>1. /\ w.reserves = "none" => nextTurn' = nextTurn /\ breaches' = breaches
      /\ breaches' = breaches \cup (IF w.reserves # "none" /\ revoked THEN {"restarted"} ELSE {})
      /\ w.reserves # "none" =>
           /\ nextTurn' = Append(nextTurn, w.state.attempt.message)
           /\ w.state.attempt.message \in Messages
           /\ Elements(nextTurn') = Elements(nextTurn) \cup {w.state.attempt.message}
  BY InsertsShape
<1>2. Once("round", nextTurn) /\ nextTurn \in Seq(Messages)
  BY DEF RoundsInv, RoundsOnce, Shape, InboxShape
<1>3. Admitted'
  BY <1>1 DEF Admitted, RoundsInv, Settles
<1>4. CASE w.reserves = "none"
  BY <1>1, <1>2, <1>3, <1>4 DEF Settles, Once
<1>5. CASE w.reserves # "none"
  <2>1. w.state.attempt.message \notin Elements(nextTurn)
    BY <1>5 DEF Settles
  <2>2. Once("round", Append(nextTurn, w.state.attempt.message))
    BY <1>1, <1>2, <1>5, <2>1, AppendOnce
  <2>3. Once("round", nextTurn)'
    BY <1>1, <1>5, <2>2 DEF Once
  <2> QED
    BY <1>1, <1>3, <1>5, <2>3 DEF Settles
<1> QED
  BY <1>4, <1>5

LEMMA RestsRounds ==
  ASSUME Shape, RoundsInv, NEW w, Good(w), NEW steps, Rests(w, steps),
         Settles(cache, w, Elements(nextTurn), spent.edits),
         Live(w.cache, w.state.attempt) => w.reserves # "none", fiber' = fiber, spent'.edits = spent.edits
  PROVE  RoundsInv'
<1>1. /\ cache' = w.cache /\ state' = w.state /\ Inserts(w, nextTurn) /\ pc' = "idle" /\ batch' = <<>>
      /\ frame' = w.reserves
  BY DEF Rests, Inserts
<1>2. /\ Once("round", nextTurn)'
      /\ w.reserves = "none" => nextTurn' = nextTurn /\ Relates(cache', state'.attempt, Elements(nextTurn), spent.edits)
      /\ w.reserves # "none" =>
           /\ Elements(nextTurn') = Elements(nextTurn) \cup {state'.attempt.message}
           /\ Relates(cache', state'.attempt, Elements(nextTurn) \cup {state'.attempt.message}, spent.edits)
      /\ Admitted'
  BY <1>1, InsertsRounds
<1>3. Pending' = Elements(nextTurn')
  BY <1>1, EmptyElements DEF Pending
<1>4. Relates(cache, state.attempt, Pending, spent.edits)'
  BY <1>2, <1>3
<1>5. Attended'
  BY <1>1 DEF Attended, Settles
<1>6. Fenced'
  BY <1>1 DEF Fenced
<1>7. RoundsOnce'
  BY <1>1, <1>2, EmptyElements DEF RoundsOnce, RoundsIn
<1> QED
  BY <1>2, <1>4, <1>5, <1>6, <1>7 DEF RoundsInv

\* The agent leaves its turn.
LEMMA SettledRounds ==
  ASSUME Shape, RoundsInv, NEW v, Settled(v), UNCHANGED <<fiber, spent>>
  PROVE  RoundsInv'
<1>1. nextTurn \in Seq(Messages) /\ nextStep \in Seq(Prompts) /\ Once("round", nextTurn)
  BY DEF Shape, InboxShape, RoundsInv, RoundsOnce
<1>2. PICK x \in Worlds : /\ Good(x) /\ x.cache = cache /\ x.state = state /\ x.idle
                          /\ x.reserves = "none" /\ Idles(x, v)
  BY DEF Settled
<1>3. Related(cache, state.attempt, Elements(nextTurn), spent.edits)
  <2>1. /\ Related(cache, state.attempt, Pending, spent.edits)
        /\ RoundsIn(Elements(nextTurn)) \subseteq RoundsIn(Pending)
    BY RelatedNow
  <2>2. Relates(cache, state.attempt, Elements(nextTurn), spent.edits)
    BY <2>1, LikeRelates DEF Like, Related
  <2> QED
    BY <2>1, <2>2 DEF Related
<1>4. /\ Settles(cache, v, Elements(nextTurn), spent.edits)
      /\ Live(v.cache, v.state.attempt) => v.reserves # "none"
  BY <1>2, <1>3, IdlesRelates
<1>5. Good(v) /\ v \in Worlds
  BY DEF Settled
<1>6. CASE v.reserves = "none" /\ Opens(v, nextTurn, nextStep) /\ UNCHANGED breaches
  <2>1. Related(v.cache, v.state.attempt, Elements(nextTurn), spent.edits)
    BY <1>3, <1>4, <1>5, <1>6, WorldIs DEF Settles, Related
  <2>2. v.cache.corrupt = cache.corrupt
    BY <1>4 DEF Settles
  <2> QED
    BY <1>1, <1>4, <1>5, <1>6, <2>1, <2>2, OpensRounds
<1>7. CASE Rests(v, nextStep)
  BY <1>4, <1>5, <1>7, RestsRounds
<1> QED
  BY <1>6, <1>7 DEF Settled

LEMMA SameBatch ==
  ASSUME batch' = batch
  PROVE  HoldsRound' = HoldsRound /\ TheRound' = TheRound
BY DEF HoldsRound, TheRound

LEMMA MutateRounds ==
  ASSUME Shape, RoundsInv, Mutate
  PROVE  RoundsInv'
<1>1. /\ Renews(cache, cache', spent.edits) /\ state'.attempt = state.attempt
      /\ spent' = [spent EXCEPT !.edits = @ + 1]
      /\ excuse' = IF Slips THEN "slipped" ELSE excuse
      /\ UNCHANGED <<fiber, pc, frame, batch, nextTurn, breaches>>
  BY MutateIs DEF turn, inbox
<1>2. Related(cache, state.attempt, Pending, spent.edits)
  BY RelatedNow
<1>3. Relates(cache', state.attempt, Pending, spent.edits + 1) /\ ~Live(cache', state.attempt)
  BY <1>1, <1>2, RenewsRelates
<1>4. spent'.edits = spent.edits + 1 /\ Pending' = Pending
  BY <1>1 DEF Shape, HistoryShape, Pending
<1>5. Relates(cache, state.attempt, Pending, spent.edits)'
  BY <1>1, <1>3, <1>4
<1>6. HoldsRound' = HoldsRound /\ TheRound' = TheRound
  BY <1>1, SameBatch
<1>7. Attended' /\ Fenced'
  BY <1>1, <1>3, <1>6 DEF Attended, Fenced, RoundsInv, Slips, HoldsRound
<1>8. RoundsOnce' /\ Admitted'
  BY <1>1 DEF RoundsOnce, Admitted, RoundsInv, Once, Renews
<1> QED
  BY <1>5, <1>7, <1>8 DEF RoundsInv

\* A person's message in the lists is none of the rounds.
LEMMA SentLists ==
  ASSUME Shape, RoundsInv, NEW turns, spent.prompts < MaxPrompts,
         turns = nextTurn \/ turns = Append(nextTurn, Prompt(spent.prompts + 1))
  PROVE  /\ Once("round", turns)
         /\ RoundsIn(Elements(turns)) = RoundsIn(Elements(nextTurn))
         /\ Elements(turns) \subseteq Elements(nextTurn) \cup {Prompt(spent.prompts + 1)}
         /\ Prompt(spent.prompts + 1) \in Prompts
<1>1. nextTurn \in Seq(Messages) /\ Once("round", nextTurn)
  BY DEF Shape, InboxShape, RoundsInv, RoundsOnce
<1> DEFINE m == Prompt(spent.prompts + 1)
<1>2. m \in Prompts
  BY BoundsAssumption DEF Prompts, Shape, HistoryShape
<1> HIDE DEF m
<1>3. m \in Messages /\ m.kind # "round"
  BY <1>2, MessageIs DEF Messages
<1>4. Once("round", Append(nextTurn, m)) /\ Elements(Append(nextTurn, m)) = Elements(nextTurn) \cup {m}
  BY <1>1, <1>3, AppendOnce, AppendElements
<1>5. RoundsIn(Elements(nextTurn) \cup {m}) = RoundsIn(Elements(nextTurn))
  BY <1>3 DEF RoundsIn
<1> QED
  BY <1>1, <1>2, <1>4, <1>5 DEF m

LEMMA SendRounds ==
  ASSUME Shape, RoundsInv, NEW queue \in {"next-turn", "next-step"}, NEW wakeup \in BOOLEAN, Send(queue, wakeup)
  PROVE  RoundsInv'
<1>1. PICK target \in {"next-turn", "next-step"}, turns \in Seq(Messages), steps \in Seq(Prompts) :
           /\ spent.prompts < MaxPrompts
           /\ target = "next-turn" => turns = Append(nextTurn, Prompt(spent.prompts + 1)) /\ steps = nextStep
           /\ target = "next-step" => turns = nextTurn /\ steps = Append(nextStep, Prompt(spent.prompts + 1))
           /\ \/ /\ pc = "idle"
                 /\ \E w : /\ Good(w) /\ w.reserves = "none" /\ w.cache = cache
                           /\ w.state.attempt = Inserted(state, target).attempt
                           /\ Opens(w, turns, steps)
              \/ /\ cache' = cache /\ state' = Inserted(state, target)
                 /\ nextTurn' = turns /\ nextStep' = steps
                 /\ UNCHANGED <<pc, frame, batch, aborted, waiting, excuse>>
           /\ spent' = [spent EXCEPT !.prompts = @ + 1]
           /\ UNCHANGED <<fiber, revoked, served, dropped, breaches>>
  BY SendIs
<1>2. turns = nextTurn \/ turns = Append(nextTurn, Prompt(spent.prompts + 1))
  BY <1>1
<1>3. /\ Once("round", turns) /\ RoundsIn(Elements(turns)) = RoundsIn(Elements(nextTurn))
      /\ Elements(turns) \subseteq Elements(nextTurn) \cup {Prompt(spent.prompts + 1)}
      /\ Prompt(spent.prompts + 1) \in Prompts
  BY <1>1, <1>2, SentLists
<1>4. spent'.edits = spent.edits
  BY <1>1 DEF Shape, HistoryShape
<1>5. Related(cache, state.attempt, Pending, spent.edits)
  BY RelatedNow
<1> DEFINE b == Inserted(state, target).attempt
<1>6. /\ Like(state.attempt, b) /\ b.phase = state.attempt.phase /\ b \in Attempts \cup {NoAttempt}
  <2>1. state \in States
    BY DEF Shape, DriverShape
  <2> QED
    BY <2>1, InsertedIs DEF Like
<1> HIDE DEF b
<1>7. ASSUME NEW left, RoundsIn(left) \subseteq RoundsIn(Pending)
      PROVE  Related(cache, b, left, spent.edits) /\ (Live(cache, b) <=> Live(cache, state.attempt))
  <2>1. /\ Relates(cache, b, left, spent.edits)
        /\ Live(cache, b) <=> Live(cache, state.attempt)
    BY <1>5, <1>6, <1>7, LikeRelates
  <2> QED
    BY <1>5, <1>6, <1>7, <2>1 DEF Related
<1>8. CASE /\ pc = "idle"
           /\ \E w : /\ Good(w) /\ w.reserves = "none" /\ w.cache = cache
                     /\ w.state.attempt = b
                     /\ Opens(w, turns, steps)
  <2>1. PICK w : /\ Good(w) /\ w.reserves = "none" /\ w.cache = cache
                 /\ w.state.attempt = b
                 /\ Opens(w, turns, steps)
    BY <1>8
  <2>2. RoundsIn(Elements(turns)) \subseteq RoundsIn(Pending)
    BY <1>3, RelatedNow
  <2>3. Related(w.cache, w.state.attempt, Elements(turns), spent.edits)
    BY <1>7, <2>1, <2>2
  <2>4. Live(w.cache, w.state.attempt) => fiber = "up"
    BY <1>7, <2>1, <2>2 DEF RoundsInv, Attended
  <2>5. fiber' = fiber /\ breaches' = breaches
    BY <1>1
  <2> QED
    BY <1>3, <1>4, <2>1, <2>3, <2>4, <2>5, OpensRounds
<1>9. CASE /\ cache' = cache /\ state'.attempt = b
           /\ nextTurn' = turns /\ nextStep' = steps
           /\ UNCHANGED <<pc, frame, batch, aborted, waiting, excuse>>
  <2>1. RoundsIn(Pending') \subseteq RoundsIn(Pending)
    BY <1>3, <1>9 DEF Pending, RoundsIn
  <2>2. Related(cache, b, Pending', spent.edits) /\ (Live(cache, b) <=> Live(cache, state.attempt))
    BY <1>7, <2>1
  <2>3. Relates(cache, state.attempt, Pending, spent.edits)'
    BY <1>4, <1>9, <2>2 DEF Related
  <2>4. HoldsRound' = HoldsRound /\ TheRound' = TheRound
    BY <1>9, SameBatch
  <2>5. Attended'
    BY <1>1, <1>9, <2>2 DEF Attended, RoundsInv
  <2>6. \/ state.attempt = NoAttempt /\ b = NoAttempt
        \/ state.attempt # NoAttempt /\ b.message = state.attempt.message
    BY <1>6, AttemptIs DEF Like
  <2>7. Fenced'
    <3>1. Next1' = Next1
      BY <1>9, <2>4 DEF Next1
    <3>2. pc = "deciding" => b = NoAttempt \/ b.message = TheRound
      BY <2>6 DEF Fenced, RoundsInv
    <3> QED
      BY <1>9, <2>4, <3>1, <3>2 DEF Fenced, RoundsInv
  <2>8. RoundsOnce'
    <3>1. RoundsIn(Elements(batch)) \cap Elements(turns) = {}
      <4>1. RoundsIn(Elements(batch)) \cap Elements(nextTurn) = {}
        BY DEF RoundsInv, RoundsOnce
      <4>2. Prompt(spent.prompts + 1) \notin RoundsIn(Elements(batch))
        BY <1>3, MessageIs DEF RoundsIn
      <4> QED
        BY <1>3, <4>1, <4>2
    <3> QED
      BY <1>3, <1>9, <3>1 DEF RoundsOnce, Once
  <2>9. Admitted'
    BY <1>1, <1>9 DEF RoundsInv, Admitted
  <2> QED
    BY <2>3, <2>5, <2>7, <2>8, <2>9 DEF RoundsInv
<1> QED
  BY <1>1, <1>8, <1>9 DEF b

\* A step that leaves the turn alone, marks the attempt or ends its goal's
\* activation, and takes from the lists what it takes.
LEMMA MarksRounds ==
  ASSUME Shape, RoundsInv, Calms(cache, cache'),
         Like(state.attempt, state'.attempt), state'.attempt.phase = state.attempt.phase,
         nextTurn' \in {nextTurn, <<>>}, UNCHANGED <<pc, frame, batch, breaches>>, spent'.edits = spent.edits,
         \/ cache' = cache /\ fiber' = fiber /\ excuse' = excuse
         \/ ~Driven(cache') /\ excuse' = IF Slips THEN "slipped" ELSE excuse
  PROVE  RoundsInv'
<1>1. Related(cache, state.attempt, Pending, spent.edits)
  BY RelatedNow
<1>2. Relates(cache', state.attempt, Pending, spent.edits) /\ cache' \in Caches
      /\ (Live(cache', state.attempt) => Live(cache, state.attempt))
  BY <1>1, CalmsRelates
<1>3. Related(cache', state.attempt, Pending, spent.edits)
  BY <1>1, <1>2 DEF Related
<1>4. Elements(nextTurn') \subseteq Elements(nextTurn)
  BY EmptyElements
<1>5. RoundsIn(Pending') \subseteq RoundsIn(Pending)
  BY <1>4 DEF Pending, RoundsIn
<1>6. /\ Relates(cache', state'.attempt, Pending', spent.edits)
      /\ Live(cache', state'.attempt) <=> Live(cache', state.attempt)
  BY <1>3, <1>5, LikeRelates
<1>7. Relates(cache, state.attempt, Pending, spent.edits)'
  BY <1>6
<1>8. HoldsRound' = HoldsRound /\ TheRound' = TheRound
  BY SameBatch
<1>9. Attended'
  BY <1>2, <1>6 DEF Attended, RoundsInv, Live
<1>10. \/ state.attempt = NoAttempt /\ state'.attempt = NoAttempt
       \/ state.attempt # NoAttempt /\ state'.attempt.message = state.attempt.message
  BY AttemptIs DEF Like
<1>11. Fenced'
  <2>1. pc = "deciding" => state'.attempt = NoAttempt \/ state'.attempt.message = TheRound
    BY <1>10 DEF Fenced, RoundsInv
  <2>2. cache' = cache => Next1' = Next1
    BY <1>8 DEF Next1
  <2>3. pc = "entering" /\ HoldsRound /\ excuse' = "none" => cache' = cache /\ excuse = "none"
    BY DEF Slips, HoldsRound
  <2> QED
    BY <1>8, <2>1, <2>2, <2>3 DEF Fenced, RoundsInv
<1>12. RoundsOnce'
  <2>1. Once("round", nextTurn')
    BY EmptyOnce DEF RoundsInv, RoundsOnce
  <2> QED
    BY <1>4, <2>1 DEF RoundsInv, RoundsOnce, Once
<1>13. Admitted'
  BY DEF Calms, RoundsInv, Admitted
<1> QED
  BY <1>7, <1>9, <1>11, <1>12, <1>13 DEF RoundsInv

LEMMA CancelRounds ==
  ASSUME Shape, RoundsInv, NEW keepInbox \in BOOLEAN, Cancel(keepInbox)
  PROVE  RoundsInv'
<1> DEFINE gone == IF keepInbox THEN {} ELSE Elements(nextTurn) \cup Elements(nextStep)
<1>1. /\ state' = Discarded(state, gone) /\ nextTurn' \in {nextTurn, <<>>}
      /\ UNCHANGED <<cache, fiber, pc, frame, batch, spent, excuse, breaches>>
  BY DEF Cancel, inbox
<1> HIDE DEF gone
<1>2. Like(state.attempt, state'.attempt) /\ state'.attempt.phase = state.attempt.phase
  BY <1>1, DiscardedIs DEF Shape, DriverShape
<1> QED
  BY <1>1, <1>2, MarksRounds DEF Calms

LEMMA UnloadRounds ==
  ASSUME Shape, RoundsInv, Unload
  PROVE  RoundsInv'
<1>1. /\ Calms(cache, cache') /\ ~Driven(cache')
      /\ Like(state.attempt, state'.attempt) /\ state'.attempt.phase = state.attempt.phase
      /\ nextTurn' \in {nextTurn, <<>>} /\ spent'.edits = spent.edits
      /\ excuse' = IF Slips THEN "slipped" ELSE excuse
      /\ UNCHANGED <<pc, frame, batch, breaches>>
  BY UnloadIs DEF inbox
<1> QED
  BY <1>1, MarksRounds

LEMMA LoadRounds ==
  ASSUME Shape, RoundsInv, Load
  PROVE  RoundsInv'
<1>1. /\ Calms(cache, cache') /\ ~Driven(cache') /\ state' = state
      /\ nextTurn' = nextTurn /\ spent' = spent
      /\ excuse' = IF Slips THEN "slipped" ELSE excuse
      /\ UNCHANGED <<pc, frame, batch, breaches>>
  BY LoadIs DEF inbox, turn
<1>2. Like(state.attempt, state.attempt)
  BY DEF Like, Shape, DriverShape, States
<1> QED
  BY <1>1, <1>2, MarksRounds

\* An unloading driver has no round left that anybody would start.
LEMMA UnloadedRounds ==
  ASSUME Shape, RoundsInv, Unloaded
  PROVE  RoundsInv'
<1>1. /\ fiber # "up" /\ fiber' = "down" /\ state'.attempt = NoAttempt
      /\ UNCHANGED <<cache, pc, frame, batch, nextTurn, spent, excuse, breaches>>
  BY DEF Unloaded, FreshState, turn, inbox, history
<1>2. Related(cache, state.attempt, Pending, spent.edits) /\ ~Live(cache, state.attempt)
  BY <1>1, RelatedNow DEF RoundsInv, Attended
<1>3. Relates(cache, NoAttempt, Pending, spent.edits)
  BY <1>2, GivesUpRelates
<1>4. Pending' = Pending
  BY <1>1 DEF Pending
<1>5. Relates(cache, state.attempt, Pending, spent.edits)'
  BY <1>1, <1>3, <1>4
<1>6. HoldsRound' = HoldsRound /\ TheRound' = TheRound
  BY <1>1, SameBatch
<1>7. Attended' /\ Fenced' /\ RoundsOnce' /\ Admitted'
  BY <1>1, <1>6 DEF Attended, Fenced, RoundsOnce, Admitted, RoundsInv, Live, Next1, Once
<1> QED
  BY <1>5, <1>7 DEF RoundsInv

LEMMA LoopRounds ==
  ASSUME Shape, RoundsInv, frame = "none", spent'.edits = spent.edits, NEW v, NEW w, LoopRuns(v, w)
  PROVE  RoundsInv'
<1>1. /\ v \in Worlds /\ v.state.attempt = state.attempt /\ v.idle = (pc = "idle") /\ v.reserves = "none"
      /\ \/ v.cache = cache /\ excuse' = excuse
         \/ Calms(cache, v.cache) /\ excuse' = IF Slips THEN "slipped" ELSE excuse
      /\ Drives(v, w) /\ Good(w) /\ w \in Worlds
  BY DEF LoopRuns, Good
<1>2. /\ cache' = w.cache /\ state' = w.state /\ Inserts(w, nextTurn) /\ frame' = w.reserves
      /\ UNCHANGED <<fiber, pc, batch>>
  BY DEF LoopRuns, Continues, Inserts
<1>3. Calms(cache, v.cache)
  BY <1>1 DEF Calms
<1>4. Related(cache, state.attempt, Pending, spent.edits)
  BY RelatedNow
<1>5. /\ Relates(v.cache, state.attempt, Pending, spent.edits) /\ v.cache \in Caches
      /\ Live(v.cache, state.attempt) => Live(cache, state.attempt)
  BY <1>3, <1>4, CalmsRelates
<1>6. Related(v.cache, v.state.attempt, Pending, spent.edits)
  BY <1>1, <1>4, <1>5 DEF Related
<1>7. Live(v.cache, v.state.attempt) => fiber = "up" /\ pc # "idle"
  BY <1>1, <1>5 DEF RoundsInv, Attended
<1>8. /\ Settles(v.cache, w, Pending, spent.edits)
      /\ Live(w.cache, w.state.attempt) =>
              w.reserves # "none" \/ (~v.idle /\ Live(v.cache, v.state.attempt))
  BY <1>1, <1>6, <1>7, DrivesRelates
<1>9. Settles(cache, w, Pending, spent.edits)
  BY <1>3, <1>8 DEF Settles, Calms
<1>10. Elements(nextTurn) \subseteq Pending
  BY DEF Pending
<1>11. /\ Once("round", nextTurn)'
       /\ w.reserves = "none" => nextTurn' = nextTurn /\ Relates(cache', state'.attempt, Pending, spent.edits)
       /\ w.reserves # "none" =>
            /\ Elements(nextTurn') = Elements(nextTurn) \cup {state'.attempt.message}
            /\ Relates(cache', state'.attempt, Pending \cup {state'.attempt.message}, spent.edits)
       /\ Admitted'
  BY <1>1, <1>2, <1>9, <1>10, InsertsRounds
<1>12. Relates(cache, state.attempt, Pending, spent.edits)'
  <2>1. CASE w.reserves = "none"
    <3>1. Pending' = Pending
      BY <1>2, <1>11, <2>1 DEF Pending
    <3> QED
      BY <1>11, <2>1, <3>1
  <2>2. CASE w.reserves # "none"
    <3>1. Pending' = Pending \cup {state'.attempt.message}
      BY <1>2, <1>11, <2>2 DEF Pending
    <3> QED
      BY <1>11, <2>2, <3>1
  <2> QED
    BY <2>1, <2>2
<1>13. Attended'
  BY <1>1, <1>2, <1>7, <1>8, <1>9 DEF Attended, Settles
<1>14. HoldsRound' = HoldsRound /\ TheRound' = TheRound
  BY <1>2, SameBatch
<1>15. pc # "idle" => w.cache = v.cache /\ w.state.attempt = state.attempt
  BY <1>1 DEF Drives
<1>16. Fenced'
  BY <1>1, <1>2, <1>14, <1>15 DEF Fenced, RoundsInv, Next1, Slips, HoldsRound
<1>17. RoundsOnce'
  <2>1. CASE w.reserves = "none"
    BY <1>2, <1>11, <2>1 DEF RoundsOnce, RoundsInv
  <2>2. CASE w.reserves # "none"
    <3>1. pc = "idle"
      BY <1>1, <2>2 DEF Drives
    <3>2. batch' = <<>>
      BY <1>2, <3>1 DEF Shape, TurnShape
    <3> QED
      BY <1>11, <3>2, EmptyElements DEF RoundsOnce, RoundsIn
  <2> QED
    BY <2>1, <2>2
<1> QED
  BY <1>11, <1>12, <1>13, <1>16, <1>17 DEF RoundsInv

LEMMA EntersRounds ==
  ASSUME Shape, RoundsInv, pc = "entering", NEW entered \in {batch, PromptsOf(batch)}, Enters(entered),
         UNCHANGED <<fiber, spent, revoked>>
  PROVE  RoundsInv'
<1> DEFINE admitted == RoundsIn(Elements(entered)) # {}
<1>1. /\ admitted => HoldsRound /\ TheRound \in Rounds
      /\ ~admitted => cache' = cache /\ state' = state
      /\ admitted =>
           /\ \/ /\ Accepts(cache.goal, TheRound) /\ cache.goal \in Goals /\ cache'.goal \in Goals
                 /\ cache'.goal.id = cache.goal.id /\ cache'.goal.revision = cache.goal.revision
                 /\ cache'.goal.phase = cache.goal.phase /\ cache'.goal.rounds = cache.goal.rounds + 1
                 /\ cache'.corrupt = cache.corrupt
              \/ ~Accepts(cache.goal, TheRound) /\ cache'.goal = cache.goal /\ cache'.corrupt
           /\ \/ state' = state
              \/ Like(state.attempt, state'.attempt)
      /\ cache' \in Caches /\ state' \in States
  BY EntersIs
<1>2. /\ pc' = "stepping" /\ batch' = <<>> /\ nextTurn' = nextTurn /\ excuse' = "none" /\ frame' = frame
      /\ breaches' = breaches \cup Breach(entered)
  BY DEF Enters, inbox
<1>3. /\ Breach(entered) \subseteq {"stale", excuse, "overtook"}
      /\ ~admitted => Breach(entered) = {}
      /\ admitted /\ Accepts(cache.goal, TheRound) /\ Driven(cache) => "stale" \notin Breach(entered)
      /\ excuse # "none" => "stale" \notin Breach(entered)
      /\ admitted /\ ~Accepts(cache.goal, TheRound) /\ excuse # "none" => excuse \in Breach(entered)
  <2>1. excuse \in {"none", "slipped", "unfenced"}
    BY DEF Shape, HistoryShape
  <2> QED
    BY <2>1 DEF Breach
<1> HIDE DEF admitted
<1>4. /\ Related(cache, state.attempt, Pending, spent.edits)
      /\ RoundsIn(Elements(nextTurn)) \subseteq RoundsIn(Pending)
  BY RelatedNow
<1>5. Pending' = Elements(nextTurn)
  BY <1>2, EmptyElements DEF Pending
<1>6. /\ state.attempt \in Attempts \cup {NoAttempt} /\ cache \in Caches /\ spent.edits \in Nat
      /\ state'.attempt \in Attempts \cup {NoAttempt}
      /\ Relates(cache, state.attempt, Pending, spent.edits)
  BY <1>1, <1>4 DEF Related, States
<1>7. CASE ~admitted
  <2>1. /\ Relates(cache, state.attempt, Elements(nextTurn), spent.edits)
    BY <1>4, <1>6, LikeRelates DEF Like
  <2>2. Attended' /\ Admitted'
    BY <1>1, <1>2, <1>3, <1>7 DEF Attended, Admitted, RoundsInv
  <2>3. Fenced' /\ RoundsOnce'
    BY <1>2, EmptyElements DEF Fenced, RoundsOnce, RoundsInv, RoundsIn, Once
  <2> QED
    BY <1>1, <1>5, <1>7, <2>1, <2>2, <2>3 DEF RoundsInv
<1>8. CASE admitted
  <2>1. \/ state'.attempt = NoAttempt
        \/ /\ state.attempt # NoAttempt /\ state'.attempt # NoAttempt
           /\ state'.attempt.message = state.attempt.message
    BY <1>1, <1>6, <1>8, AttemptIs DEF Like
  <2>2. /\ \A m \in RoundsIn(Pending') : Past(m, cache, spent.edits) /\ m \in Rounds
        /\ state'.attempt # NoAttempt =>
             Past(state'.attempt.message, cache, spent.edits) /\ state'.attempt.message \in Rounds
        /\ cache.goal # NoGoal => Minted(cache.goal.id, cache, spent.edits)
    BY <1>4, <1>5, <1>6, <2>1, AttemptIs DEF Related, Relates
  <2>3. Relates(cache', state'.attempt, Pending', spent.edits) /\ ~Live(cache', state'.attempt)
    <3>1. CASE /\ cache.goal \in Goals /\ cache'.goal \in Goals
               /\ cache'.goal.id = cache.goal.id /\ cache'.goal.revision = cache.goal.revision
               /\ cache'.goal.phase = cache.goal.phase /\ cache'.goal.rounds = cache.goal.rounds + 1
      <4>1. ASSUME NEW m \in Rounds, Past(m, cache, spent.edits)
            PROVE  Past(m, cache', spent.edits) /\ m # RoundOf(cache'.goal)
        <5>1. Behind(m, cache') /\ m # RoundOf(cache'.goal)
          BY <1>1, <1>6, <3>1, <4>1, PastMoves
        <5> QED
          BY <3>1, <4>1, <5>1 DEF Past, Minted
      <4>2. Minted(cache'.goal.id, cache', spent.edits)
        BY <2>2, <3>1, GoalIs DEF Minted
      <4> QED
        BY <1>1, <1>6, <2>2, <4>1, <4>2, RelatesMoved
    <3>2. CASE cache'.goal = cache.goal /\ cache'.corrupt
      <4>1. ~Driven(cache')
        BY <3>2 DEF Driven
      <4>2. \A m : Past(m, cache, spent.edits) => Past(m, cache', spent.edits)
        BY <3>2 DEF Past, Behind, Minted
      <4> QED
        BY <2>2, <3>2, <4>1, <4>2 DEF Relates, Live, Minted
    <3> QED
      BY <1>1, <1>8, <3>1, <3>2
  <2>4. Admitted'
    <3>1. excuse = "none" => Accepts(cache.goal, TheRound) /\ Driven(cache)
      <4> SUFFICES ASSUME excuse = "none" PROVE Accepts(cache.goal, TheRound) /\ Driven(cache)
        OBVIOUS
      <4>1. Next1
        BY <1>1, <1>8 DEF RoundsInv, Fenced
      <4>2. cache.goal \in Goals /\ cache.goal.phase = "active"
        BY <1>6, <4>1, DrivenGoal DEF Next1
      <4>3. /\ TheRound.id = cache.goal.id /\ TheRound.revision = cache.goal.revision
            /\ TheRound.round = cache.goal.rounds + 1
        BY <4>1, <4>2, RoundIs DEF Next1
      <4>4. cache.goal.rounds \in Nat /\ cache.goal.cap \in Nat /\ cache.goal.rounds < cache.goal.cap
        BY <1>6, <4>1, <4>2, GoalOfCache DEF Next1
      <4> QED
        BY <4>1, <4>2, <4>3, <4>4 DEF Accepts, Next1
    <3>2. "stale" \notin breaches'
      BY <1>2, <1>3, <1>8, <3>1 DEF RoundsInv, Admitted
    <3>3. excuse \in {"none", "slipped", "unfenced"}
      BY DEF Shape, HistoryShape
    <3>4. cache'.corrupt => breaches' \cap {"slipped", "unfenced"} # {}
      <4>1. CASE cache'.corrupt = cache.corrupt
        BY <1>2, <4>1 DEF RoundsInv, Admitted
      <4>2. CASE ~Accepts(cache.goal, TheRound)
        BY <1>2, <1>3, <1>8, <3>1, <3>3, <4>2
      <4> QED
        BY <1>1, <1>8, <4>1, <4>2
    <3> QED
      BY <3>2, <3>4 DEF Admitted
  <2>5. Attended'
    BY <2>3 DEF Attended
  <2>6. Fenced' /\ RoundsOnce'
    BY <1>2, EmptyElements DEF Fenced, RoundsOnce, RoundsInv, RoundsIn, Once
  <2> QED
    BY <2>3, <2>4, <2>5, <2>6 DEF RoundsInv
<1> QED
  BY <1>7, <1>8

\* The round a turn gives up is in its batch.
LEMMA LeavesRelates ==
  ASSUME Shape, RoundsInv, NEW w, Leaves(w), pc # "idle"
  PROVE  /\ Related(w.cache, w.state.attempt, Elements(nextTurn), spent.edits)
         /\ Live(w.cache, w.state.attempt) => fiber = "up"
         /\ w.cache.corrupt = cache.corrupt
<1>1. /\ Related(cache, state.attempt, Pending, spent.edits)
      /\ RoundsIn(Elements(nextTurn)) \subseteq RoundsIn(Pending)
  BY RelatedNow
<1>2. /\ RoundsIn(Elements(nextTurn)) \subseteq Rounds /\ spent.edits \in Nat /\ w.cache \in Caches
      /\ state.attempt \in Attempts \cup {NoAttempt} /\ cache \in Caches
  BY <1>1, WorldIs DEF Related, Leaves, Good
<1>3. CASE w.cache = cache /\ w.state.attempt = state.attempt
  <2>1. Relates(cache, state.attempt, Elements(nextTurn), spent.edits)
    BY <1>1, <1>2, LikeRelates DEF Like
  <2> QED
    BY <1>2, <1>3, <2>1 DEF Related, RoundsInv, Attended
<1>4. CASE /\ HoldsRound /\ w.state.attempt = NoAttempt
           /\ pc = "deciding" \/ Matches(TheRound, state.attempt)
           /\ w.cache = cache
  <2>1. Live(cache, state.attempt) => state.attempt.message = TheRound
    BY <1>4 DEF Live, Matches, RoundsInv, Fenced
  <2>2. TheRound \notin Elements(nextTurn)
    BY <1>4, HeldRound DEF RoundsInv, RoundsOnce
  <2>3. Live(cache, state.attempt) => RoundOf(cache.goal) \notin Elements(nextTurn)
    BY <2>1, <2>2 DEF Live
  <2>4. Relates(cache, NoAttempt, Elements(nextTurn), spent.edits)
    BY <1>1, <2>3, GivesUpRelates
  <2> QED
    BY <1>2, <1>4, <2>4 DEF Related, Live
<1>5. CASE w.state.attempt = NoAttempt /\ Stops(cache, w.cache, "blocked")
  <2>1. Relates(w.cache, NoAttempt, Pending, spent.edits) /\ ~Driven(w.cache)
    BY <1>1, <1>2, <1>5, StopsRelates
  <2>2. Related(w.cache, NoAttempt, Pending, spent.edits)
    BY <1>1, <1>2, <2>1 DEF Related
  <2>3. Relates(w.cache, NoAttempt, Elements(nextTurn), spent.edits)
    BY <1>1, <2>2, LikeRelates DEF Like
  <2> QED
    BY <1>2, <1>5, <2>3 DEF Related, Live, Stops
<1> QED
  BY <1>3, <1>4, <1>5 DEF Leaves

\* A turn gives up what it claimed.
LEMMA YieldsRounds ==
  ASSUME Shape, RoundsInv, NEW w, NEW u, NEW ending, Yields(w, u, ending), UNCHANGED <<fiber, spent>>
  PROVE  RoundsInv'
<1>1. /\ Good(w) /\ Closed(w, u, ending)
      /\ pc' # "idle" /\ pc' \notin {"deciding", "entering"}
      /\ cache' = u.cache /\ state' = u.state /\ batch' = <<>>
      /\ UNCHANGED <<nextTurn, breaches>>
  BY DEF Yields, Leaves
<1>2. /\ Related(w.cache, w.state.attempt, Elements(nextTurn), spent.edits)
      /\ Live(w.cache, w.state.attempt) => fiber = "up"
      /\ w.cache.corrupt = cache.corrupt
  BY LeavesRelates DEF Yields
<1>3. /\ Related(u.cache, u.state.attempt, Elements(nextTurn), spent.edits)
      /\ u.cache.corrupt = w.cache.corrupt
      /\ Live(u.cache, u.state.attempt) => Live(w.cache, w.state.attempt)
  BY <1>1, <1>2, ClosedRelates
<1>4. Pending' = Elements(nextTurn)
  BY <1>1, EmptyElements DEF Pending
<1>5. Relates(cache, state.attempt, Pending, spent.edits)'
  BY <1>1, <1>3, <1>4 DEF Related
<1>6. Attended' /\ Fenced'
  BY <1>1, <1>2, <1>3 DEF Attended, Fenced
<1>7. RoundsOnce'
  BY <1>1, EmptyElements DEF RoundsInv, RoundsOnce, RoundsIn, Once
<1>8. Admitted'
  BY <1>1, <1>2, <1>3 DEF RoundsInv, Admitted
<1> QED
  BY <1>5, <1>6, <1>7, <1>8 DEF RoundsInv

LEMMA AgentRounds ==
  ASSUME Shape, RoundsInv, AgentRuns
  PROVE  RoundsInv'
<1>0. UNCHANGED <<fiber, spent, revoked>>
  BY DEF AgentRuns
<1>1. nextTurn \in Seq(Messages) /\ nextStep \in Seq(Prompts) /\ Once("round", nextTurn)
  BY DEF Shape, InboxShape, RoundsInv, RoundsOnce
<1>2. /\ Related(cache, state.attempt, Pending, spent.edits)
      /\ RoundsIn(Elements(nextTurn)) \subseteq RoundsIn(Pending)
  BY RelatedNow
<1>3. CASE Reopens
  <2>1. PICK w : /\ Good(w) /\ w.reserves = "none" /\ w.cache = cache
                 /\ w.state.attempt = state.attempt
                 /\ Opens(w, nextTurn, nextStep)
    BY <1>3 DEF Reopens
  <2>2. Relates(cache, state.attempt, Elements(nextTurn), spent.edits)
    BY <1>2, LikeRelates DEF Like, Related
  <2>3. Related(w.cache, w.state.attempt, Elements(nextTurn), spent.edits)
    BY <1>2, <2>1, <2>2 DEF Related
  <2>4. Live(w.cache, w.state.attempt) => fiber = "up"
    BY <2>1 DEF RoundsInv, Attended
  <2>5. breaches' = breaches
    BY <1>3 DEF Reopens
  <2> QED
    BY <1>0, <1>1, <2>1, <2>3, <2>4, <2>5, OpensRounds
<1>4. CASE \E w, u, ending : Yields(w, u, ending)
  BY <1>0, <1>4, YieldsRounds
<1>5. CASE PassesFence
  <2>1. /\ UNCHANGED <<cache, state, frame, batch, nextTurn, breaches, fiber, spent>> /\ pc' # "idle"
        /\ pc # "idle"
    BY <1>0, <1>5 DEF PassesFence, inbox
  <2>2. HoldsRound' = HoldsRound /\ TheRound' = TheRound /\ Pending' = Pending
    BY <2>1, SameBatch DEF Pending
  <2>3. ValidReservation => Next1 /\ Matches(TheRound, state.attempt)
    <3>1. ValidReservation => Driven(cache) /\ TheRound = RoundOf(cache.goal) /\ Live(cache, state.attempt)
                              /\ Matches(TheRound, state.attempt)
      BY DEF ValidReservation, Live, Matches
    <3> QED
      BY <3>1 DEF Next1, RoundsInv, Relates
  <2>4. Fenced'
    <3>1. Next1' = Next1
      BY <2>1, <2>2 DEF Next1
    <3>2. CASE pc' = "entering" /\ (~HoldsRound \/ excuse' = "unfenced")
      BY <2>2, <3>2 DEF Fenced
    <3>3. CASE ValidReservation
      BY <2>1, <2>2, <2>3, <3>1, <3>3 DEF Fenced, Matches
    <3> QED
      BY <1>5, <3>2, <3>3 DEF PassesFence
  <2>5. Relates(cache, state.attempt, Pending, spent.edits)'
    BY <2>1, <2>2 DEF RoundsInv
  <2>6. Attended' /\ RoundsOnce' /\ Admitted'
    BY <2>1 DEF RoundsInv, Attended, RoundsOnce, Admitted, Once
  <2> QED
    BY <2>4, <2>5, <2>6 DEF RoundsInv
<1>6. CASE pc = "entering" /\ \E entered \in {batch, PromptsOf(batch)} : Enters(entered)
  BY <1>0, <1>6, EntersRounds
<1>7. CASE Steps
  <2>1. /\ UNCHANGED <<cache, state, frame, batch, nextTurn, breaches, excuse, fiber, spent>>
        /\ pc' # "idle" /\ pc' \notin {"deciding", "entering"} /\ pc # "idle"
    BY <1>0, <1>7 DEF Steps
  <2>2. Pending' = Pending
    BY <2>1 DEF Pending
  <2>3. Relates(cache, state.attempt, Pending, spent.edits)'
    BY <2>1, <2>2 DEF RoundsInv
  <2>4. Attended' /\ RoundsOnce' /\ Admitted' /\ Fenced'
    BY <2>1 DEF RoundsInv, Attended, RoundsOnce, Admitted, Once, Fenced
  <2> QED
    BY <2>3, <2>4 DEF RoundsInv
<1>8. CASE \E v : Settled(v)
  BY <1>0, <1>8, SettledRounds
<1> QED
  BY <1>3, <1>4, <1>5, <1>6, <1>7, <1>8, AgentCases

LEMMA RoundsInit ==
  ASSUME Init
  PROVE  RoundsInv
<1>1. PICK cap \in Caps : \E goal \in {NoGoal, GoalOf(1, 1, "active", cap, 0)} :
           /\ cache = [goal |-> goal, armed |-> FALSE, corrupt |-> FALSE]
           /\ nextTurn \in IF goal = NoGoal THEN {<<>>} ELSE {<<>>, <<RoundOf(goal)>>}
  BY DEF Init
<1>2. PICK goal \in {NoGoal, GoalOf(1, 1, "active", cap, 0)} :
           /\ cache = [goal |-> goal, armed |-> FALSE, corrupt |-> FALSE]
           /\ nextTurn \in IF goal = NoGoal THEN {<<>>} ELSE {<<>>, <<RoundOf(goal)>>}
  BY <1>1
<1>3. /\ state.attempt = NoAttempt /\ pc = "idle" /\ batch = <<>> /\ breaches = {} /\ spent.edits = 0
      /\ cache.goal = goal /\ ~Driven(cache) /\ ~cache.corrupt
  BY <1>2 DEF Init, FreshState, Driven
<1>4. Pending = Elements(nextTurn)
  BY <1>3, EmptyElements DEF Pending
<1>5. CASE goal = NoGoal
  <2>1. nextTurn = <<>> /\ Elements(nextTurn) = {}
    BY <1>2, <1>5, EmptyElements
  <2> QED
    BY <1>3, <1>4, <1>5, <2>1, EmptyOnce
    DEF RoundsInv, Relates, Live, Attended, Fenced, RoundsOnce, Admitted, RoundsIn
<1>6. CASE goal = GoalOf(1, 1, "active", cap, 0)
  <2> DEFINE m == RoundOf(goal)
  <2>1. m.id = 1 /\ m.revision = 1 /\ m.round = 1 /\ goal.id = 1 /\ goal.revision = 1 /\ goal.rounds = 0 /\ goal.phase = "active"
    BY <1>6 DEF RoundOf, GoalOf
  <2>2. nextTurn = <<>> \/ nextTurn = <<m>>
    BY <1>2
  <2> HIDE DEF m
  <2>3. Elements(nextTurn) \subseteq {m} /\ Once("round", nextTurn)
    BY <2>2, EmptyOnce, EmptyElements DEF Elements, Once
  <2>4. Minted(1, cache, spent.edits) /\ Past(m, cache, spent.edits)
    BY <1>3, <2>1 DEF Minted, Past, Behind
  <2> QED
    BY <1>3, <1>4, <2>1, <2>3, <2>4, EmptyElements
    DEF RoundsInv, Relates, Live, Attended, Fenced, RoundsOnce, Admitted, RoundsIn
<1> QED
  BY <1>2, <1>5, <1>6

LEMMA RoundsNext ==
  ASSUME Shape, RoundsInv, [Next]_vars
  PROVE  RoundsInv'
<1>1. CASE Mutate
  BY <1>1, MutateRounds
<1>2. CASE \E queue \in {"next-turn", "next-step"}, wakeup \in BOOLEAN : Send(queue, wakeup)
  BY <1>2, SendRounds
<1>3. CASE \E keepInbox \in BOOLEAN : Cancel(keepInbox)
  BY <1>3, CancelRounds
<1>4. CASE AgentRuns
  BY <1>4, AgentRounds
<1>5. CASE Flushed
  BY <1>5, FlushedIs, LoopRounds
<1>6. CASE Retire
  BY <1>6, RetireIs, LoopRounds
<1>7. CASE Unload \/ Unloaded \/ Load
  BY <1>7, UnloadRounds, UnloadedRounds, LoadRounds
<1>8. CASE UNCHANGED vars
  <2>1. UNCHANGED <<cache, state, frame, pc, batch, nextTurn, breaches, excuse, fiber, spent>>
    BY <1>8 DEF vars, turn, inbox, history
  <2>2. HoldsRound' = HoldsRound /\ TheRound' = TheRound /\ Pending' = Pending
    BY <2>1, SameBatch DEF Pending
  <2>3. Relates(cache, state.attempt, Pending, spent.edits)'
    BY <2>1, <2>2 DEF RoundsInv
  <2>4. Attended' /\ RoundsOnce' /\ Admitted' /\ Fenced'
    BY <2>1, <2>2 DEF RoundsInv, Attended, RoundsOnce, Admitted, Once, Fenced, Next1
  <2> QED
    BY <2>3, <2>4 DEF RoundsInv
<1> QED
  BY <1>1, <1>2, <1>3, <1>4, <1>5, <1>6, <1>7, <1>8 DEF Next

LEMMA RoundsValid ==
  ASSUME Shape, RoundsInv
  PROVE  RoundsAreValid
<1> DEFINE pending == nextTurn \o batch
<1>1. /\ nextTurn \in Seq(Messages) /\ batch \in Seq(Messages) /\ LoneRound(batch)
      /\ Once("round", nextTurn) /\ RoundsIn(Elements(batch)) \cap Elements(nextTurn) = {}
  BY DEF Shape, InboxShape, TurnShape, RoundsInv, RoundsOnce
<1>2. /\ Len(pending) = Len(nextTurn) + Len(batch) /\ Len(nextTurn) \in Nat /\ Len(batch) \in Nat
      /\ \A i \in 1 .. Len(nextTurn) + Len(batch) :
           pending[i] = IF i <= Len(nextTurn) THEN nextTurn[i] ELSE batch[i - Len(nextTurn)]
      /\ DOMAIN nextTurn = 1 .. Len(nextTurn) /\ DOMAIN batch = 1 .. Len(batch) /\ DOMAIN pending = 1 .. Len(pending)
  BY <1>1, ConcatProperties, LenProperties
<1> HIDE DEF pending
<1>3. ASSUME NEW i \in DOMAIN pending, i > Len(nextTurn)
      PROVE  i - Len(nextTurn) \in DOMAIN batch /\ pending[i] = batch[i - Len(nextTurn)]
  BY <1>2, <1>3
<1>4. ASSUME NEW i \in DOMAIN pending, i <= Len(nextTurn)
      PROVE  i \in DOMAIN nextTurn /\ pending[i] = nextTurn[i]
  BY <1>2, <1>4
<1>5. ASSUME NEW i \in DOMAIN pending, NEW j \in DOMAIN pending, pending[i].kind = "round", pending[i] = pending[j],
             i > Len(nextTurn), j <= Len(nextTurn)
      PROVE  FALSE
  <2>1. pending[i] \in RoundsIn(Elements(batch)) /\ pending[j] \in Elements(nextTurn)
    BY <1>3, <1>4, <1>5 DEF RoundsIn, Elements
  <2> QED
    BY <1>1, <1>5, <2>1
<1>6. ASSUME NEW i \in DOMAIN pending, NEW j \in DOMAIN pending, pending[i].kind = "round", pending[i] = pending[j]
      PROVE  i = j
  <2>1. CASE i <= Len(nextTurn) /\ j <= Len(nextTurn)
    BY <1>1, <1>4, <1>6, <2>1 DEF Once
  <2>2. CASE i > Len(nextTurn) /\ j > Len(nextTurn)
    <3>1. i - Len(nextTurn) = Len(batch) /\ j - Len(nextTurn) = Len(batch)
      BY <1>1, <1>3, <1>6, <2>2 DEF LoneRound
    <3> QED
      BY <1>2, <3>1
  <2>3. i \in Nat /\ j \in Nat
    BY <1>2
  <2> QED
    BY <1>2, <1>5, <1>6, <2>1, <2>2, <2>3
<1>7. "stale" \notin breaches /\ (cache.corrupt => breaches \cap {"slipped", "unfenced"} # {})
  BY DEF RoundsInv, Admitted
<1> QED
  BY <1>6, <1>7 DEF RoundsAreValid, pending

\* A round enters a step only as the next one of an armed, active goal at the
\* revision it was reserved for, the fold accepts every log, and no round is
\* pending twice, but for the two exceptions the model names: the identity
\* checks of validReservation and the fold of the goal service agree
\* (src/packages/goal/goal-round-driver/src/index.ts, goal/src/fold.ts).
THEOREM RoundsCorrect == Spec => []RoundsAreValid
<1>1. Init => Shape /\ RoundsInv
  BY ShapeInit, RoundsInit
<1>2. (Shape /\ RoundsInv) /\ [Next]_vars => (Shape /\ RoundsInv)'
  BY ShapeNext, RoundsNext
<1>3. Shape /\ RoundsInv => RoundsAreValid
  BY RoundsValid
<1> QED
  BY <1>1, <1>2, <1>3, PTL DEF Spec
-----------------------------------------------------------------------------
(* No round overtakes a prompt: Unwaited is inductive, given the two above *)

LEMMA ExcuseIs ==
  ASSUME Shape
  PROVE  excuse \in {"none", "slipped", "unfenced"}
BY DEF Shape, HistoryShape

LEMMA OnceFresh ==
  ASSUME NEW s \in Seq(Messages), NEW m \in Messages, m.kind = "round", Once("round", Append(s, m))
  PROVE  m \notin Elements(s)
<1> DEFINE t == Append(s, m)
<1>1. /\ t[Len(s) + 1] = m /\ Len(s) \in Nat /\ \A i \in 1 .. Len(s) : t[i] = s[i]
      /\ DOMAIN s = 1 .. Len(s) /\ DOMAIN t = 1 .. Len(s) + 1
  BY AppendProperties, LenProperties
<1> HIDE DEF t
<1>2. ASSUME NEW i \in DOMAIN s, s[i] = m PROVE FALSE
  <2>1. i \in DOMAIN t /\ Len(s) + 1 \in DOMAIN t /\ t[i] = t[Len(s) + 1] /\ t[i].kind = "round"
    BY <1>1, <1>2
  <2>2. i = Len(s) + 1
    BY <2>1 DEF Once, t
  <2> QED
    BY <1>1, <2>2
<1> QED
  BY <1>2 DEF Elements

\* A reservation goes behind everything that is queued.
LEMMA AppendAlone ==
  ASSUME NEW s \in Seq(Messages), NEW a, a.message \in Messages, a.message \notin Elements(s)
  PROVE  Alone(a, Append(s, a.message))
<1> DEFINE t == Append(s, a.message)
<1>1. /\ Len(s) \in Nat /\ \A i \in 1 .. Len(s) : t[i] = s[i]
      /\ DOMAIN s = 1 .. Len(s) /\ DOMAIN t = 1 .. Len(s) + 1
  BY AppendProperties, LenProperties
<1> HIDE DEF t
<1>2. ASSUME NEW i \in DOMAIN t, NEW j \in DOMAIN t, t[i] = a.message, i < j PROVE FALSE
  <2>1. i \in DOMAIN s /\ s[i] = a.message
    BY <1>1, <1>2
  <2> QED
    BY <2>1 DEF Elements
<1> QED
  BY <1>2 DEF Alone, t

LEMMA TailAlone ==
  ASSUME NEW s \in Seq(Messages), s # <<>>, NEW a, Alone(a, s)
  PROVE  /\ Alone(a, Tail(s))
         /\ a.phase = "queued" /\ ~a.stale /\ Head(s) = a.message => PromptsIn(Elements(Tail(s))) = {}
<1> DEFINE t == Tail(s)
<1>1. /\ Len(t) = Len(s) - 1 /\ Len(s) \in Nat \ {0} /\ Head(s) = s[1]
      /\ DOMAIN s = 1 .. Len(s) /\ DOMAIN t = 1 .. Len(t) /\ \A i \in 1 .. Len(t) : t[i] = s[i + 1]
  BY TailElements
<1> HIDE DEF t
<1>2. \A i \in DOMAIN t : i + 1 \in DOMAIN s /\ t[i] = s[i + 1] /\ i \in Nat \ {0}
  BY <1>1
<1>3. Alone(a, t)
  <2> SUFFICES ASSUME a.phase = "queued", ~a.stale, NEW i \in DOMAIN t, NEW j \in DOMAIN t, t[i] = a.message, i < j
               PROVE  t[j].kind = "round"
    BY DEF Alone
  <2>1. /\ i + 1 \in DOMAIN s /\ j + 1 \in DOMAIN s /\ s[i + 1] = a.message /\ i + 1 < j + 1 /\ t[j] = s[j + 1]
    BY <1>2
  <2> QED
    BY <2>1 DEF Alone
<1>4. ASSUME a.phase = "queued", ~a.stale, Head(s) = a.message PROVE PromptsIn(Elements(t)) = {}
  <2>1. ASSUME NEW j \in DOMAIN t PROVE t[j].kind = "round"
    <3>1. 1 \in DOMAIN s /\ s[1] = a.message /\ j + 1 \in DOMAIN s /\ 1 < j + 1 /\ t[j] = s[j + 1]
      BY <1>1, <1>2, <1>4
    <3> QED
      BY <1>4, <3>1 DEF Alone
  <2> QED
    BY <2>1 DEF PromptsIn, Elements
<1> QED
  BY <1>3, <1>4 DEF t

LEMMA OpensUnwaited ==
  ASSUME Shape, NEW w, Good(w), NEW turns \in Seq(Messages), NEW steps \in Seq(Prompts),
         Opens(w, turns, steps), Once("round", turns), Alone(w.state.attempt, turns),
         Claims(w.state.attempt, turns), "overtook" \notin breaches'
  PROVE  Unwaited'
<1> DEFINE a == w.state.attempt
           b == state'.attempt
<1>1. /\ nextTurn' \in Seq(Messages)
      /\ turns = <<>> => nextTurn' = <<>> /\ Elements(batch') = Elements(steps)
      /\ turns # <<>> => nextTurn' = Tail(turns) /\ Elements(batch') = Elements(steps) \cup {Head(turns)}
      /\ RoundsIn(Elements(steps)) = {}
      /\ state' = Claimed(w.state, Elements(batch'))
  BY ClaimsOne
<1>2. /\ pc' = "claimed" /\ w.state \in States /\ a \in Attempts \cup {NoAttempt}
      /\ fiber = "down" => a = NoAttempt
      /\ waiting' = {} \/ waiting' = PromptsIn(Elements(nextTurn'))
  <2>1. w.state \in States /\ (fiber = "down" => w.state = FreshState)
    BY WorldIs DEF Good
  <2>2. w.state.attempt \in Attempts \cup {NoAttempt}
    BY <2>1 DEF States
  <2>3. fiber = "down" => w.state.attempt = NoAttempt
    BY <2>1 DEF FreshState
  <2>4. pc' = "claimed"
    BY DEF Opens
  <2>5. waiting' = {} \/ waiting' = PromptsIn(Elements(nextTurn'))
    BY DEF Opens
  <2> QED
    BY <2>1, <2>2, <2>3, <2>4, <2>5
<1>3. /\ Like(a, b) /\ (a # NoAttempt => b.stale = a.stale)
      /\ \/ b = a /\ (a = NoAttempt \/ a.message \notin Elements(batch'))
         \/ a # NoAttempt /\ a.message \in Elements(batch') /\ b.phase = "claimed"
  BY <1>1, <1>2, ClaimedIs
<1> HIDE DEF a, b
<1>4. CASE turns = <<>>
  <2>1. nextTurn' = <<>> /\ Elements(<<>>) = {} /\ RoundsIn(Elements(batch')) = {}
    BY <1>1, <1>4, EmptyElements
  <2>2. Alone(b, <<>>) /\ Claims(b, <<>>)
    BY <2>1 DEF Alone, Claims
  <2> QED
    BY <1>2, <2>1, <2>2 DEF Unwaited, HoldsRound, b
<1>5. CASE turns # <<>>
  <2>1. /\ Elements(turns) = {Head(turns)} \cup Elements(Tail(turns))
        /\ nextTurn' = Tail(turns) /\ Elements(batch') = Elements(steps) \cup {Head(turns)}
    BY <1>1, <1>5, TailElements
  <2>2. a # NoAttempt => a.message.kind = "round" /\ b.message = a.message
    BY <1>2, <1>3, AttemptIs, MessageIs DEF Like
  <2>3. a # NoAttempt /\ a.message \in Elements(batch') => a.message = Head(turns)
    BY <1>1, <2>1, <2>2 DEF RoundsIn
  <2>4. /\ Alone(a, Tail(turns)) /\ Once("round", Tail(turns))
        /\ a.phase = "queued" /\ ~a.stale /\ Head(turns) = a.message => PromptsIn(Elements(Tail(turns))) = {}
        /\ Head(turns).kind = "round" => Head(turns) \notin Elements(Tail(turns))
    BY <1>5, TailAlone, TailOnce DEF a
  <2>5. Alone(b, nextTurn')
    BY <1>3, <2>1, <2>4 DEF Alone
  <2>6. Claims(b, nextTurn')
    <3>1. CASE b = a
      BY <2>1, <3>1 DEF Claims, a
    <3>2. CASE a # NoAttempt /\ a.message \in Elements(batch')
      BY <2>1, <2>2, <2>3, <2>4, <3>2 DEF Claims
    <3> QED
      BY <1>3, <3>1, <3>2
  <2>7. ASSUME HoldsRound', b.phase = "claimed", ~b.stale, TheRound' = b.message
        PROVE  waiting' = {}
    <3>1. TheRound' \in RoundsIn(Elements(batch'))
      BY <2>7 DEF HoldsRound, TheRound
    <3>2. a # NoAttempt
      BY <1>2, <1>3, <2>7, AttemptIs DEF Like
    <3>3. a.message \in Elements(batch') /\ a.message = Head(turns) /\ a.message \in Elements(turns)
      BY <2>1, <2>2, <2>3, <2>7, <3>1, <3>2 DEF RoundsIn
    <3>4. a.phase \notin {"claimed", "admitted"}
      BY <3>3 DEF Claims, a
    <3>5. a.phase = "queued" /\ ~a.stale
      BY <1>2, <1>3, <2>7, <3>2, <3>4 DEF Attempts
    <3> QED
      BY <1>2, <2>1, <2>4, <3>3, <3>5
  <2> QED
    BY <1>2, <2>5, <2>6, <2>7 DEF Unwaited, b
<1> QED
  BY <1>4, <1>5

LEMMA InsertsAlone ==
  ASSUME Shape, RoundsInv', NEW w, Good(w), Inserts(w, nextTurn),
         w.reserves = "none" => Alone(w.state.attempt, nextTurn) /\ Claims(w.state.attempt, nextTurn)
  PROVE  /\ Alone(w.state.attempt, nextTurn') /\ Claims(w.state.attempt, nextTurn')
         /\ "overtook" \in breaches' => "overtook" \in breaches
<1>1. /\ w.reserves = "none" => nextTurn' = nextTurn
      /\ breaches' = breaches \cup (IF w.reserves # "none" /\ revoked THEN {"restarted"} ELSE {})
      /\ w.reserves # "none" =>
           /\ nextTurn' = Append(nextTurn, w.state.attempt.message)
           /\ w.state.attempt.message \in Messages
  BY InsertsShape
<1>2. CASE w.reserves = "none"
  BY <1>1, <1>2
<1>3. CASE w.reserves # "none"
  <2>1. w.state.attempt.message.kind = "round" /\ w.state.attempt.phase = "queued"
    BY <1>3, AttemptIs, MessageIs DEF Good
  <2>2. nextTurn \in Seq(Messages) /\ Once("round", Append(nextTurn, w.state.attempt.message))
    BY <1>1, <1>3 DEF Shape, InboxShape, RoundsInv, RoundsOnce, Once
  <2>3. w.state.attempt.message \notin Elements(nextTurn)
    BY <1>1, <1>3, <2>1, <2>2, OnceFresh
  <2>4. Alone(w.state.attempt, Append(nextTurn, w.state.attempt.message))
    BY <1>1, <1>3, <2>2, <2>3, AppendAlone
  <2> QED
    BY <1>1, <1>3, <2>1, <2>4 DEF Claims
<1> QED
  BY <1>2, <1>3

\* The attempt as far as waiting goes.
Keeps(a, b) == Like(a, b) /\ b.phase = a.phase /\ (a # NoAttempt => (a.stale => b.stale))

LEMMA KeepsAlone ==
  ASSUME NEW a \in Attempts \cup {NoAttempt}, NEW b, Keeps(a, b), NEW s, Alone(a, s), Claims(a, s)
  PROVE  /\ Alone(b, s) /\ Claims(b, s) /\ Alone(b, <<>>) /\ Claims(b, <<>>)
<1>1. a # NoAttempt => b.message = a.message
  BY AttemptIs DEF Keeps, Like
<1>2. a = NoAttempt => b.phase = "none"
  BY AttemptIs DEF Keeps
<1> QED
  BY <1>1, <1>2, EmptyElements DEF Alone, Claims, Keeps

LEMMA NoneAlone == \A s : Alone(NoAttempt, s) /\ Claims(NoAttempt, s)
BY AttemptIs DEF Alone, Claims

LEMMA DrivesKeeps ==
  ASSUME NEW w \in Worlds, NEW r, Drives(w, r), r.reserves = "none"
  PROVE  r.state.attempt = w.state.attempt \/ r.state.attempt = NoAttempt
BY DEF Drives

LEMMA ClosedKeeps ==
  ASSUME NEW w \in Worlds, NEW u, NEW ending, Closed(w, u, ending)
  PROVE  Keeps(w.state.attempt, u.state.attempt)
<1>1. w.state.attempt \in Attempts \cup {NoAttempt}
  BY WorldIs
<1>2. CASE u.state = w.state
  BY <1>1, <1>2 DEF Keeps, Like
<1>3. CASE w.state.attempt \in Attempts /\ u.state.attempt = [w.state.attempt EXCEPT !.cancelled = TRUE]
  BY <1>3 DEF Keeps, Like, Attempts
<1> QED
  BY <1>2, <1>3 DEF Closed

\* A turn that gives up what it claimed.
LEMMA YieldsUnwaited ==
  ASSUME Unwaited, NEW w, NEW u, NEW ending, Yields(w, u, ending)
  PROVE  Unwaited'
<1>1. /\ w \in Worlds /\ Closed(w, u, ending)
      /\ w.state.attempt = state.attempt \/ w.state.attempt = NoAttempt
      /\ pc' \notin {"claimed", "deciding", "entering"} /\ state' = u.state
      /\ UNCHANGED <<nextTurn, breaches>>
  BY DEF Yields, Leaves, Good
<1>2. w.state.attempt \in Attempts \cup {NoAttempt}
  BY <1>1, WorldIs
<1>3. Alone(w.state.attempt, nextTurn) /\ Claims(w.state.attempt, nextTurn)
  BY <1>1, NoneAlone DEF Unwaited
<1>4. Keeps(w.state.attempt, u.state.attempt)
  BY <1>1, ClosedKeeps
<1>5. Alone(u.state.attempt, nextTurn) /\ Claims(u.state.attempt, nextTurn)
  BY <1>2, <1>3, <1>4, KeepsAlone
<1> QED
  BY <1>1, <1>5 DEF Unwaited

\* The agent leaves its turn.
LEMMA SettledUnwaited ==
  ASSUME Shape, RoundsInv, RoundsInv', Unwaited, NEW v, Settled(v)
  PROVE  Unwaited'
<1>1. /\ nextTurn \in Seq(Messages) /\ nextStep \in Seq(Prompts) /\ Once("round", nextTurn)
      /\ "overtook" \notin breaches /\ Good(v)
      /\ Alone(state.attempt, nextTurn) /\ Claims(state.attempt, nextTurn)
  BY DEF Shape, InboxShape, RoundsInv, RoundsOnce, Unwaited, Settled
<1>2. v.reserves = "none" => v.state.attempt = state.attempt \/ v.state.attempt = NoAttempt
  <2>1. PICK x \in Worlds : x.state = state /\ x.reserves = "none" /\ Idles(x, v)
    BY DEF Settled
  <2> QED
    BY <2>1 DEF Idles, Drives
<1>3. v.reserves = "none" => Alone(v.state.attempt, nextTurn) /\ Claims(v.state.attempt, nextTurn)
  BY <1>1, <1>2, NoneAlone
<1>4. CASE v.reserves = "none" /\ Opens(v, nextTurn, nextStep) /\ UNCHANGED breaches
  BY <1>1, <1>3, <1>4, OpensUnwaited
<1>5. CASE Rests(v, nextStep)
  <2>1. Inserts(v, nextTurn) /\ state' = v.state /\ pc' = "idle"
    BY <1>5 DEF Rests
  <2>2. /\ Alone(v.state.attempt, nextTurn') /\ Claims(v.state.attempt, nextTurn')
        /\ "overtook" \in breaches' => "overtook" \in breaches
    BY <1>1, <1>3, <2>1, InsertsAlone
  <2> QED
    BY <1>1, <2>1, <2>2 DEF Unwaited
<1> QED
  BY <1>4, <1>5 DEF Settled

\* Steps that leave the turn alone.
LEMMA MarksUnwaited ==
  ASSUME Shape, Unwaited, Keeps(state.attempt, state'.attempt), nextTurn' \in {nextTurn, <<>>},
         UNCHANGED <<pc, batch, waiting>>, "overtook" \notin breaches',
         excuse = "unfenced" => excuse' = "unfenced"
  PROVE  Unwaited'
<1>1. state.attempt \in Attempts \cup {NoAttempt}
  BY DEF Shape, DriverShape, States
<1>2. Alone(state'.attempt, nextTurn') /\ Claims(state'.attempt, nextTurn')
  BY <1>1, KeepsAlone DEF Unwaited
<1>3. HoldsRound' = HoldsRound /\ TheRound' = TheRound
  BY SameBatch
<1>4. state'.attempt.phase = "claimed" =>
        state.attempt # NoAttempt /\ state'.attempt.message = state.attempt.message
  BY <1>1, AttemptIs DEF Keeps, Like
<1>5. state'.attempt.phase = "claimed" /\ ~state'.attempt.stale => state.attempt.phase = "claimed" /\ ~state.attempt.stale
  BY <1>4 DEF Keeps
<1> QED
  BY <1>2, <1>3, <1>4, <1>5 DEF Unwaited

LEMMA SameKeeps == \A a \in Attempts \cup {NoAttempt} : Keeps(a, a)
BY DEF Keeps, Like

LEMMA SendUnwaited ==
  ASSUME Shape, RoundsInv, Unwaited, NEW queue \in {"next-turn", "next-step"}, NEW wakeup \in BOOLEAN,
         Send(queue, wakeup)
  PROVE  Unwaited'
<1>1. PICK target \in {"next-turn", "next-step"}, turns \in Seq(Messages), steps \in Seq(Prompts) :
           /\ spent.prompts < MaxPrompts
           /\ target = "next-turn" => turns = Append(nextTurn, Prompt(spent.prompts + 1)) /\ steps = nextStep
           /\ target = "next-step" => turns = nextTurn /\ steps = Append(nextStep, Prompt(spent.prompts + 1))
           /\ \/ /\ pc = "idle"
                 /\ \E w : /\ Good(w) /\ w.reserves = "none" /\ w.cache = cache
                           /\ w.state.attempt = Inserted(state, target).attempt
                           /\ Opens(w, turns, steps)
              \/ /\ cache' = cache /\ state' = Inserted(state, target)
                 /\ nextTurn' = turns /\ nextStep' = steps
                 /\ UNCHANGED <<pc, frame, batch, aborted, waiting, excuse>>
           /\ UNCHANGED <<fiber, revoked, served, dropped, breaches>>
  BY SendIs
<1>2. turns = nextTurn \/ turns = Append(nextTurn, Prompt(spent.prompts + 1))
  BY <1>1
<1>3. /\ Once("round", turns)
      /\ Elements(turns) \subseteq Elements(nextTurn) \cup {Prompt(spent.prompts + 1)}
      /\ Prompt(spent.prompts + 1) \in Prompts
  BY <1>1, <1>2, SentLists
<1> DEFINE a == state.attempt
           b == Inserted(state, target).attempt
<1>4. /\ Like(a, b) /\ b.phase = a.phase /\ a \in Attempts \cup {NoAttempt}
      /\ a.phase = "queued" => b.stale = (a.stale \/ (fiber # "down" /\ target = "next-turn"))
      /\ a.phase # "queued" => b = a
      /\ fiber = "down" => a = NoAttempt
  <2>1. state \in States /\ (fiber = "down" => state = FreshState)
    BY DEF Shape, DriverShape
  <2> QED
    BY <2>1, InsertedIs DEF States, FreshState
<1> HIDE DEF b
<1>5. Keeps(a, b)
  BY <1>4 DEF Keeps
<1> HIDE DEF a
<1>6. Alone(a, nextTurn) /\ Claims(a, nextTurn) /\ "overtook" \notin breaches'
  BY <1>1 DEF Unwaited, a
<1>7. Alone(b, turns)
  <2>1. CASE target = "next-step"
    BY <1>1, <1>4, <1>5, <1>6, <2>1, KeepsAlone
  <2>2. CASE target = "next-turn"
    <3>1. a.phase = "queued" => fiber # "down"
      BY <1>4, AttemptIs
    <3> QED
      BY <1>4, <2>2, <3>1 DEF Alone
  <2> QED
    BY <2>1, <2>2
<1>8. Claims(b, turns)
  <2>1. Claims(b, nextTurn)
    BY <1>4, <1>5, <1>6, KeepsAlone
  <2>2. b.phase # "none" => b.message # Prompt(spent.prompts + 1)
    BY <1>3, <1>4, AttemptIs, MessageIs DEF Like
  <2> QED
    BY <1>3, <2>1, <2>2 DEF Claims
<1>9. CASE \E w : /\ Good(w) /\ w.reserves = "none" /\ w.cache = cache
                  /\ w.state.attempt = b
                  /\ Opens(w, turns, steps)
  BY <1>3, <1>6, <1>7, <1>8, <1>9, OpensUnwaited
<1>10. CASE /\ state'.attempt = b /\ nextTurn' = turns
            /\ UNCHANGED <<pc, frame, batch, aborted, waiting, excuse>>
  <2>1. HoldsRound' = HoldsRound /\ TheRound' = TheRound
    BY <1>10, SameBatch
  <2>2. b.phase = "claimed" => b = state.attempt
    BY <1>4 DEF a
  <2> QED
    BY <1>6, <1>7, <1>8, <1>10, <2>1, <2>2 DEF Unwaited
<1> QED
  BY <1>1, <1>9, <1>10 DEF b

\* The driver's loop while the agent stands elsewhere.
LEMMA LoopUnwaited ==
  ASSUME Shape, RoundsInv, RoundsInv', Unwaited, NEW v, NEW w, LoopRuns(v, w)
  PROVE  Unwaited'
<1>1. /\ Good(w) /\ Inserts(w, nextTurn) /\ state' = w.state /\ UNCHANGED <<pc, batch, waiting>>
      /\ v.idle = (pc = "idle") /\ v.state.attempt = state.attempt /\ Drives(v, w)
      /\ excuse = "unfenced" => excuse' = "unfenced"
  BY DEF LoopRuns, Continues, Slips
<1>2. w.reserves = "none" => w.state.attempt = state.attempt \/ w.state.attempt = NoAttempt
  BY <1>1 DEF Drives
<1>3. w.reserves = "none" => Alone(w.state.attempt, nextTurn) /\ Claims(w.state.attempt, nextTurn)
  BY <1>2, NoneAlone DEF Unwaited
<1>4. /\ Alone(w.state.attempt, nextTurn') /\ Claims(w.state.attempt, nextTurn')
      /\ "overtook" \notin breaches'
  BY <1>1, <1>3, InsertsAlone DEF Unwaited
<1>5. HoldsRound' = HoldsRound /\ TheRound' = TheRound
  BY <1>1, SameBatch
<1>6. CASE pc = "idle"
  BY <1>1, <1>4, <1>6 DEF Unwaited
<1>7. CASE pc # "idle"
  <2>1. w.state.attempt = state.attempt
    BY <1>1, <1>7 DEF Drives
  <2> QED
    BY <1>1, <1>4, <1>5, <2>1 DEF Unwaited
<1> QED
  BY <1>6, <1>7

\* A round is admitted with nothing waiting for it, unless no fence saw it.
LEMMA EntersUnwaited ==
  ASSUME Shape, RoundsInv, Unwaited, pc = "entering", NEW entered \in {batch, PromptsOf(batch)},
         Enters(entered)
  PROVE  Unwaited'
<1>1. /\ pc' = "stepping" /\ nextTurn' = nextTurn /\ breaches' = breaches \cup Breach(entered)
  BY DEF Enters, inbox
<1>2. /\ RoundsIn(Elements(entered)) # {} =>
           /\ HoldsRound /\ TheRound \in Elements(batch)
           /\ \/ state' = state
              \/ /\ state.attempt \in Attempts /\ state.attempt.message = TheRound
                 /\ Like(state.attempt, state'.attempt) /\ state'.attempt.phase = "admitted"
      /\ RoundsIn(Elements(entered)) = {} => state' = state
  BY EntersIs
<1>3. "overtook" \notin breaches'
  <2>1. CASE RoundsIn(Elements(entered)) = {}
    BY <1>1, <2>1 DEF Breach, Unwaited
  <2>2. CASE RoundsIn(Elements(entered)) # {}
    <3>1. excuse # "unfenced" => waiting \cap Elements(nextTurn) = {}
      BY <1>2, <2>2 DEF Unwaited
    <3>2. excuse # "overtook"
      BY ExcuseIs
    <3>3. "overtook" \notin Breach(entered)
      BY <3>1, <3>2 DEF Breach
    <3> QED
      BY <1>1, <3>3 DEF Unwaited
  <2> QED
    BY <2>1, <2>2
<1>4. CASE state' = state
  BY <1>1, <1>3, <1>4 DEF Unwaited
<1>5. CASE /\ RoundsIn(Elements(entered)) # {} /\ state.attempt \in Attempts /\ state.attempt.message = TheRound
           /\ Like(state.attempt, state'.attempt) /\ state'.attempt.phase = "admitted"
  <2>1. TheRound \in RoundsIn(Elements(batch)) /\ TheRound \notin Elements(nextTurn)
    BY <1>2, <1>5, HeldRound DEF RoundsInv, RoundsOnce
  <2>2. state'.attempt.message = TheRound
    BY <1>5, AttemptIs DEF Like
  <2> QED
    BY <1>1, <1>3, <1>5, <2>1, <2>2 DEF Unwaited, Alone, Claims
<1> QED
  BY <1>2, <1>4, <1>5

LEMMA PassesUnwaited ==
  ASSUME Shape, Unwaited, PassesFence
  PROVE  Unwaited'
<1>1. /\ UNCHANGED <<state, batch, nextTurn, waiting, breaches>>
      /\ \/ pc = "claimed" /\ pc' = "entering" /\ (~HoldsRound \/ excuse' = "unfenced")
         \/ pc = "claimed" /\ pc' = "deciding" /\ ValidReservation
         \/ pc = "deciding" /\ pc' = "entering" /\ excuse' = excuse
  BY DEF PassesFence, inbox
<1>2. HoldsRound' = HoldsRound /\ TheRound' = TheRound
  BY <1>1, SameBatch
<1>3. ValidReservation =>
        state.attempt.phase = "claimed" /\ ~state.attempt.stale /\ state.attempt.message = TheRound
  BY DEF ValidReservation, Matches
<1>4. pc = "deciding" => HoldsRound
  BY DEF Shape, TurnShape
<1> QED
  BY <1>1, <1>2, <1>3, <1>4 DEF Unwaited

LEMMA AgentUnwaited ==
  ASSUME Shape, RoundsInv, RoundsInv', Unwaited, AgentRuns
  PROVE  Unwaited'
<1>1. CASE Reopens
  <2>1. /\ nextTurn \in Seq(Messages) /\ nextStep \in Seq(Prompts) /\ Once("round", nextTurn)
        /\ "overtook" \notin breaches' /\ Alone(state.attempt, nextTurn) /\ Claims(state.attempt, nextTurn)
    BY <1>1 DEF Reopens, Shape, InboxShape, RoundsInv, RoundsOnce, Unwaited
  <2>2. PICK w : Good(w) /\ w.state.attempt = state.attempt /\ Opens(w, nextTurn, nextStep)
    BY <1>1 DEF Reopens
  <2> QED
    BY <2>1, <2>2, OpensUnwaited
<1>2. CASE \E w, u, ending : Yields(w, u, ending)
  BY <1>2, YieldsUnwaited
<1>3. CASE PassesFence
  BY <1>3, PassesUnwaited
<1>4. CASE pc = "entering" /\ \E entered \in {batch, PromptsOf(batch)} : Enters(entered)
  BY <1>4, EntersUnwaited
<1>5. CASE Steps
  BY <1>5 DEF Steps, Unwaited
<1>6. CASE \E v : Settled(v)
  BY <1>6, SettledUnwaited
<1> QED
  BY <1>1, <1>2, <1>3, <1>4, <1>5, <1>6, AgentCases

LEMMA UnwaitedNext ==
  ASSUME Shape, RoundsInv, RoundsInv', Unwaited, [Next]_vars
  PROVE  Unwaited'
<1>1. state.attempt \in Attempts \cup {NoAttempt} /\ "overtook" \notin breaches
  BY DEF Shape, DriverShape, States, Unwaited
<1>2. CASE Mutate
  <2>1. /\ state'.attempt = state.attempt /\ excuse' = (IF Slips THEN "slipped" ELSE excuse)
        /\ UNCHANGED <<pc, batch, nextTurn, waiting, breaches>>
    BY <1>2, MutateIs DEF turn, inbox
  <2>2. excuse = "unfenced" => excuse' = "unfenced"
    BY <2>1 DEF Slips
  <2> QED
    BY <1>1, <2>1, <2>2, SameKeeps, MarksUnwaited
<1>3. CASE \E queue \in {"next-turn", "next-step"}, wakeup \in BOOLEAN : Send(queue, wakeup)
  BY <1>3, SendUnwaited
<1>4. CASE \E keepInbox \in BOOLEAN : Cancel(keepInbox)
  <2>1. PICK keepInbox \in BOOLEAN : Cancel(keepInbox)
    BY <1>4
  <2>2. /\ \E gone : state' = Discarded(state, gone)
        /\ nextTurn' \in {nextTurn, <<>>} /\ UNCHANGED <<pc, batch, waiting, excuse, breaches>>
    BY <2>1 DEF Cancel, inbox
  <2>3. state \in States
    BY DEF Shape, DriverShape
  <2>4. Keeps(state.attempt, state'.attempt)
    BY <2>2, <2>3, DiscardedIs DEF Keeps
  <2> QED
    BY <1>1, <2>2, <2>4, MarksUnwaited
<1>5. CASE AgentRuns
  BY <1>5, AgentUnwaited
<1>6. CASE Flushed \/ Retire
  BY <1>6, FlushedIs, RetireIs, LoopUnwaited
<1>7. CASE Unload
  <2>1. /\ Like(state.attempt, state'.attempt) /\ state'.attempt.phase = state.attempt.phase
        /\ state.attempt # NoAttempt => state'.attempt.stale
        /\ excuse' = (IF Slips THEN "slipped" ELSE excuse)
        /\ nextTurn' = nextTurn \/ nextTurn' = <<>>
        /\ UNCHANGED <<pc, batch, waiting, breaches>>
    BY <1>7, UnloadIs DEF inbox
  <2>2. Keeps(state.attempt, state'.attempt) /\ (excuse = "unfenced" => excuse' = "unfenced")
    BY <2>1 DEF Keeps, Slips
  <2> QED
    BY <1>1, <2>1, <2>2, MarksUnwaited
<1>8. CASE Unloaded
  <2>1. state'.attempt = NoAttempt /\ UNCHANGED <<pc, batch, nextTurn, waiting, excuse, breaches>>
    BY <1>8 DEF Unloaded, FreshState, turn, inbox, history
  <2>2. HoldsRound' = HoldsRound /\ TheRound' = TheRound
    BY <2>1, SameBatch
  <2> QED
    BY <2>1, <2>2, NoneAlone, AttemptIs DEF Unwaited
<1>9. CASE Load
  <2>1. /\ state' = state /\ excuse' = (IF Slips THEN "slipped" ELSE excuse)
        /\ UNCHANGED <<pc, batch, nextTurn, waiting, breaches>>
    BY <1>9, LoadIs DEF turn, inbox
  <2>2. excuse = "unfenced" => excuse' = "unfenced"
    BY <2>1 DEF Slips
  <2> QED
    BY <1>1, <2>1, <2>2, SameKeeps, MarksUnwaited
<1>10. CASE UNCHANGED vars
  <2>1. UNCHANGED <<state, pc, batch, nextTurn, waiting, excuse, breaches>>
    BY <1>10 DEF vars, turn, inbox, history
  <2> QED
    BY <1>1, <2>1, SameKeeps, MarksUnwaited
<1> QED
  BY <1>2, <1>3, <1>4, <1>5, <1>6, <1>7, <1>8, <1>9, <1>10 DEF Next
-----------------------------------------------------------------------------
(* No round follows a cancel that nobody took back: Withdrawn is inductive  *)

LEMMA CutOn ==
  ASSUME NEW a \in Attempts \cup {NoAttempt}, NEW b, Like(a, b), NEW messages, NEW left,
         RoundsIn(left) \subseteq RoundsIn(messages), Cut(a, messages), b.cancelled \/ b.cancelled = a.cancelled
  PROVE  Cut(b, left)
<1>1. /\ a # NoAttempt /\ a \in Attempts /\ b \in Attempts /\ b.message = a.message /\ a.message \in Rounds
      /\ b # NoAttempt /\ a.message \notin messages /\ b.cancelled
  BY AttemptIs DEF Cut, Like
<1>2. a.message.kind = "round"
  BY <1>1, MessageIs
<1> QED
  BY <1>1, <1>2 DEF Cut, RoundsIn

LEMMA OpensWithdrawn ==
  ASSUME Shape, NEW w, Good(w), NEW turns \in Seq(Messages), NEW steps \in Seq(Prompts),
         Opens(w, turns, steps), UNCHANGED <<fiber, revoked>>, "restarted" \notin breaches',
         revoked /\ Driven(w.cache) /\ fiber = "up" => Cut(w.state.attempt, Elements(turns))
  PROVE  Withdrawn'
<1>1. /\ Elements(nextTurn') \cup Elements(batch') = Elements(turns) \cup Elements(steps)
      /\ RoundsIn(Elements(steps)) = {} /\ state' = Claimed(w.state, Elements(batch'))
  BY ClaimsOne
<1>2. pc' = "claimed" /\ cache' = w.cache
  BY DEF Opens
<1>3. w.state \in States /\ w.state.attempt \in Attempts \cup {NoAttempt}
  BY WorldIs DEF Good
<1>4. /\ Like(w.state.attempt, state'.attempt)
      /\ w.state.attempt # NoAttempt => state'.attempt.cancelled = w.state.attempt.cancelled
  BY <1>1, <1>3, ClaimedIs
<1>5. RoundsIn(Pending') \subseteq RoundsIn(Elements(turns))
  BY <1>1 DEF Pending, RoundsIn
<1>6. Cut(w.state.attempt, Elements(turns)) => Cut(state'.attempt, Pending')
  <2>1. Cut(w.state.attempt, Elements(turns)) => w.state.attempt # NoAttempt
    BY DEF Cut
  <2> QED
    BY <1>3, <1>4, <1>5, <2>1, CutOn
<1> QED
  BY <1>2, <1>6 DEF Withdrawn

LEMMA DrivesStay ==
  ASSUME NEW w, NEW r, Drives(w, r)
  PROVE  /\ Driven(r.cache) => Driven(w.cache)
         /\ r.reserves # "none" => Driven(w.cache) /\ fiber = "up" /\ w.idle
         /\ ~w.idle => r.cache = w.cache /\ r.state.attempt = w.state.attempt
<1>1. Stops(w.cache, r.cache, "blocked") => ~Driven(r.cache)
  BY DEF Stops, Driven
<1> QED
  BY <1>1 DEF Drives

\* A round that was cut off ends in a pause.
LEMMA SettledWithdrawn ==
  ASSUME Shape, Withdrawn, NEW v, Settled(v), UNCHANGED <<fiber, revoked>>
  PROVE  Withdrawn'
<1>1. /\ nextTurn \in Seq(Messages) /\ nextStep \in Seq(Prompts) /\ pc \notin Watched
      /\ Good(v) /\ "restarted" \notin breaches
  BY DEF Settled, Shape, InboxShape, Watched, Withdrawn
<1>2. PICK x \in Worlds : x.cache = cache /\ x.state = state /\ x.idle /\ x.reserves = "none" /\ Idles(x, v)
  BY DEF Settled
<1>3. revoked /\ Driven(x.cache) /\ fiber = "up" => CutOff(x.state.attempt)
  BY <1>1, <1>2 DEF Withdrawn, Cut, CutOff
<1>4. ASSUME revoked PROVE v.reserves = "none" /\ (fiber = "up" => ~Driven(v.cache))
  <2>1. CASE fiber = "down" /\ v = x
    BY <1>2, <2>1
  <2>2. CASE x.cache.corrupt /\ v.cache = x.cache /\ v.reserves = "none"
    BY <2>2 DEF Driven
  <2>3. CASE Stops(x.cache, v.cache, "paused") /\ v.reserves = "none"
    BY <2>3 DEF Stops, Driven
  <2>4. CASE ~(CutOff(x.state.attempt) /\ Driven(x.cache)) /\ Drives(x, v)
    BY <1>3, <1>4, <2>4, DrivesStay
  <2> QED
    BY <1>2, <2>1, <2>2, <2>3, <2>4 DEF Idles
<1>5. CASE v.reserves = "none" /\ Opens(v, nextTurn, nextStep) /\ UNCHANGED breaches
  BY <1>1, <1>4, <1>5, OpensWithdrawn
<1>6. CASE Rests(v, nextStep)
  <2>1. Inserts(v, nextTurn) /\ cache' = v.cache
    BY <1>6 DEF Rests
  <2>2. "restarted" \notin breaches'
    BY <1>1, <1>4, <2>1 DEF Inserts
  <2> QED
    BY <1>4, <2>1, <2>2 DEF Withdrawn
<1> QED
  BY <1>5, <1>6 DEF Settled

LEMMA MutateWithdrawn ==
  ASSUME Shape, Withdrawn, Mutate
  PROVE  Withdrawn'
<1>1. /\ ~cache.corrupt /\ state'.attempt = state.attempt
      /\ revoked' = (revoked /\ ~(cache'.armed /\ ~cache.armed))
      /\ UNCHANGED <<fiber, pc, frame, aborted, nextTurn, batch, breaches>>
  BY MutateIs DEF turn, inbox
<1>2. cache.armed => Driven(cache)
  BY <1>1 DEF Shape, GoalShape, Driven
<1>3. revoked' /\ Driven(cache') => revoked /\ Driven(cache)
  BY <1>1, <1>2 DEF Driven
<1>4. Pending' = Pending
  BY <1>1 DEF Pending
<1> QED
  BY <1>1, <1>3, <1>4 DEF Withdrawn

LEMMA SendWithdrawn ==
  ASSUME Shape, RoundsInv, Withdrawn, NEW queue \in {"next-turn", "next-step"}, NEW wakeup \in BOOLEAN,
         Send(queue, wakeup)
  PROVE  Withdrawn'
<1>1. PICK target \in {"next-turn", "next-step"}, turns \in Seq(Messages), steps \in Seq(Prompts) :
           /\ spent.prompts < MaxPrompts
           /\ target = "next-turn" => turns = Append(nextTurn, Prompt(spent.prompts + 1)) /\ steps = nextStep
           /\ target = "next-step" => turns = nextTurn /\ steps = Append(nextStep, Prompt(spent.prompts + 1))
           /\ \/ /\ pc = "idle"
                 /\ \E w : /\ Good(w) /\ w.reserves = "none" /\ w.cache = cache
                           /\ w.state.attempt = Inserted(state, target).attempt
                           /\ Opens(w, turns, steps)
              \/ /\ cache' = cache /\ state' = Inserted(state, target)
                 /\ nextTurn' = turns /\ nextStep' = steps
                 /\ UNCHANGED <<pc, frame, batch, aborted, waiting, excuse>>
           /\ UNCHANGED <<fiber, revoked, served, dropped, breaches>>
  BY SendIs
<1>2. turns = nextTurn \/ turns = Append(nextTurn, Prompt(spent.prompts + 1))
  BY <1>1
<1>3. RoundsIn(Elements(turns)) = RoundsIn(Elements(nextTurn))
  BY <1>1, <1>2, SentLists
<1> DEFINE b == Inserted(state, target).attempt
<1>4. state \in States /\ state.attempt \in Attempts \cup {NoAttempt}
  BY DEF Shape, DriverShape, States
<1>5. Like(state.attempt, b) /\ (state.attempt # NoAttempt => b.cancelled = state.attempt.cancelled)
  BY <1>4, InsertedIs
<1> HIDE DEF b
<1>6. ASSUME NEW m, NEW n, RoundsIn(n) \subseteq RoundsIn(m), Cut(state.attempt, m) PROVE Cut(b, n)
  <2>1. state.attempt # NoAttempt
    BY <1>6 DEF Cut
  <2> QED
    BY <1>4, <1>5, <1>6, <2>1, CutOn
<1>7. CASE /\ pc = "idle"
           /\ \E w : Good(w) /\ w.cache = cache /\ w.state.attempt = b /\ Opens(w, turns, steps)
  <2>1. revoked /\ Driven(cache) /\ fiber = "up" => Cut(b, Elements(turns))
    <3>1. RoundsIn(Elements(turns)) \subseteq RoundsIn(Pending)
      BY <1>3 DEF Pending, RoundsIn
    <3> QED
      BY <1>6, <1>7, <3>1 DEF Withdrawn, Watched
  <2>2. "restarted" \notin breaches'
    BY <1>1 DEF Withdrawn
  <2> QED
    BY <1>1, <1>7, <2>1, <2>2, OpensWithdrawn
<1>8. CASE /\ cache' = cache /\ state'.attempt = b /\ nextTurn' = turns
           /\ UNCHANGED <<pc, frame, batch, aborted>>
  <2>1. RoundsIn(Pending') \subseteq RoundsIn(Pending)
    BY <1>3, <1>8 DEF Pending, RoundsIn
  <2>2. Cut(state.attempt, Pending) => Cut(state'.attempt, Pending')
    BY <1>6, <1>8, <2>1
  <2> QED
    BY <1>1, <1>8, <2>2 DEF Withdrawn
<1> QED
  BY <1>1, <1>7, <1>8 DEF b

\* A cancel that hits a queued round cuts it; one behind the turn's last look at
\* its signal counts only for what it takes from the inbox.
LEMMA CancelWithdrawn ==
  ASSUME Shape, RoundsInv, Withdrawn, NEW keepInbox \in BOOLEAN, Cancel(keepInbox)
  PROVE  Withdrawn'
<1> DEFINE gone == IF keepInbox THEN {} ELSE Elements(nextTurn) \cup Elements(nextStep)
           hit == Driven(cache) /\ RoundOf(cache.goal) \in gone /\ Matches(RoundOf(cache.goal), state.attempt)
<1>1. /\ state' = Discarded(state, gone) /\ aborted' = (pc # "idle")
      /\ revoked' = (revoked \/ hit \/ (Driven(cache) /\ pc \in Watched /\ ~aborted))
      /\ UNCHANGED <<cache, fiber, pc, frame, batch, breaches>>
      /\ nextTurn' = nextTurn \/ nextTurn' = <<>>
      /\ hit => nextTurn' = <<>>
  BY DEF Cancel, inbox
<1>2. state \in States /\ state.attempt \in Attempts \cup {NoAttempt}
  BY DEF Shape, DriverShape, States
<1>3. /\ Like(state.attempt, state'.attempt)
      /\ state' = state \/ state'.attempt.cancelled
      /\ fiber # "down" /\ state.attempt # NoAttempt /\ state.attempt.message \in gone => state'.attempt.cancelled
  BY <1>1, <1>2, DiscardedIs
<1>4. RoundsIn(Pending') \subseteq RoundsIn(Pending)
  BY <1>1, EmptyElements DEF Pending, RoundsIn
<1>5. Cut(state.attempt, Pending) => Cut(state'.attempt, Pending')
  <2>1. Cut(state.attempt, Pending) => state.attempt # NoAttempt
    BY DEF Cut
  <2> QED
    BY <1>2, <1>3, <1>4, <2>1, CutOn
<1>6. CASE pc \in Watched
  BY <1>1, <1>6 DEF Withdrawn, Watched
<1>7. CASE pc \notin Watched /\ revoked
  BY <1>1, <1>5, <1>7 DEF Withdrawn
<1>8. CASE pc \notin Watched /\ hit
  <2>1. Live(cache, state.attempt) /\ state.attempt # NoAttempt /\ state.attempt.message \in gone
    BY <1>8 DEF Live, Matches
  <2>2. (pc # "idle" \/ frame # "none") /\ fiber = "up"
    BY <2>1 DEF RoundsInv, Attended
  <2>3. state'.attempt.cancelled /\ state'.attempt # NoAttempt
    BY <1>3, <2>1, <2>2, AttemptIs DEF Like
  <2>4. Pending' = {}
    <3>1. batch' = <<>>
      BY <1>1, <1>8 DEF Shape, TurnShape, Watched
    <3> QED
      BY <1>1, <1>8, <3>1, EmptyElements DEF Pending
  <2> QED
    BY <1>1, <2>2, <2>3, <2>4 DEF Withdrawn, Cut
<1> HIDE DEF hit, gone
<1>9. CASE pc \notin Watched /\ ~revoked /\ ~hit
  BY <1>1, <1>9 DEF Withdrawn
<1> QED
  BY <1>6, <1>7, <1>8, <1>9

\* What a turn leaves in its end: nothing is dropped from a round that was cut.
LEMMA LeavesCut ==
  ASSUME Shape, RoundsInv, Withdrawn, NEW w, Leaves(w), pc # "idle",
         revoked, Driven(w.cache), fiber = "up"
  PROVE  (pc \in Watched /\ aborted) \/ Cut(w.state.attempt, Elements(nextTurn))
<1>1. w.cache = cache \/ ~Driven(w.cache)
  BY DEF Leaves, Stops, Driven
<1>2. (pc \in Watched /\ aborted) \/ Cut(state.attempt, Pending)
  BY <1>1 DEF Withdrawn
<1>3. CASE Cut(state.attempt, Pending) /\ w.state.attempt = state.attempt
  BY <1>3 DEF Cut, Pending
<1>4. CASE Cut(state.attempt, Pending) /\ HoldsRound /\ (pc = "deciding" \/ Matches(TheRound, state.attempt))
  <2>1. TheRound \in Elements(batch) /\ state.attempt # NoAttempt /\ state.attempt.message \notin Elements(batch)
    BY <1>4, HeldRound DEF Cut, Pending, RoundsIn
  <2>2. state.attempt.message = TheRound
    BY <1>4, <2>1 DEF RoundsInv, Fenced, Matches
  <2> QED
    BY <2>1, <2>2
<1> QED
  BY <1>2, <1>3, <1>4 DEF Leaves

LEMMA YieldsWithdrawn ==
  ASSUME Shape, RoundsInv, Unwaited, Withdrawn, NEW w, NEW u, NEW ending, Yields(w, u, ending),
         UNCHANGED <<fiber, revoked>>
  PROVE  Withdrawn'
<1>1. /\ Leaves(w) /\ Closed(w, u, ending) /\ w \in Worlds /\ pc # "idle" /\ pc' # "idle"
      /\ pc \in Watched /\ aborted => pc' \in Watched \/ ending = "aborted"
      /\ cache' = u.cache /\ state' = u.state /\ batch' = <<>>
      /\ UNCHANGED <<aborted, nextTurn, breaches>>
  BY DEF Yields, Leaves, Good
<1>2. Pending' = Elements(nextTurn) /\ "restarted" \notin breaches'
  BY <1>1, EmptyElements DEF Pending, Withdrawn
<1>3. w.state.attempt \in Attempts \cup {NoAttempt}
  BY <1>1, WorldIs
<1>4. /\ Driven(u.cache) => Driven(w.cache)
      /\ \/ u.state = w.state
         \/ /\ w.state.attempt \in Attempts /\ u.state.attempt.cancelled /\ u.state.attempt # NoAttempt
            /\ Like(w.state.attempt, u.state.attempt) /\ u.state.attempt.message = w.state.attempt.message
            /\ w.state.attempt.phase \in {"claimed", "admitted"}
      /\ Driven(u.cache) /\ fiber = "up" /\ ending = "aborted" =>
           /\ u.state.attempt.cancelled /\ u.state.attempt # NoAttempt
           /\ u.state.attempt.message = w.state.attempt.message
           /\ w.state.attempt.phase \in {"claimed", "admitted"}
  <2>1. ASSUME w.state.attempt \in Attempts, u.state.attempt = [w.state.attempt EXCEPT !.cancelled = TRUE]
        PROVE  /\ u.state.attempt.cancelled /\ Like(w.state.attempt, u.state.attempt)
               /\ u.state.attempt # NoAttempt /\ u.state.attempt.message = w.state.attempt.message
    <3>1. u.state.attempt.cancelled /\ u.state.attempt \in Attempts /\ u.state.attempt.message = w.state.attempt.message
      BY <2>1 DEF Attempts
    <3> QED
      BY <2>1, <3>1, AttemptIs DEF Like
  <2>2. CASE u = w /\ (ending # "aborted" \/ fiber = "down")
    BY <2>2
  <2>3. CASE /\ u.cache = w.cache /\ w.state.attempt.phase \in {"claimed", "admitted"}
             /\ w.state.attempt \in Attempts
             /\ u.state.attempt = [w.state.attempt EXCEPT !.cancelled = TRUE]
    BY <2>1, <2>3
  <2>4. CASE u.state = w.state /\ ~Driven(u.cache)
    BY <2>4
  <2> QED
    BY <1>1, <2>2, <2>3, <2>4 DEF Closed
<1>5. Cut(w.state.attempt, Elements(nextTurn)) => Cut(u.state.attempt, Elements(nextTurn))
  <2>1. CASE u.state = w.state
    BY <2>1
  <2>2. CASE Like(w.state.attempt, u.state.attempt) /\ u.state.attempt.cancelled
    BY <1>3, <2>2, CutOn
  <2> QED
    BY <1>4, <2>1, <2>2
<1>6. ASSUME revoked, Driven(u.cache), fiber = "up"
      PROVE  (pc' \in Watched /\ aborted) \/ Cut(u.state.attempt, Elements(nextTurn))
  <2>1. (pc \in Watched /\ aborted) \/ Cut(w.state.attempt, Elements(nextTurn))
    BY <1>1, <1>4, <1>6, LeavesCut
  <2>2. ASSUME ending = "aborted" PROVE Cut(u.state.attempt, Elements(nextTurn))
    <3>1. /\ u.state.attempt.cancelled /\ u.state.attempt # NoAttempt
          /\ u.state.attempt.message = w.state.attempt.message
          /\ w.state.attempt.phase \in {"claimed", "admitted"}
      BY <1>4, <1>6, <2>2
    <3>2. Claims(w.state.attempt, nextTurn)
      BY <1>1, NoneAlone DEF Leaves, Unwaited
    <3> QED
      BY <3>1, <3>2 DEF Claims, Cut
  <2> QED
    BY <1>1, <1>5, <2>1, <2>2
<1> QED
  BY <1>1, <1>2, <1>6 DEF Withdrawn

LEMMA EntersWithdrawn ==
  ASSUME Shape, Withdrawn, pc = "entering", ~aborted, NEW entered \in {batch, PromptsOf(batch)},
         Enters(entered), UNCHANGED <<fiber, revoked>>
  PROVE  Withdrawn'
<1>1. /\ pc' = "stepping" /\ nextTurn' = nextTurn /\ batch' = <<>> /\ breaches' = breaches \cup Breach(entered)
  BY DEF Enters, inbox
<1>2. /\ RoundsIn(Elements(entered)) # {} =>
           /\ \/ /\ cache.goal \in Goals /\ cache'.goal.phase = cache.goal.phase
                 /\ cache'.corrupt = cache.corrupt
              \/ cache'.corrupt
           /\ cache'.armed = cache.armed
           /\ \/ state' = state
              \/ /\ Like(state.attempt, state'.attempt)
                 /\ state'.attempt.cancelled = state.attempt.cancelled
      /\ RoundsIn(Elements(entered)) = {} => cache' = cache /\ state' = state
  BY EntersIs
<1>3. "restarted" \notin breaches'
  <2>1. excuse # "restarted"
    BY ExcuseIs
  <2> QED
    BY <1>1, <2>1 DEF Breach, Withdrawn
<1>4. Driven(cache') => Driven(cache)
  BY <1>2 DEF Driven
<1>5. state.attempt \in Attempts \cup {NoAttempt}
  BY DEF Shape, DriverShape, States
<1>6. Pending' \subseteq Pending
  BY <1>1, EmptyElements DEF Pending
<1>7. Cut(state.attempt, Pending) => Cut(state'.attempt, Pending')
  <2>1. RoundsIn(Pending') \subseteq RoundsIn(Pending)
    BY <1>6 DEF RoundsIn
  <2>2. CASE state'.attempt = state.attempt
    BY <1>6, <2>2 DEF Cut
  <2>3. CASE Like(state.attempt, state'.attempt) /\ state'.attempt.cancelled = state.attempt.cancelled
    BY <1>5, <2>1, <2>3, CutOn
  <2> QED
    BY <1>2, <2>2, <2>3
<1> QED
  BY <1>1, <1>3, <1>4, <1>7 DEF Withdrawn

LEMMA AgentWithdrawn ==
  ASSUME Shape, RoundsInv, Unwaited, Withdrawn, AgentRuns
  PROVE  Withdrawn'
<1>1. /\ nextTurn \in Seq(Messages) /\ nextStep \in Seq(Prompts) /\ "restarted" \notin breaches
      /\ UNCHANGED <<fiber, spent, revoked>>
  BY AgentCases DEF Shape, InboxShape, Withdrawn
<1>2. CASE Reopens
  <2>1. pc \notin Watched /\ breaches' = breaches
    BY <1>2 DEF Reopens, Shape, TurnShape, Watched
  <2>2. revoked /\ Driven(cache) /\ fiber = "up" => Cut(state.attempt, Elements(nextTurn))
    BY <2>1 DEF Withdrawn, Cut, Pending
  <2>3. PICK w : /\ Good(w) /\ w.cache = cache /\ w.state.attempt = state.attempt
                 /\ Opens(w, nextTurn, nextStep)
    BY <1>2 DEF Reopens
  <2> QED
    BY <1>1, <2>1, <2>2, <2>3, OpensWithdrawn
<1>3. CASE \E w, u, ending : Yields(w, u, ending)
  BY <1>1, <1>3, YieldsWithdrawn
<1>4. CASE PassesFence
  <2>1. /\ pc' \in Watched /\ pc' # "idle" /\ pc # "idle"
        /\ UNCHANGED <<cache, state, batch, aborted, nextTurn, breaches>>
    BY <1>4 DEF PassesFence, inbox, Watched
  <2>2. Pending' = Pending
    BY <2>1 DEF Pending
  <2> QED
    BY <1>1, <2>1, <2>2 DEF Withdrawn
<1>5. CASE pc = "entering" /\ ~aborted /\ \E entered \in {batch, PromptsOf(batch)} : Enters(entered)
  BY <1>1, <1>5, EntersWithdrawn
<1>6. CASE Steps
  <2>1. /\ pc' \in Watched /\ pc' # "idle"
        /\ UNCHANGED <<cache, state, frame, batch, aborted, nextTurn, breaches>>
    BY <1>6 DEF Steps, Watched
  <2>2. Pending' = Pending
    BY <2>1 DEF Pending
  <2> QED
    BY <1>1, <2>1, <2>2 DEF Withdrawn
<1>7. CASE \E v : Settled(v)
  BY <1>1, <1>7, SettledWithdrawn
<1> QED
  BY <1>2, <1>3, <1>4, <1>5, <1>6, <1>7, AgentCases

LEMMA LoopWithdrawn ==
  ASSUME Shape, Withdrawn, frame = "none", NEW v, NEW w, LoopRuns(v, w)
  PROVE  Withdrawn'
<1>1. /\ Inserts(w, nextTurn) /\ cache' = w.cache /\ state' = w.state /\ Drives(v, w)
      /\ UNCHANGED <<fiber, pc, batch, aborted, revoked>>
      /\ v.idle = (pc = "idle") /\ v.state.attempt = state.attempt
      /\ v.cache = cache \/ Calms(cache, v.cache)
  BY DEF LoopRuns, Continues
<1>2. Driven(v.cache) => Driven(cache)
  BY <1>1 DEF Calms
<1>3. /\ Driven(w.cache) => Driven(cache)
      /\ w.reserves # "none" => Driven(cache) /\ fiber = "up" /\ pc = "idle"
      /\ pc # "idle" => w.state.attempt = state.attempt
  BY <1>1, <1>2, DrivesStay
<1>4. CASE pc = "idle"
  <2>1. ~(revoked /\ Driven(cache) /\ fiber = "up")
    BY <1>4 DEF Withdrawn, Watched
  <2>2. "restarted" \notin breaches'
    BY <1>1, <1>3, <2>1 DEF Inserts, Withdrawn
  <2> QED
    BY <1>1, <1>3, <2>1, <2>2 DEF Withdrawn
<1>5. CASE pc # "idle"
  <2>1. nextTurn' = nextTurn /\ "restarted" \notin breaches'
    BY <1>1, <1>3, <1>5 DEF Inserts, Withdrawn
  <2>2. Pending' = Pending
    BY <1>1, <2>1 DEF Pending
  <2> QED
    BY <1>1, <1>3, <1>5, <2>1, <2>2 DEF Withdrawn
<1> QED
  BY <1>4, <1>5

LEMMA WithdrawnNext ==
  ASSUME Shape, RoundsInv, Unwaited, Withdrawn, [Next]_vars
  PROVE  Withdrawn'
<1>1. CASE Mutate
  BY <1>1, MutateWithdrawn
<1>2. CASE \E queue \in {"next-turn", "next-step"}, wakeup \in BOOLEAN : Send(queue, wakeup)
  BY <1>2, SendWithdrawn
<1>3. CASE \E keepInbox \in BOOLEAN : Cancel(keepInbox)
  BY <1>3, CancelWithdrawn
<1>4. CASE AgentRuns
  BY <1>4, AgentWithdrawn
<1>5. CASE Flushed \/ Retire
  BY <1>5, FlushedIs, RetireIs, LoopWithdrawn
<1>6. CASE Unload
  <2>1. fiber' # "up" /\ breaches' = breaches
    BY <1>6, UnloadIs
  <2> QED
    BY <2>1 DEF Withdrawn
<1>7. CASE Unloaded
  <2>1. fiber' # "up" /\ breaches' = breaches
    BY <1>7 DEF Unloaded, history
  <2> QED
    BY <2>1 DEF Withdrawn
<1>8. CASE Load
  <2>1. ~Driven(cache') /\ breaches' = breaches
    BY <1>8, LoadIs
  <2> QED
    BY <2>1 DEF Withdrawn
<1>9. CASE UNCHANGED vars
  <2>1. UNCHANGED <<cache, state, fiber, pc, frame, batch, aborted, nextTurn, revoked, breaches>>
    BY <1>9 DEF vars, turn, inbox, history
  <2>2. Pending' = Pending
    BY <2>1 DEF Pending
  <2> QED
    BY <2>1, <2>2 DEF Withdrawn
<1> QED
  BY <1>1, <1>2, <1>3, <1>4, <1>5, <1>6, <1>7, <1>8, <1>9 DEF Next
-----------------------------------------------------------------------------
(* Every message is in one place: Kept is inductive                         *)

LEMMA PartedMoves ==
  ASSUME NEW sent, NEW turns, NEW steps, NEW claimed, NEW entered, NEW gone,
         Parted(sent, turns, steps, claimed, entered, gone)
  PROVE  /\ Parted(sent, turns, steps, {}, entered, gone \cup claimed)
         /\ Parted(sent, turns, claimed \cup steps, {}, entered, gone)
         /\ Parted(sent, turns, steps, {}, entered \cup claimed, gone)
         /\ Parted(sent, turns, {}, claimed, entered \cup steps, gone)
         /\ Parted(sent, turns, {}, claimed, entered, gone \cup steps)
         /\ Parted(sent, {}, {}, claimed, entered, gone \cup (turns \cup steps))
<1> USE DEF Parted
<1>1. Parted(sent, turns, steps, {}, entered, gone \cup claimed)
  OBVIOUS
<1>2. Parted(sent, turns, claimed \cup steps, {}, entered, gone)
  OBVIOUS
<1>3. Parted(sent, turns, steps, {}, entered \cup claimed, gone)
  OBVIOUS
<1>4. Parted(sent, turns, {}, claimed, entered \cup steps, gone)
  OBVIOUS
<1>5. Parted(sent, {}, {}, claimed, entered, gone \cup (turns \cup steps))
  OBVIOUS
<1>6. Parted(sent, turns, {}, claimed, entered, gone \cup steps)
  OBVIOUS
<1> HIDE DEF Parted
<1> QED
  BY <1>1, <1>2, <1>3, <1>4, <1>5, <1>6

LEMMA PartedAdds ==
  ASSUME NEW sent, NEW turns, NEW steps, NEW claimed, NEW entered, NEW gone, NEW p, p \notin sent,
         Parted(sent, turns, steps, claimed, entered, gone)
  PROVE  /\ Parted(sent \cup {p}, turns \cup {p}, steps, claimed, entered, gone)
         /\ Parted(sent \cup {p}, turns, steps \cup {p}, claimed, entered, gone)
BY DEF Parted

LEMMA NoPrompts ==
  /\ PromptsIn({}) = {}
  /\ \A m, n : PromptsIn(m \cup n) = PromptsIn(m) \cup PromptsIn(n)
  /\ \A m \in Rounds : PromptsIn({m}) = {}
  /\ \A m \in Prompts : PromptsIn({m}) = {m}
  /\ \A s \in Seq(Prompts) : PromptsIn(Elements(s)) = Elements(s)
<1>1. \A m \in Rounds : PromptsIn({m}) = {}
  BY MessageIs DEF PromptsIn
<1>2. \A m \in Prompts : PromptsIn({m}) = {m}
  BY MessageIs DEF PromptsIn
<1>3. ASSUME NEW s \in Seq(Prompts) PROVE PromptsIn(Elements(s)) = Elements(s)
  <2>1. Elements(s) \subseteq Prompts
    BY ElementsIn
  <2> QED
    BY <2>1, MessageIs DEF PromptsIn
<1>4. PromptsIn({}) = {} /\ \A m, n : PromptsIn(m \cup n) = PromptsIn(m) \cup PromptsIn(n)
  BY DEF PromptsIn
<1> QED
  BY <1>1, <1>2, <1>3, <1>4

\* A turn that opens moves messages from the lists to its batch.
LEMMA OpensKept ==
  ASSUME NEW w, NEW turns \in Seq(Messages), NEW steps \in Seq(Prompts), Opens(w, turns, steps),
         Once("prompt", turns),
         Parted(Sent', PromptsIn(Elements(turns)), Elements(steps), {}, served', dropped')
  PROVE  Kept'
<1>1. /\ nextTurn' \in Seq(Messages) /\ nextStep' = <<>>
      /\ turns = <<>> => nextTurn' = <<>> /\ Elements(batch') = Elements(steps)
      /\ turns # <<>> => nextTurn' = Tail(turns) /\ Elements(batch') = Elements(steps) \cup {Head(turns)}
      /\ RoundsIn(Elements(steps)) = {}
      /\ state' = Claimed(w.state, Elements(batch'))
  BY ClaimsOne
<1>2. Elements(nextStep') = {} /\ PromptsIn(Elements(steps)) = Elements(steps)
  BY <1>1, EmptyElements, NoPrompts
<1>3. CASE turns = <<>>
  <2>1. Elements(turns) = {} /\ Elements(nextTurn') = {} /\ Once("prompt", nextTurn')
    BY <1>1, <1>3, EmptyElements, EmptyOnce
  <2>2. Parted(Sent', {}, {}, Elements(steps), served', dropped')
    BY <2>1, NoPrompts DEF Parted
  <2>3. Parted(Sent', PromptsIn(Elements(nextTurn')), Elements(nextStep'), PromptsIn(Elements(batch')), served', dropped')
    BY <1>1, <1>2, <1>3, <2>1, <2>2, NoPrompts
  <2> QED
    BY <2>1, <2>3 DEF Kept
<1>4. CASE turns # <<>>
  <2>1. /\ Elements(turns) = {Head(turns)} \cup Elements(Tail(turns)) /\ Head(turns) \in Messages
        /\ Once("prompt", Tail(turns))
        /\ Head(turns).kind = "prompt" => Head(turns) \notin Elements(Tail(turns))
    BY <1>4, TailElements, TailOnce
  <2> DEFINE h == PromptsIn({Head(turns)})
             t == PromptsIn(Elements(Tail(turns)))
  <2>2. PromptsIn(Elements(turns)) = h \cup t /\ PromptsIn(Elements(batch')) = Elements(steps) \cup h
    BY <1>1, <1>2, <1>4, <2>1, NoPrompts
  <2>3. h \cap t = {}
    BY <2>1 DEF PromptsIn
  <2> HIDE DEF h, t
  <2>4. Parted(Sent', t, {}, Elements(steps) \cup h, served', dropped')
    BY <2>2, <2>3 DEF Parted
  <2>5. Parted(Sent', PromptsIn(Elements(nextTurn')), Elements(nextStep'), PromptsIn(Elements(batch')), served', dropped')
    BY <1>1, <1>2, <1>4, <2>2, <2>4 DEF t
  <2> QED
    BY <1>1, <1>4, <2>1, <2>5 DEF Kept
<1> QED
  BY <1>3, <1>4

\* A reservation adds no prompt.
LEMMA InsertsKept ==
  ASSUME Shape, NEW w, Good(w), Inserts(w, nextTurn), Once("prompt", nextTurn)
  PROVE  Once("prompt", nextTurn)' /\ PromptsIn(Elements(nextTurn')) = PromptsIn(Elements(nextTurn))
<1>1. /\ w.reserves = "none" => nextTurn' = nextTurn
      /\ w.reserves # "none" =>
           /\ nextTurn' = Append(nextTurn, w.state.attempt.message)
           /\ w.state.attempt.message \in Messages
           /\ Elements(nextTurn') = Elements(nextTurn) \cup {w.state.attempt.message}
  BY InsertsShape
<1>2. CASE w.reserves = "none"
  BY <1>1, <1>2
<1>3. CASE w.reserves # "none"
  <2>1. w.state.attempt.message \in Rounds /\ w.state.attempt.message.kind = "round"
    BY <1>3, AttemptIs, MessageIs DEF Good
  <2>2. PromptsIn(Elements(nextTurn')) = PromptsIn(Elements(nextTurn))
    <3>1. PromptsIn({w.state.attempt.message}) = {}
      BY <2>1, NoPrompts
    <3>2. PromptsIn(Elements(nextTurn')) =
            PromptsIn(Elements(nextTurn)) \cup PromptsIn({w.state.attempt.message})
      BY <1>1, <1>3 DEF PromptsIn
    <3> QED
      BY <3>1, <3>2
  <2>3. nextTurn \in Seq(Messages)
    BY DEF Shape, InboxShape
  <2>4. Once("prompt", Append(nextTurn, w.state.attempt.message))
    BY <1>1, <1>3, <2>1, <2>3, AppendOnce
  <2> QED
    BY <1>1, <1>3, <2>2, <2>4
<1> QED
  BY <1>2, <1>3

\* The agent leaves its turn.
LEMMA SettledKept ==
  ASSUME Shape, NEW v, Settled(v), Once("prompt", nextTurn),
         Parted(Sent', PromptsIn(Elements(nextTurn)), Elements(nextStep), {}, served', dropped')
  PROVE  Kept'
<1>1. /\ Good(v) /\ nextTurn \in Seq(Messages) /\ nextStep \in Seq(Prompts)
      /\ Opens(v, nextTurn, nextStep) \/ Rests(v, nextStep)
  BY DEF Settled, Shape, InboxShape
<1>2. CASE Opens(v, nextTurn, nextStep)
  BY <1>1, <1>2, OpensKept
<1>3. CASE Rests(v, nextStep)
  <2>1. Inserts(v, nextTurn) /\ nextStep' = nextStep /\ batch' = <<>>
    BY <1>3 DEF Rests
  <2>2. Once("prompt", nextTurn)' /\ PromptsIn(Elements(nextTurn')) = PromptsIn(Elements(nextTurn))
    BY <1>1, <2>1, InsertsKept
  <2>3. PromptsIn(Elements(batch')) = {}
    BY <2>1, EmptyElements, NoPrompts
  <2>4. Parted(Sent', PromptsIn(Elements(nextTurn')), Elements(nextStep'), PromptsIn(Elements(batch')), served', dropped')
    BY <2>1, <2>2, <2>3
  <2> QED
    BY <2>2, <2>4 DEF Kept
<1> QED
  BY <1>1, <1>2, <1>3

LEMMA SameKept ==
  ASSUME Kept, UNCHANGED <<nextTurn, nextStep, batch, served, dropped>>, spent'.prompts = spent.prompts
  PROVE  Kept'
<1>1. Sent' = Sent
  BY DEF Sent
<1>2. Once("prompt", nextTurn)'
  BY DEF Kept
<1>3. Parted(Sent', PromptsIn(Elements(nextTurn')), Elements(nextStep'), PromptsIn(Elements(batch')), served', dropped')
  BY <1>1 DEF Kept
<1> QED
  BY <1>2, <1>3 DEF Kept

LEMMA SendKept ==
  ASSUME Shape, Kept, NEW queue \in {"next-turn", "next-step"}, NEW wakeup \in BOOLEAN, Send(queue, wakeup)
  PROVE  Kept'
<1> DEFINE p == Prompt(spent.prompts + 1)
<1>1. PICK target \in {"next-turn", "next-step"}, turns \in Seq(Messages), steps \in Seq(Prompts) :
           /\ spent.prompts < MaxPrompts
           /\ target = "next-turn" => turns = Append(nextTurn, Prompt(spent.prompts + 1)) /\ steps = nextStep
           /\ target = "next-step" => turns = nextTurn /\ steps = Append(nextStep, Prompt(spent.prompts + 1))
           /\ \/ /\ pc = "idle"
                 /\ \E w : /\ Good(w) /\ w.reserves = "none" /\ w.cache = cache
                           /\ w.state.attempt = Inserted(state, target).attempt
                           /\ Opens(w, turns, steps)
              \/ /\ cache' = cache /\ state' = Inserted(state, target)
                 /\ nextTurn' = turns /\ nextStep' = steps
                 /\ UNCHANGED <<pc, frame, batch, aborted, waiting, excuse>>
           /\ spent' = [spent EXCEPT !.prompts = @ + 1]
           /\ UNCHANGED <<fiber, revoked, served, dropped, breaches>>
  BY SendIs
<1>2. spent \in [prompts : 0 .. MaxPrompts, edits : Nat, mishaps : Nat] /\ MaxPrompts \in Nat
  BY BoundsAssumption DEF Shape, HistoryShape
<1>3. spent'.prompts = spent.prompts + 1 /\ spent.prompts \in Nat /\ spent.prompts + 1 \in 1 .. MaxPrompts
  BY <1>1, <1>2
<1>4. Sent' = Sent \cup {p} /\ p \notin Sent /\ p \in Prompts
  <2>1. \A n \in 1 .. spent.prompts : Prompt(n) # p
    BY <1>3 DEF Prompt
  <2>2. 1 .. spent'.prompts = (1 .. spent.prompts) \cup {spent.prompts + 1}
    BY <1>3
  <2> QED
    BY <1>3, <2>1, <2>2 DEF Sent, Prompts
<1>5. p.kind = "prompt" /\ p \in Messages /\ PromptsIn({p}) = {p}
  BY <1>4, MessageIs, NoPrompts DEF Messages
<1> HIDE DEF p
<1>6. /\ Once("prompt", nextTurn) /\ nextTurn \in Seq(Messages) /\ nextStep \in Seq(Prompts)
      /\ Parted(Sent, PromptsIn(Elements(nextTurn)), Elements(nextStep), PromptsIn(Elements(batch)), served, dropped)
  BY DEF Kept, Shape, InboxShape
<1>7. p \notin Elements(nextTurn)
  BY <1>4, <1>5, <1>6 DEF Parted, PromptsIn
<1>8. /\ Once("prompt", turns)
      /\ Parted(Sent', PromptsIn(Elements(turns)), Elements(steps), PromptsIn(Elements(batch)), served, dropped)
  <2>1. CASE target = "next-turn"
    <3>1. turns = Append(nextTurn, p) /\ steps = nextStep
      BY <1>1, <2>1 DEF p
    <3>2. Elements(turns) = Elements(nextTurn) \cup {p} /\ Once("prompt", turns)
      BY <1>5, <1>6, <1>7, <3>1, AppendElements, AppendOnce
    <3>3. PromptsIn(Elements(turns)) = PromptsIn(Elements(nextTurn)) \cup {p}
      BY <1>5, <3>2, NoPrompts
    <3>4. Parted(Sent \cup {p}, PromptsIn(Elements(nextTurn)) \cup {p}, Elements(nextStep),
                 PromptsIn(Elements(batch)), served, dropped)
      BY <1>4, <1>6, PartedAdds
    <3> QED
      BY <1>4, <3>1, <3>2, <3>3, <3>4
  <2>2. CASE target = "next-step"
    <3>1. turns = nextTurn /\ steps = Append(nextStep, p)
      BY <1>1, <2>2 DEF p
    <3>2. Elements(steps) = Elements(nextStep) \cup {p}
      BY <1>4, <1>6, <3>1, AppendElements
    <3>3. Parted(Sent \cup {p}, PromptsIn(Elements(nextTurn)), Elements(nextStep) \cup {p},
                 PromptsIn(Elements(batch)), served, dropped)
      BY <1>4, <1>6, PartedAdds
    <3> QED
      BY <1>4, <1>6, <3>1, <3>2, <3>3
  <2> QED
    BY <2>1, <2>2
<1>9. CASE pc = "idle" /\ \E w : Opens(w, turns, steps)
  <2>1. PromptsIn(Elements(batch)) = {}
    BY <1>9, EmptyElements, NoPrompts DEF Shape, TurnShape
  <2> QED
    BY <1>1, <1>8, <1>9, <2>1, OpensKept
<1>10. CASE nextTurn' = turns /\ nextStep' = steps /\ batch' = batch
  <2>1. Once("prompt", nextTurn)'
    BY <1>8, <1>10
  <2>2. Parted(Sent', PromptsIn(Elements(nextTurn')), Elements(nextStep'), PromptsIn(Elements(batch')), served', dropped')
    BY <1>1, <1>8, <1>10
  <2> QED
    BY <2>1, <2>2 DEF Kept
<1> QED
  BY <1>1, <1>9, <1>10

LEMMA CancelKept ==
  ASSUME Shape, Kept, NEW keepInbox \in BOOLEAN, Cancel(keepInbox)
  PROVE  Kept'
<1>1. CASE keepInbox
  <2>1. PromptsIn({}) = {}
    BY NoPrompts
  <2>2. UNCHANGED <<nextTurn, nextStep, batch, served, spent>> /\ dropped' = dropped
    BY <1>1, <2>1 DEF Cancel, inbox
  <2> QED
    BY <2>2, SameKept
<1>2. CASE ~keepInbox
  <2>1. /\ nextTurn' = <<>> /\ nextStep' = <<>> /\ UNCHANGED <<batch, served, spent>>
        /\ dropped' = dropped \cup PromptsIn(Elements(nextTurn) \cup Elements(nextStep))
    BY <1>2 DEF Cancel
  <2>2. nextStep \in Seq(Prompts)
    BY DEF Shape, InboxShape
  <2>3. dropped' = dropped \cup (PromptsIn(Elements(nextTurn)) \cup Elements(nextStep))
    BY <2>1, <2>2, NoPrompts
  <2>4. Elements(nextStep') = {} /\ PromptsIn(Elements(nextTurn')) = {} /\ Once("prompt", nextTurn')
    BY <2>1, EmptyElements, EmptyOnce, NoPrompts
  <2>5. Parted(Sent, {}, {}, PromptsIn(Elements(batch)), served,
               dropped \cup (PromptsIn(Elements(nextTurn)) \cup Elements(nextStep)))
    BY PartedMoves DEF Kept
  <2>6. Sent' = Sent
    BY <2>1 DEF Sent
  <2> QED
    BY <2>1, <2>3, <2>4, <2>5, <2>6 DEF Kept
<1> QED
  BY <1>1, <1>2

LEMMA UnloadKept ==
  ASSUME Shape, Kept, Unload
  PROVE  Kept'
<1>1. /\ spent'.prompts = spent.prompts /\ UNCHANGED <<batch, served>>
      /\ \/ /\ nextTurn' = <<>> /\ nextStep' = <<>>
            /\ dropped' = dropped \cup PromptsIn(Elements(nextTurn) \cup Elements(nextStep))
         \/ UNCHANGED <<inbox, dropped>>
  BY UnloadIs
<1>2. CASE UNCHANGED <<inbox, dropped>>
  BY <1>1, <1>2, SameKept DEF inbox
<1>3. CASE /\ nextTurn' = <<>> /\ nextStep' = <<>>
           /\ dropped' = dropped \cup PromptsIn(Elements(nextTurn) \cup Elements(nextStep))
  <2>1. nextStep \in Seq(Prompts)
    BY DEF Shape, InboxShape
  <2>2. dropped' = dropped \cup (PromptsIn(Elements(nextTurn)) \cup Elements(nextStep))
    BY <1>3, <2>1, NoPrompts
  <2>3. Elements(nextStep') = {} /\ PromptsIn(Elements(nextTurn')) = {} /\ Once("prompt", nextTurn')
    BY <1>3, EmptyElements, EmptyOnce, NoPrompts
  <2>4. Parted(Sent, {}, {}, PromptsIn(Elements(batch)), served,
               dropped \cup (PromptsIn(Elements(nextTurn)) \cup Elements(nextStep)))
    BY PartedMoves DEF Kept
  <2>5. Sent' = Sent
    BY <1>1 DEF Sent
  <2> QED
    BY <1>1, <2>2, <2>3, <2>4, <2>5 DEF Kept
<1> QED
  BY <1>1, <1>2, <1>3

LEMMA AgentKept ==
  ASSUME Shape, Kept, AgentRuns
  PROVE  Kept'
<1>1. /\ Sent' = Sent /\ UNCHANGED spent
      /\ nextTurn \in Seq(Messages) /\ nextStep \in Seq(Prompts) /\ Once("prompt", nextTurn)
      /\ Parted(Sent, PromptsIn(Elements(nextTurn)), Elements(nextStep), PromptsIn(Elements(batch)), served, dropped)
  BY AgentCases DEF Sent, Kept, Shape, InboxShape
<1>2. CASE Reopens
  <2>1. batch = <<>> /\ UNCHANGED <<served, dropped>>
    BY <1>2 DEF Reopens, Shape, TurnShape
  <2>2. PromptsIn(Elements(batch)) = {}
    BY <2>1, EmptyElements, NoPrompts
  <2>3. Parted(Sent', PromptsIn(Elements(nextTurn)), Elements(nextStep), {}, served', dropped')
    BY <1>1, <2>1, <2>2
  <2>4. \E w : Opens(w, nextTurn, nextStep)
    BY <1>2 DEF Reopens
  <2> QED
    BY <1>1, <2>3, <2>4, OpensKept
<1>3. CASE UNCHANGED served /\ \E w, u, ending : Yields(w, u, ending)
  <2>1. /\ batch' = <<>> /\ nextTurn' = nextTurn
        /\ \/ nextStep' = nextStep /\ dropped' = dropped \cup PromptsIn(Elements(batch))
           \/ Elements(nextStep') = PromptsIn(Elements(batch)) \cup Elements(nextStep) /\ dropped' = dropped
    BY <1>3 DEF Yields
  <2>2. /\ Parted(Sent, PromptsIn(Elements(nextTurn)), Elements(nextStep), {}, served, dropped \cup PromptsIn(Elements(batch)))
        /\ Parted(Sent, PromptsIn(Elements(nextTurn)), PromptsIn(Elements(batch)) \cup Elements(nextStep), {}, served, dropped)
    BY <1>1, PartedMoves
  <2>3. PromptsIn(Elements(batch')) = {}
    BY <2>1, EmptyElements, NoPrompts
  <2>4. Parted(Sent', PromptsIn(Elements(nextTurn')), Elements(nextStep'), PromptsIn(Elements(batch')), served', dropped')
    BY <1>1, <1>3, <2>1, <2>2, <2>3
  <2>5. Once("prompt", nextTurn)'
    BY <1>1, <2>1 DEF Once
  <2> QED
    BY <2>4, <2>5 DEF Kept
<1>4. CASE PassesFence
  <2>1. UNCHANGED <<nextTurn, nextStep, batch, served, dropped>>
    BY <1>4 DEF PassesFence, inbox
  <2> QED
    BY <1>1, <2>1, SameKept
<1>5. CASE pc = "entering" /\ \E entered \in {batch, PromptsOf(batch)} : Enters(entered)
  <2>1. PICK entered \in {batch, PromptsOf(batch)} : Enters(entered)
    BY <1>5
  <2>2. PromptsIn(Elements(entered)) = PromptsIn(Elements(batch))
    BY <1>5, <2>1, EntersIs
  <2>3. /\ batch' = <<>> /\ served' = served \cup PromptsIn(Elements(batch))
        /\ UNCHANGED <<nextTurn, nextStep, dropped>>
    BY <2>1, <2>2 DEF Enters, inbox
  <2>4. PromptsIn(Elements(batch')) = {}
    BY <2>3, EmptyElements, NoPrompts
  <2>5. Parted(Sent, PromptsIn(Elements(nextTurn)), Elements(nextStep), {}, served \cup PromptsIn(Elements(batch)), dropped)
    BY <1>1, PartedMoves
  <2>6. Parted(Sent', PromptsIn(Elements(nextTurn')), Elements(nextStep'), PromptsIn(Elements(batch')), served', dropped')
    BY <1>1, <2>3, <2>4, <2>5
  <2> QED
    BY <1>1, <2>3, <2>6 DEF Kept
<1>6. CASE Steps
  <2>1. /\ nextStep' = <<>> /\ UNCHANGED <<nextTurn, batch>>
        /\ \/ served' = served \cup Elements(nextStep) /\ dropped' = dropped
           \/ dropped' = dropped \cup Elements(nextStep) /\ served' = served
    BY <1>6 DEF Steps
  <2>2. Elements(nextStep') = {}
    BY <2>1, EmptyElements
  <2>3. /\ Parted(Sent, PromptsIn(Elements(nextTurn)), {}, PromptsIn(Elements(batch)), served \cup Elements(nextStep), dropped)
        /\ Parted(Sent, PromptsIn(Elements(nextTurn)), {}, PromptsIn(Elements(batch)), served, dropped \cup Elements(nextStep))
    BY <1>1, PartedMoves
  <2>4. Parted(Sent', PromptsIn(Elements(nextTurn')), Elements(nextStep'), PromptsIn(Elements(batch')), served', dropped')
    BY <1>1, <2>1, <2>2, <2>3
  <2>5. Once("prompt", nextTurn)'
    BY <1>1, <2>1 DEF Once
  <2> QED
    BY <2>4, <2>5 DEF Kept
<1>7. CASE UNCHANGED served /\ \E v : Settled(v)
  <2>1. batch = <<>> /\ dropped' = dropped
    BY <1>7 DEF Settled
  <2>2. PromptsIn(Elements(batch)) = {}
    BY <2>1, EmptyElements, NoPrompts
  <2>3. Parted(Sent', PromptsIn(Elements(nextTurn)), Elements(nextStep), {}, served', dropped')
    BY <1>1, <1>7, <2>1, <2>2
  <2> QED
    BY <1>1, <1>7, <2>3, SettledKept
<1> QED
  BY <1>2, <1>3, <1>4, <1>5, <1>6, <1>7, AgentCases

LEMMA LoopKept ==
  ASSUME Shape, Kept, spent'.prompts = spent.prompts, NEW v, NEW w, LoopRuns(v, w)
  PROVE  Kept'
<1>1. Good(w) /\ Inserts(w, nextTurn) /\ UNCHANGED <<nextStep, batch, served, dropped>>
  BY DEF LoopRuns, Continues
<1>2. Once("prompt", nextTurn)' /\ PromptsIn(Elements(nextTurn')) = PromptsIn(Elements(nextTurn))
  BY <1>1, InsertsKept DEF Kept
<1>3. Sent' = Sent
  BY DEF Sent
<1>4. Parted(Sent', PromptsIn(Elements(nextTurn')), Elements(nextStep'), PromptsIn(Elements(batch')), served', dropped')
  BY <1>1, <1>2, <1>3 DEF Kept
<1> QED
  BY <1>2, <1>4 DEF Kept

LEMMA KeptNext ==
  ASSUME Shape, Kept, [Next]_vars
  PROVE  Kept'
<1>1. CASE Mutate
  <2>1. spent \in [prompts : 0 .. MaxPrompts, edits : Nat, mishaps : Nat]
    BY DEF Shape, HistoryShape
  <2>2. UNCHANGED <<nextTurn, nextStep, batch, served, dropped>> /\ spent'.prompts = spent.prompts
    BY <1>1, <2>1, MutateIs DEF turn, inbox
  <2> QED
    BY <2>2, SameKept
<1>2. CASE \E queue \in {"next-turn", "next-step"}, wakeup \in BOOLEAN : Send(queue, wakeup)
  BY <1>2, SendKept
<1>3. CASE \E keepInbox \in BOOLEAN : Cancel(keepInbox)
  BY <1>3, CancelKept
<1>4. CASE AgentRuns
  BY <1>4, AgentKept
<1>5. CASE Flushed \/ Retire
  BY <1>5, FlushedIs, RetireIs, LoopKept
<1>6. CASE Unload
  BY <1>6, UnloadKept
<1>7. CASE Unloaded
  BY <1>7, SameKept DEF Unloaded, turn, inbox, history
<1>8. CASE Load
  BY <1>8, SameKept DEF Load, turn, inbox
<1>9. CASE UNCHANGED vars
  BY <1>9, SameKept DEF vars, turn, inbox, history
<1> QED
  BY <1>1, <1>2, <1>3, <1>4, <1>5, <1>6, <1>7, <1>8, <1>9 DEF Next
-----------------------------------------------------------------------------
LEMMA PeopleInit ==
  ASSUME Init
  PROVE  PeopleInv
<1>1. /\ state.attempt = NoAttempt /\ pc = "idle" /\ batch = <<>> /\ nextStep = <<>> /\ breaches = {}
      /\ ~revoked /\ served = {} /\ dropped = {} /\ spent.prompts = 0
  BY DEF Init, FreshState
<1>2. Unwaited
  BY <1>1, NoneAlone DEF Unwaited
<1>3. Withdrawn
  BY <1>1 DEF Withdrawn
<1>4. PICK cap \in Caps : \E goal \in {NoGoal, GoalOf(1, 1, "active", cap, 0)} :
           nextTurn \in IF goal = NoGoal THEN {<<>>} ELSE {<<>>, <<RoundOf(goal)>>}
  BY DEF Init
<1>5. PICK goal \in {NoGoal, GoalOf(1, 1, "active", cap, 0)} : nextTurn = <<>> \/ nextTurn = <<RoundOf(goal)>>
  BY <1>4
<1>6. PromptsIn(Elements(nextTurn)) = {} /\ Once("prompt", nextTurn)
  <2>1. RoundOf(goal).kind = "round"
    BY DEF RoundOf
  <2>2. CASE nextTurn = <<>>
    BY <2>2, EmptyElements, EmptyOnce, NoPrompts
  <2>3. CASE nextTurn = <<RoundOf(goal)>>
    BY <2>1, <2>3 DEF Elements, PromptsIn, Once
  <2> QED
    BY <1>5, <2>2, <2>3
<1>7. Sent = {}
  BY <1>1 DEF Sent
<1>8. Kept
  BY <1>1, <1>6, <1>7, EmptyElements, NoPrompts DEF Kept, Parted
<1> QED
  BY <1>2, <1>3, <1>8 DEF PeopleInv

LEMMA PeopleNext ==
  ASSUME Shape, RoundsInv, RoundsInv', PeopleInv, [Next]_vars
  PROVE  PeopleInv'
<1>1. Unwaited' /\ Withdrawn' /\ Kept'
  BY UnwaitedNext, WithdrawnNext, KeptNext DEF PeopleInv
<1> QED
  BY <1>1 DEF PeopleInv

\* One index of five.
LEMMA OnePlace ==
  ASSUME NEW a, NEW b, NEW c, NEW d, NEW e, NEW m,
         m \in a \cup b \cup c \cup d \cup e,
         m \notin a \cap b, m \notin a \cap c, m \notin a \cap d, m \notin a \cap e, m \notin b \cap c,
         m \notin b \cap d, m \notin b \cap e, m \notin c \cap d, m \notin c \cap e, m \notin d \cap e
  PROVE  LET places == <<a, b, c, d, e>> IN Cardinality({k \in DOMAIN places : m \in places[k]}) = 1
<1> DEFINE places == <<a, b, c, d, e>>
           at == {k \in DOMAIN places : m \in places[k]}
<1>1. /\ DOMAIN places = {1, 2, 3, 4, 5}
      /\ places[1] = a /\ places[2] = b /\ places[3] = c /\ places[4] = d /\ places[5] = e
  OBVIOUS
<1> HIDE DEF places
<1>2. \E k : at = {k}
  <2>1. CASE m \in a
    <3>1. at = {1}
      BY <1>1, <2>1
    <3> QED
      BY <3>1
  <2>2. CASE m \in b
    <3>1. at = {2}
      BY <1>1, <2>2
    <3> QED
      BY <3>1
  <2>3. CASE m \in c
    <3>1. at = {3}
      BY <1>1, <2>3
    <3> QED
      BY <3>1
  <2>4. CASE m \in d
    <3>1. at = {4}
      BY <1>1, <2>4
    <3> QED
      BY <3>1
  <2>5. CASE m \in e
    <3>1. at = {5}
      BY <1>1, <2>5
    <3> QED
      BY <3>1
  <2> QED
    BY <2>1, <2>2, <2>3, <2>4, <2>5
<1> HIDE DEF at
<1>3. Cardinality(at) = 1
  BY <1>2, FS_Singleton
<1> QED
  BY <1>3 DEF at, places

LEMMA PeopleYield ==
  ASSUME PeopleInv
  PROVE  YieldsToPeople
<1> DEFINE places == <<Elements(nextTurn), Elements(nextStep), Elements(batch), served, dropped>>
<1>1. breaches \cap {"overtook", "restarted"} = {}
  BY DEF PeopleInv, Unwaited, Withdrawn
<1>2. ASSUME NEW m \in Sent PROVE Cardinality({k \in DOMAIN places : m \in places[k]}) = 1
  <2>1. m.kind = "prompt"
    BY <1>2 DEF Sent, Prompt
  <2>2. /\ m \in PromptsIn(Elements(nextTurn)) <=> m \in Elements(nextTurn)
        /\ m \in PromptsIn(Elements(batch)) <=> m \in Elements(batch)
    BY <2>1 DEF PromptsIn
  <2>3. Parted(Sent, PromptsIn(Elements(nextTurn)), Elements(nextStep), PromptsIn(Elements(batch)), served, dropped)
    BY DEF PeopleInv, Kept
  <2>4. /\ m \in Elements(nextTurn) \cup Elements(nextStep) \cup Elements(batch) \cup served \cup dropped
        /\ m \notin Elements(nextTurn) \cap Elements(nextStep) /\ m \notin Elements(nextTurn) \cap Elements(batch)
        /\ m \notin Elements(nextTurn) \cap served /\ m \notin Elements(nextTurn) \cap dropped
        /\ m \notin Elements(nextStep) \cap Elements(batch) /\ m \notin Elements(nextStep) \cap served
        /\ m \notin Elements(nextStep) \cap dropped /\ m \notin Elements(batch) \cap served
        /\ m \notin Elements(batch) \cap dropped /\ m \notin served \cap dropped
    BY <1>2, <2>2, <2>3 DEF Parted
  <2> QED
    BY <2>4, OnePlace
<1> QED
  BY <1>1, <1>2 DEF YieldsToPeople

\* Automatic work yields to people: no round enters before a prompt that was
\* queued when it was claimed, none is reserved after a cancel that nobody took
\* back, if it hit a queued round or came before the turn's last look at its
\* signal, and every message sent is queued, claimed, entered or dropped, once:
\* the stale mark, the pause at agent/status and restoreOtherClaimed of
\* src/packages/goal/goal-round-driver/src/index.ts.
THEOREM PeopleCorrect == Spec => []YieldsToPeople
<1>1. Init => Inv
  BY ShapeInit, RoundsInit, PeopleInit DEF Inv
<1>2. Inv /\ [Next]_vars => Inv'
  BY ShapeNext, RoundsNext, PeopleNext DEF Inv
<1>3. Inv => YieldsToPeople
  BY PeopleYield DEF Inv
<1> QED
  BY <1>1, <1>2, <1>3, PTL DEF Spec
=============================================================================
