------------------------ MODULE AgentLifecycleProofs ------------------------
(***************************************************************************)
(* Proofs about the calls on one identity, for every set of callers and    *)
(* every environment budget.                                               *)
(*                                                                         *)
(* Inv ties where a call stands to the entry it holds (HolderInv), the log *)
(* to the Session that owns it (OwnerInv) and a queued operation to what   *)
(* must still hold when it runs (ChainInv, LosingInv, PendingInv).  An     *)
(* action is shown to keep it in a lemma ...Keeps.  FreshInv, on top of    *)
(* it, compares what a load or inspect knew when it began with the log and *)
(* the tail of its owner; an action is shown to keep it in a lemma         *)
(* ...Fresh.                                                               *)
(***************************************************************************)
EXTENDS AgentLifecycle, SequenceTheorems, FiniteSetTheorems, TLAPS

-----------------------------------------------------------------------------
(* Prefixes of logs *)

LEMMA PrefixIs ==
  ASSUME NEW S, NEW s \in Seq(S), NEW t \in Seq(S)
  PROVE  IsPrefix(s, t) <=> Len(s) <= Len(t) /\ \A i \in 1 .. Len(s) : s[i] = t[i]
<1>1. Len(s) \in Nat /\ Len(t) \in Nat
  OBVIOUS
<1>2. SubSeq(s, 1, Len(s)) = s
  BY SubSeqFull
<1>3. ASSUME Len(s) <= Len(t)
      PROVE  /\ SubSeq(t, 1, Len(s)) \in Seq(S) /\ Len(SubSeq(t, 1, Len(s))) = Len(s)
             /\ \A i \in 1 .. Len(s) : SubSeq(t, 1, Len(s))[i] = t[i]
  <2>1. \A i \in 1 .. Len(s) : t[i] \in S
    BY <1>1, <1>3
  <2> QED
    BY <1>1, <1>3, <2>1, SubSeqProperties
<1>4. ASSUME Len(s) <= Len(t), \A i \in 1 .. Len(s) : s[i] = t[i]
      PROVE  s = SubSeq(t, 1, Len(s))
  <2> DEFINE u == SubSeq(t, 1, Len(s))
  <2>1. u \in Seq(S) /\ Len(u) = Len(s) /\ \A i \in 1 .. Len(s) : s[i] = u[i]
    BY <1>3, <1>4
  <2> HIDE DEF u
  <2>2. s = u
    BY <2>1, SeqEqual
  <2> QED
    BY <2>2 DEF u
<1> QED
  BY <1>2, <1>3, <1>4 DEF IsPrefix

LEMMA PrefixOrder ==
  ASSUME NEW S, NEW s \in Seq(S), NEW t \in Seq(S)
  PROVE  /\ IsPrefix(s, s) /\ IsPrefix(<<>>, s)
         /\ \A u \in Seq(S) : IsPrefix(s, t) /\ IsPrefix(t, u) => IsPrefix(s, u)
         /\ IsPrefix(s, s \o t)
         /\ \A e \in S : IsPrefix(s, Append(s, e))
<1> USE DEF IsPrefix
<1>1. Len(s) \in Nat /\ Len(t) \in Nat /\ <<>> \in Seq(S) /\ Len(<<>>) = 0
  BY EmptySeq
<1>2. IsPrefix(s, s) /\ IsPrefix(<<>>, s)
  BY <1>1, PrefixIs
<1>3. ASSUME NEW u \in Seq(S), IsPrefix(s, t), IsPrefix(t, u) PROVE IsPrefix(s, u)
  <2>1. Len(s) <= Len(t) /\ \A i \in 1 .. Len(s) : s[i] = t[i]
    BY <1>3, PrefixIs
  <2>2. Len(t) <= Len(u) /\ \A i \in 1 .. Len(t) : t[i] = u[i]
    BY <1>3, PrefixIs
  <2>3. Len(u) \in Nat
    OBVIOUS
  <2>4. Len(s) <= Len(u) /\ \A i \in 1 .. Len(s) : s[i] = u[i]
    BY <1>1, <2>1, <2>2, <2>3
  <2> QED
    BY <2>4, PrefixIs
<1>4. IsPrefix(s, s \o t)
  <2> DEFINE u == s \o t
  <2>1. u \in Seq(S) /\ Len(u) = Len(s) + Len(t) /\ \A i \in 1 .. Len(s) : u[i] = s[i]
    BY <1>1, ConcatProperties
  <2> HIDE DEF u
  <2>2. IsPrefix(s, u)
    BY <1>1, <2>1, PrefixIs
  <2> QED
    BY <2>2 DEF u
<1>5. ASSUME NEW e \in S PROVE IsPrefix(s, Append(s, e))
  <2> DEFINE u == Append(s, e)
  <2>1. u \in Seq(S) /\ Len(u) = Len(s) + 1 /\ \A i \in 1 .. Len(s) : u[i] = s[i]
    BY <1>1, AppendProperties
  <2> HIDE DEF u
  <2>2. IsPrefix(s, u)
    BY <1>1, <2>1, PrefixIs
  <2> QED
    BY <2>2 DEF u
<1> QED
  BY <1>2, <1>3, <1>4, <1>5

\* The first n events of a log.
LEMMA BeginningOf ==
  ASSUME NEW S, NEW s \in Seq(S), NEW n \in Nat, n <= Len(s)
  PROVE  /\ SubSeq(s, 1, n) \in Seq(S) /\ Len(SubSeq(s, 1, n)) = n
         /\ \A i \in 1 .. n : SubSeq(s, 1, n)[i] = s[i]
         /\ IsPrefix(SubSeq(s, 1, n), s)
<1> DEFINE t == SubSeq(s, 1, n)
<1>1. Len(s) \in Nat /\ \A i \in 1 .. n : s[i] \in S
  OBVIOUS
<1>2. t \in Seq(S) /\ Len(t) = n /\ \A i \in 1 .. n : t[i] = s[i]
  BY <1>1, SubSeqProperties
<1> HIDE DEF t
<1>3. IsPrefix(t, s)
  BY <1>1, <1>2, PrefixIs
<1> QED
  BY <1>2, <1>3 DEF t

\* What appendCore stores: the events behind the cursor of the log continue it.
LEMMA Continued ==
  ASSUME NEW S, NEW s \in Seq(S), NEW t \in Seq(S), IsPrefix(s, t),
         NEW n \in Nat, n <= Len(t)
  PROVE  /\ s \o SubSeq(t, Len(s) + 1, n) \in Seq(S)
         /\ Len(s \o SubSeq(t, Len(s) + 1, n)) = (IF n > Len(s) THEN n ELSE Len(s))
         /\ IsPrefix(s, s \o SubSeq(t, Len(s) + 1, n))
         /\ IsPrefix(s \o SubSeq(t, Len(s) + 1, n), t)
         /\ n <= Len(s) => s \o SubSeq(t, Len(s) + 1, n) = s
         /\ n > Len(s) => s \o SubSeq(t, Len(s) + 1, n) = SubSeq(t, 1, n)
<1> DEFINE u == SubSeq(t, Len(s) + 1, n)
           v == s \o u
           m == IF n > Len(s) THEN n ELSE Len(s)
<1>1. Len(s) \in Nat /\ Len(t) \in Nat /\ Len(s) <= Len(t) /\ m \in Nat /\ m <= Len(t)
  BY DEF IsPrefix
<1>2. \A i \in 1 .. Len(s) : s[i] = t[i]
  BY PrefixIs
<1>3. \A i \in (Len(s) + 1) .. n : t[i] \in S
  BY <1>1
<1>4. /\ u \in Seq(S) /\ Len(u) = m - Len(s)
      /\ \A i \in 1 .. (m - Len(s)) : u[i] = t[Len(s) + i]
  <2>1. Len(s) + 1 \in Int /\ n \in Int
    BY <1>1
  <2>2. /\ u \in Seq(S) /\ Len(u) = IF Len(s) + 1 <= n THEN n - (Len(s) + 1) + 1 ELSE 0
        /\ \A i \in 1 .. n - (Len(s) + 1) + 1 : u[i] = t[Len(s) + 1 + i - 1]
    BY <1>3, <2>1, SubSeqProperties
  <2> HIDE DEF u
  <2> QED
    BY <1>1, <2>2
<1> HIDE DEF u
<1>5. /\ v \in Seq(S) /\ Len(v) = Len(s) + Len(u)
      /\ \A i \in 1 .. Len(s) + Len(u) : v[i] = IF i <= Len(s) THEN s[i] ELSE u[i - Len(s)]
  BY <1>4, ConcatProperties
<1> HIDE DEF v
<1>6. Len(v) = m
  BY <1>1, <1>4, <1>5
<1>7. \A i \in 1 .. m : v[i] = t[i]
  BY <1>1, <1>2, <1>4, <1>5
<1>8. IsPrefix(v, t)
  BY <1>1, <1>5, <1>6, <1>7, PrefixIs
<1>9. IsPrefix(s, v)
  BY <1>1, <1>4, <1>5, PrefixIs
<1>10. ASSUME n <= Len(s) PROVE v = s
  <2>1. Len(v) = Len(s) /\ \A i \in 1 .. Len(s) : v[i] = s[i]
    BY <1>1, <1>2, <1>6, <1>7, <1>10
  <2> QED
    BY <1>5, <2>1, SeqEqual
<1>11. ASSUME n > Len(s) PROVE v = SubSeq(t, 1, n)
  <2> DEFINE w == SubSeq(t, 1, n)
  <2>1. w \in Seq(S) /\ Len(w) = n /\ \A i \in 1 .. n : w[i] = t[i]
    BY BeginningOf
  <2> HIDE DEF w
  <2>2. v = w
    BY <1>1, <1>5, <1>6, <1>7, <1>11, <2>1, SeqEqual
  <2> QED
    BY <2>2 DEF w
<1> QED
  BY <1>1, <1>5, <1>6, <1>8, <1>9, <1>10, <1>11 DEF u, v
-----------------------------------------------------------------------------
(* Entry numbers, and the chain *)

\* Numbers of entries are never used up: fewer are in use than FreshNo chooses from.
LEMMA FreshNoIsUnused ==
  ASSUME TypeOK
  PROVE  FreshNo \in Nat /\ FreshNo > 0 /\ Unused(FreshNo)
<1> DEFINE K == Cardinality(Callers) + Len(chain) + 2
           Held == {calls[c].entry : c \in Callers}
           Read0 == {chain[i].n : i \in DOMAIN chain}
           Used == {entry.no} \cup (Held \cup Read0)
<1>1. /\ entry.no \in Nat /\ Len(chain) \in Nat /\ DOMAIN chain = 1 .. Len(chain)
  BY DEF TypeOK
<1>2. IsFiniteSet(Callers) /\ Cardinality(Callers) \in Nat
  BY PreparationsAssumption, FS_CardinalityType
<1>3. IsFiniteSet(Held) /\ Cardinality(Held) <= Cardinality(Callers)
  <2> DEFINE f == [c \in Callers |-> calls[c].entry]
  <2>1. f \in Surjection(Callers, Held)
    BY DEF Surjection
  <2> HIDE DEF f, Held
  <2> QED
    BY <1>2, <2>1, FS_Surjection
<1>4. IsFiniteSet(Read0) /\ Cardinality(Read0) <= Len(chain)
  <2> DEFINE f == [i \in 1 .. Len(chain) |-> chain[i].n]
  <2>1. f \in Surjection(1 .. Len(chain), Read0)
    BY <1>1 DEF Surjection
  <2>2. IsFiniteSet(1 .. Len(chain)) /\ Cardinality(1 .. Len(chain)) = Len(chain)
    <3>1. \A m \in Nat : IsFiniteSet(1 .. m) /\ Cardinality(1 .. m) = m
      BY FS_Interval
    <3> QED
      BY <1>1, <3>1
  <2> HIDE DEF f, Read0
  <2> QED
    BY <2>1, <2>2, FS_Surjection
<1> HIDE DEF Held, Read0
<1>5. /\ IsFiniteSet(Held \cup Read0)
      /\ Cardinality(Held \cup Read0) <= Cardinality(Callers) + Len(chain)
  <2>1. IsFiniteSet(Held \cap Read0) /\ Cardinality(Held \cap Read0) \in Nat
    BY <1>3, FS_Intersection, FS_CardinalityType
  <2>2. Cardinality(Held) \in Nat /\ Cardinality(Read0) \in Nat
    BY <1>3, <1>4, FS_CardinalityType
  <2>3. /\ IsFiniteSet(Held \cup Read0)
        /\ Cardinality(Held \cup Read0)
             = Cardinality(Held) + Cardinality(Read0) - Cardinality(Held \cap Read0)
    BY <1>3, <1>4, FS_Union
  <2> QED
    BY <1>1, <1>2, <1>3, <1>4, <2>1, <2>2, <2>3
<1>6. IsFiniteSet(Used) /\ Cardinality(Used) < K /\ Cardinality(Used) \in Nat
  <2>1. Used = (Held \cup Read0) \cup {entry.no}
    OBVIOUS
  <2>2. IsFiniteSet(Used)
        /\ Cardinality(Used) = IF entry.no \in Held \cup Read0 THEN Cardinality(Held \cup Read0)
                               ELSE Cardinality(Held \cup Read0) + 1
    BY <1>5, <2>1, FS_AddElement
  <2>3. Cardinality(Held \cup Read0) \in Nat
    BY <1>5, FS_CardinalityType
  <2> QED
    BY <1>1, <1>2, <1>5, <2>2, <2>3
<1> HIDE DEF Used
<1>7. \E n \in 1 .. K : n \notin Used
  <2> SUFFICES ASSUME 1 .. K \subseteq Used PROVE FALSE
    OBVIOUS
  <2>1. Cardinality(1 .. K) <= Cardinality(Used)
    BY <1>6, FS_Subset
  <2>2. Cardinality(1 .. K) = K
    BY <1>1, <1>2, FS_Interval
  <2> QED
    BY <1>1, <1>2, <1>6, <2>1, <2>2
<1>8. \A n \in 1 .. K : n \notin Used => Unused(n)
  BY DEF Used, Held, Read0, Unused
<1>9. FreshNo \in 1 .. K /\ Unused(FreshNo)
  BY <1>7, <1>8 DEF FreshNo
<1> QED
  BY <1>1, <1>2, <1>9

\* Queueing, running and dropping an operation.
LEMMA EnqueuedIs ==
  ASSUME chain \in Seq(Op), NEW op \in {"read", "commit", "check", "created", "seed", "drain", "retire"},
         NEW by \in Callers \cup {nobody}, NEW n \in Nat, Enqueued(op, by, n)
  PROVE  /\ chain' \in Seq(Op) /\ Len(chain) \in Nat /\ Len(chain') = Len(chain) + 1
         /\ DOMAIN chain = 1 .. Len(chain) /\ DOMAIN chain' = 1 .. Len(chain) + 1
         /\ \A i \in DOMAIN chain : chain'[i] = chain[i]
         /\ chain'[Len(chain) + 1] = [op |-> op, by |-> by, n |-> n]
<1>1. [op |-> op, by |-> by, n |-> n] \in Op
  BY DEF Op
<1> QED
  BY <1>1, AppendProperties, LenProperties DEF Enqueued

LEMMA FirstIs ==
  ASSUME chain \in Seq(Op), NEW op, NEW by, First(op, by)
  PROVE  /\ chain' \in Seq(Op) /\ Len(chain) \in Nat /\ Len(chain) > 0 /\ Len(chain') = Len(chain) - 1
         /\ DOMAIN chain = 1 .. Len(chain) /\ DOMAIN chain' = 1 .. Len(chain) - 1
         /\ \A i \in DOMAIN chain' : chain'[i] = chain[i + 1]
         /\ 1 \in DOMAIN chain /\ Head(chain) = chain[1] /\ chain[1] \in Op
         /\ chain[1].op = op /\ chain[1].by = by
<1>1. chain # <<>> /\ chain' = Tail(chain) /\ Head(chain).op = op /\ Head(chain).by = by
  BY DEF First
<1>2. Len(chain) \in Nat \ {0} /\ DOMAIN chain = 1 .. Len(chain) /\ Head(chain) = chain[1] /\ chain[1] \in Op
  BY <1>1, EmptySeq, LenProperties, ElementOfSeq
<1>3. /\ chain' \in Seq(Op) /\ Len(chain') = Len(chain) - 1
      /\ \A i \in 1 .. Len(chain') : chain'[i] = chain[i + 1]
  BY <1>1, HeadTailProperties
<1>4. DOMAIN chain' = 1 .. Len(chain')
  BY <1>3, LenProperties
<1> QED
  BY <1>1, <1>2, <1>3, <1>4

LEMMA RemoveAtIs ==
  ASSUME NEW S, NEW s \in Seq(S), NEW k \in DOMAIN s
  PROVE  /\ RemoveAt(s, k) \in Seq(S) /\ Len(s) \in Nat /\ k \in Nat /\ Len(RemoveAt(s, k)) = Len(s) - 1
         /\ DOMAIN s = 1 .. Len(s) /\ DOMAIN RemoveAt(s, k) = 1 .. Len(s) - 1
         /\ \A i \in DOMAIN RemoveAt(s, k) : RemoveAt(s, k)[i] = IF i < k THEN s[i] ELSE s[i + 1]
<1> DEFINE t == SubSeq(s, 1, k - 1)
           u == SubSeq(s, k + 1, Len(s))
           v == t \o u
<1>1. Len(s) \in Nat /\ DOMAIN s = 1 .. Len(s) /\ k \in 1 .. Len(s) /\ \A i \in 1 .. Len(s) : s[i] \in S
  OBVIOUS
<1>2. t \in Seq(S) /\ Len(t) = k - 1 /\ \A i \in 1 .. k - 1 : t[i] = s[i]
  <2>1. k - 1 \in Nat /\ k - 1 <= Len(s)
    BY <1>1
  <2> QED
    BY <2>1, BeginningOf
<1>3. u \in Seq(S) /\ Len(u) = Len(s) - k /\ \A i \in 1 .. Len(s) - k : u[i] = s[k + i]
  <2>1. k + 1 \in Int /\ Len(s) \in Int /\ \A i \in k + 1 .. Len(s) : s[i] \in S
    BY <1>1
  <2>2. /\ u \in Seq(S) /\ Len(u) = IF k + 1 <= Len(s) THEN Len(s) - (k + 1) + 1 ELSE 0
        /\ \A i \in 1 .. Len(s) - (k + 1) + 1 : u[i] = s[k + 1 + i - 1]
    BY <2>1, SubSeqProperties
  <2> HIDE DEF u
  <2>3. Len(u) = Len(s) - k
    BY <1>1, <2>2
  <2>4. ASSUME NEW i \in 1 .. Len(s) - k PROVE u[i] = s[k + i]
    <3>1. i \in 1 .. Len(s) - (k + 1) + 1 /\ k + 1 + i - 1 = k + i
      BY <1>1
    <3> QED
      BY <2>2, <3>1
  <2> QED
    BY <2>2, <2>3, <2>4
<1> HIDE DEF t, u
<1>4. /\ v \in Seq(S) /\ Len(v) = Len(t) + Len(u)
      /\ \A i \in 1 .. Len(t) + Len(u) : v[i] = IF i <= Len(t) THEN t[i] ELSE u[i - Len(t)]
  BY <1>2, <1>3, ConcatProperties
<1> HIDE DEF v
<1>5. Len(v) = Len(s) - 1 /\ DOMAIN v = 1 .. Len(s) - 1
  <2>1. DOMAIN v = 1 .. Len(v)
    BY <1>4, LenProperties
  <2> QED
    BY <1>1, <1>2, <1>3, <1>4, <2>1
<1>6. ASSUME NEW i \in 1 .. Len(s) - 1 PROVE v[i] = IF i < k THEN s[i] ELSE s[i + 1]
  <2>1. CASE i < k
    BY <1>1, <1>2, <1>3, <1>4, <2>1
  <2>2. CASE ~(i < k)
    <3>1. i - (k - 1) \in 1 .. Len(s) - k /\ k + (i - (k - 1)) = i + 1
      BY <1>1, <2>2
    <3>2. v[i] = u[i - (k - 1)]
      BY <1>1, <1>2, <1>3, <1>4, <2>2
    <3> QED
      BY <1>3, <2>2, <3>1, <3>2
  <2> QED
    BY <2>1, <2>2
<1>7. RemoveAt(s, k) = v
  BY DEF RemoveAt, t, u, v
<1>8. k \in Nat
  BY <1>1
<1> QED
  BY <1>1, <1>4, <1>5, <1>6, <1>7, <1>8, Zenon
-----------------------------------------------------------------------------
(* The inductive invariant *)

\* The places a call of each kind can be in.
Resuming == {"waiting", "reading", "read", "queued", "committing", "committed", "reserved",
             "setup", "vetoed", "rollback", "live", "disposing", "done", "failed"}
Places(kind) ==
  CASE kind = "none" -> {"idle"}
    [] kind = "create" -> {"idle", "setup", "vetoed", "rollback", "live", "disposing", "done", "failed"}
    [] kind = "resume" -> {"idle"} \cup Resuming
    [] kind = "configured" -> {"idle", "draining", "listing", "creating"} \cup Resuming
    [] kind = "load" -> {"idle", "waiting", "reading", "read", "queued", "committing", "committed",
                         "flushing", "done", "failed"}
    [] kind = "inspect" -> {"idle", "waiting", "reading", "read", "checking", "fresh", "stale",
                            "done", "failed"}

PlacesInv == \A c \in Callers : calls[c].at \in Places(calls[c].kind)

\* A Session is published once, by a call that goes on to be live or has ended.
SessionInv ==
  \A c \in Callers :
    /\ sessions[c].stage \in {"none", "vetoed", "withdrawn"} <=> sessions[c].init = "none"
    /\ sessions[c].stage = "none" => \A i \in DOMAIN sessions[c].events : sessions[c].events[i].by = c
    /\ sessions[c].stage # "none" =>
         calls[c].at \in {"live", "vetoed", "disposing", "done", "failed", "rollback", "listing"}
    /\ calls[c].kind = "configured" /\ calls[c].at \in {"vetoed", "rollback", "listing"} /\ sessions[c].stage # "none"
         => stored # <<>>
    /\ sessions[c].seeded <= Len(sessions[c].events)

RegistryInv ==
  /\ live # nobody => sessions[live].stage \in {"live", "vetoed"}
  /\ \A c \in Callers : sessions[c].stage \in {"live", "vetoed"} => live = c
  /\ \A c \in Callers : calls[c].at \in {"live", "vetoed", "disposing"} => live = c
  /\ retiring # nobody => sessions[retiring].stage \in {"retiring", "leaving"}

\* A Session that is live and not attached: its preparation is still reserved, or
\* it had none.
VetoInv ==
  \A c \in Callers : sessions[c].stage = "vetoed" =>
    /\ calls[c].at \in {"vetoed", "failed"}
    /\ sessions[c].seeded = Len(sessions[c].events)
    /\ entry.holder = c => sessions[c].events = Prepared
    /\ entry.holder # c =>
         calls[c].kind # "resume" /\ \A i \in DOMAIN sessions[c].events : sessions[c].events[i].by = c

\* The log and its owner.
OwnerInv ==
  /\ tracked.owner # nobody =>
       /\ tracked.known
       /\ IsPrefix(stored, sessions[tracked.owner].events) /\ tracked.cursor = Len(stored)
       /\ sessions[tracked.owner].stage \notin {"none", "vetoed", "withdrawn", "retired"}
       /\ \A i \in DOMAIN sessions[tracked.owner].events :
            i > Len(stored) => sessions[tracked.owner].events[i].by = tracked.owner
       /\ sessions[tracked.owner].init = "ok" => sessions[tracked.owner].seeded <= tracked.cursor
  /\ tracked.known /\ tracked.owner = nobody => 0 < tracked.cursor /\ tracked.cursor <= Len(stored)
  /\ ~tracked.known => tracked.owner = nobody
  /\ \A i \in DOMAIN stored : stored[i].by \in Callers => sessions[stored[i].by].init = "ok"
WantedInv ==
  /\ \A c \in Callers :
       sessions[c].init = "ok" /\ sessions[c].stage \in {"live", "retiring"} /\ sessions[c].events # <<>>
         => Owns(c)
  /\ live # nobody /\ sessions[live].init = "ok" => Owns(live)

\* The entry and its holder.
EntryInv ==
  /\ entry.no = 0 => entry = NoEntry
  /\ entry.phase = "none" => entry.no = 0
  /\ entry.phase = "loading" => entry.source = <<>>
  /\ Exclusive <=> entry.holder # nobody
  /\ entry.phase \in {"ready", "committing", "reserved"} => entry.source # <<>>
  /\ entry.added # <<>> => entry.phase = "reserved" /\ calls[entry.holder].at \in {"setup", "vetoed", "rollback"}
  /\ \A i \in DOMAIN entry.added : entry.added[i].by = entry.holder
  /\ live # nobody => entry = NoEntry \/ Unattached
  /\ tracked.owner # nobody /\ entry.phase \in {"ready", "committing"} => entry.source = stored

Settled ==
  /\ tracked.known /\ tracked.owner = nobody /\ tracked.cursor = Len(stored)
  /\ entry.source = stored /\ ~Interrupted(stored)
HolderInv ==
  /\ \A c \in Callers : entry.holder = c =>
       /\ \/ entry.phase = "committing" /\ calls[c].at \in {"committing", "committed"}
          \/ entry.phase = "reserved" /\ calls[c].at \in {"reserved", "setup", "vetoed", "rollback"}
       /\ sessions[c].stage \in {"none", "vetoed", "withdrawn"}
  /\ \A c \in Callers : calls[c].at \in {"committed", "reserved"} => entry.holder = c
  /\ \A c \in Callers : calls[c].at = "setup" /\ calls[c].kind # "create" => entry.holder = c
  /\ entry.phase = "reserved" => Settled
  /\ \A c \in Callers : calls[c].at = "committed" => Settled

\* A call whose entry an append removed will be refused.
Losing(c) == calls[c].at = "committing" /\ entry.holder # c
LosingInv ==
  /\ \A c \in Callers : calls[c].at = "committing" => Queued("commit", c)
  /\ \A c \in Callers : Losing(c) =>
       /\ tracked.owner # nobody /\ tracked.cursor > 0
       /\ \A i, j \in DOMAIN chain :
            chain[j].op = "commit" /\ chain[j].by = c /\ chain[i].op = "retire" /\ chain[i].by = tracked.owner
              => j < i

\* What a queued operation says of its caller or Session.
Started(c) == sessions[c].stage \in {"live", "retiring"}
OpInv(o) ==
  /\ o.op = "read" => o.by = nobody /\ o.n > 0
  /\ o.op # "read" => o.by \in Callers
  /\ o.op = "commit" => At(o.by, "committing")
  /\ o.op = "check" => At(o.by, "checking")
  /\ o.op = "created" =>
       /\ sessions[o.by].init = "pending" /\ Started(o.by) /\ ~Owns(o.by)
       /\ \A i \in DOMAIN sessions[o.by].events : sessions[o.by].events[i].by = o.by
  /\ o.op = "seed" => sessions[o.by].init = "pending" /\ Started(o.by) /\ Owns(o.by) /\ tracked.cursor > 0
  /\ o.op = "drain" =>
       /\ sessions[o.by].init = "ok" /\ Started(o.by) /\ Owns(o.by)
       /\ 0 < o.n /\ o.n <= Len(sessions[o.by].events)
  /\ o.op = "retire" =>
       /\ sessions[o.by].init = "ok" /\ sessions[o.by].stage = "leaving"
       /\ Owns(o.by) => Len(sessions[o.by].events) <= tracked.cursor
ChainInv ==
  /\ \A i \in DOMAIN chain : OpInv(chain[i])
  /\ \A i, j \in DOMAIN chain :
       chain[i].op = chain[j].op /\ chain[i].by = chain[j].by /\ (chain[i].op = "read" => chain[i].n = chain[j].n)
         => i = j
\* An initialisation that is queued keeps calls from the entry.
PendingEntry ==
  \A i \in DOMAIN chain : chain[i].op \in {"created", "seed"} =>
    /\ entry.phase \in {"none", "loading"}
    /\ entry.phase = "loading" =>
         \E j \in DOMAIN chain : j > i /\ chain[j].op = "read" /\ chain[j].n = entry.no
PendingLive ==
  \A i \in DOMAIN chain : chain[i].op = "created" /\ live # nobody /\ ~Unattached =>
    \E j \in DOMAIN chain : j >= i /\ chain[j].op = "created" /\ chain[j].by = live
PendingInit == \A c \in Callers : sessions[c].init = "pending" => Queued("seed", c) \/ Queued("created", c)
ReadsPending ==
  \A i \in DOMAIN chain : chain[i].op = "read" /\ chain[i].n = entry.no => entry.phase = "loading"
PendingInv == PendingEntry /\ PendingLive /\ PendingInit /\ ReadsPending

IInv ==
  /\ PlacesInv /\ SessionInv /\ RegistryInv /\ VetoInv
  /\ OwnerInv /\ WantedInv
  /\ EntryInv /\ HolderInv /\ LosingInv
  /\ ChainInv /\ PendingInv

Inv == TypeOK /\ IInv
-----------------------------------------------------------------------------
(* Calls: what the steps of one leave of the others *)

\* Every call but that of c is as it was, or wakes up to look at the entry again.
Others(c, cs) ==
  \A d \in Callers : d # c =>
    \/ cs[d] = calls[d]
    \/ calls[d].at = "queued" /\ cs[d] = [calls[d] EXCEPT !.at = "read"]
Turn(c, cs) ==
  /\ cs \in [Callers -> Call] /\ Others(c, cs)
  /\ cs[c].kind = calls[c].kind

LEMMA RejectedIs ==
  ASSUME NEW cs \in [Callers -> Call], NEW c \in Callers
  PROVE  LET t == Rejected(c, cs) IN
         /\ t \in [Callers -> Call] /\ \A d \in Callers : d # c => t[d] = cs[d]
         /\ t[c].at = IF cs[c].kind = "configured" /\ ~cs[c].aborted THEN "listing" ELSE "failed"
         /\ t[c].kind = cs[c].kind /\ t[c].entry = 0 /\ t[c].source = <<>>
         /\ t[c].known = <<>> /\ t[c].awaits = nobody
         /\ t[c].aborted = cs[c].aborted /\ t[c].borrowed = cs[c].borrowed
<1> DEFINE place == IF cs[c].kind = "configured" /\ ~cs[c].aborted THEN "listing" ELSE "failed"
           r == [cs[c] EXCEPT !.at = place, !.entry = 0, !.source = <<>>, !.known = <<>>, !.awaits = nobody]
<1>1. <<>> \in Seq(Event)
  BY EmptySeq
<1>2. Rejected(c, cs) = [cs EXCEPT ![c] = r]
  BY DEF Rejected
<1>3. place \in {"listing", "failed"}
  OBVIOUS
<1> HIDE DEF place
<1>4. /\ r \in Call /\ r.at = place /\ r.kind = cs[c].kind /\ r.entry = 0 /\ r.source = <<>>
      /\ r.known = <<>> /\ r.awaits = nobody /\ r.aborted = cs[c].aborted /\ r.borrowed = cs[c].borrowed
  BY <1>1, <1>3 DEF Call
<1> HIDE DEF r
<1> QED
  BY <1>2, <1>4 DEF place

LEMMA ReturnedIs ==
  ASSUME calls \in [Callers -> Call], NEW c \in Callers, NEW view \in Seq(Event), NEW lent \in BOOLEAN
  PROVE  LET t == Returned(c, view, lent) IN
         /\ t \in [Callers -> Call] /\ \A d \in Callers : d # c => t[d] = calls[d]
         /\ t[c].at = "done" /\ t[c].source = view /\ t[c].borrowed = lent
         /\ t[c].kind = calls[c].kind /\ t[c].entry = 0
         /\ t[c].known = calls[c].known /\ t[c].awaits = calls[c].awaits
         /\ t[c].aborted = calls[c].aborted
<1> DEFINE r == [calls[c] EXCEPT !.at = "done", !.entry = 0, !.source = view, !.borrowed = lent]
<1>1. Returned(c, view, lent) = [calls EXCEPT ![c] = r]
  BY DEF Returned
<1>2. /\ r \in Call /\ r.at = "done" /\ r.source = view /\ r.borrowed = lent
      /\ r.kind = calls[c].kind /\ r.entry = 0 /\ r.known = calls[c].known
      /\ r.awaits = calls[c].awaits /\ r.aborted = calls[c].aborted
  BY DEF Call
<1> HIDE DEF r
<1> QED
  BY <1>1, <1>2

LEMMA WokenIs ==
  ASSUME NEW cs \in [Callers -> Call]
  PROVE  /\ Woken(cs) \in [Callers -> Call]
         /\ \A d \in Callers : Woken(cs)[d] = IF cs[d].at = "queued" THEN [cs[d] EXCEPT !.at = "read"] ELSE cs[d]
BY DEF Call, Woken

\* What a look of c, from the calls cs and the entry e, leaves.
Rejects(c, e) ==
  /\ calls'[c].at \in {"listing", "failed"} /\ (calls'[c].at = "listing" => calls'[c].kind = "configured")
  /\ entry' = e /\ chain' = chain
Borrows(c, e) ==
  /\ live # nobody /\ entry' = e /\ chain' = chain
  /\ calls'[c].source = sessions[live].events
  /\ \/ calls'[c].kind = "load" /\ calls'[c].at = "flushing" /\ calls'[c].awaits = live
     \/ calls'[c].kind = "inspect" /\ calls'[c].at = "done"
Loads(c, e) ==
  /\ live = nobody /\ e.no = 0 /\ entry' = Loading(FreshNo) /\ Enqueued("read", nobody, FreshNo)
  /\ FreshNo \in Nat /\ FreshNo > 0 /\ Unused(FreshNo)
  /\ calls'[c].at = "reading" /\ calls'[c].entry = FreshNo /\ calls'[c].source = <<>>
Joins(c, e) ==
  /\ live = nobody /\ e.no # 0 /\ entry' = e /\ chain' = chain
  /\ calls'[c].at = (IF e.phase = "loading" THEN "reading" ELSE "read")
  /\ calls'[c].entry = e.no /\ calls'[c].source = e.source
Waits(c, e) ==
  /\ entry' = e /\ chain' = chain
  /\ calls'[c].at = "waiting" /\ calls'[c].awaits = retiring
  /\ calls'[c].source = <<>> /\ calls'[c].entry = 0
  /\ calls'[c].kind = "inspect" => retiring # nobody
Only(c, cs) ==
  /\ calls' \in [Callers -> Call] /\ \A d \in Callers : d # c => calls'[d] = cs[d]
  /\ calls'[c].kind = cs[c].kind /\ calls'[c].known \in {cs[c].known, <<>>}
  /\ calls'[c].awaits \in {cs[c].awaits, nobody, retiring, live}
  /\ calls'[c].aborted = cs[c].aborted /\ calls'[c].borrowed = cs[c].borrowed

LEMMA LookIs ==
  ASSUME TypeOK, NEW cs \in [Callers -> Call], NEW c \in Callers, NEW e \in {entry, NoEntry},
         Look(c, cs, e)
  PROVE  /\ Only(c, cs)
         /\ Rejects(c, e) \/ Borrows(c, e) \/ Loads(c, e) \/ Joins(c, e)
         /\ (Rejects(c, e) \/ calls'[c].known = cs[c].known)
         /\ (Rejects(c, e) \/ Borrows(c, e) \/ calls'[c].awaits = cs[c].awaits)
         /\ (calls'[c].kind = "inspect" => Rejects(c, e) \/ calls'[c].awaits = cs[c].awaits)
<1>1. e.no \in Nat /\ e.source \in Seq(Event) /\ <<>> \in Seq(Event)
  <2>1. <<>> \in Seq(Event)
    BY EmptySeq
  <2>2. CASE e = entry
    BY <2>1, <2>2 DEF TypeOK
  <2>3. CASE e = NoEntry
    BY <2>1, <2>3 DEF NoEntry
  <2> QED
    BY <2>1, <2>2, <2>3
<1>2. CASE live # nobody
  <2>1. entry' = e /\ chain' = chain /\ live \in Callers /\ sessions[live].events \in Seq(Event)
    BY <1>2 DEF Look, TypeOK
  <2>2. CASE cs[c].kind = "load"
    <3>1. calls' = [cs EXCEPT ![c].at = "flushing", ![c].awaits = live,
                              ![c].source = sessions[live].events]
      BY <1>2, <2>2 DEF Look, Flushes
    <3> DEFINE r == [cs[c] EXCEPT !.at = "flushing", !.awaits = live, !.source = sessions[live].events]
    <3>2. calls' = [cs EXCEPT ![c] = r]
      BY <3>1
    <3>3. /\ r \in Call /\ r.at = "flushing" /\ r.awaits = live /\ r.source = sessions[live].events
          /\ r.kind = cs[c].kind /\ r.known = cs[c].known
          /\ r.aborted = cs[c].aborted /\ r.borrowed = cs[c].borrowed
      BY <2>1 DEF Call
    <3> HIDE DEF r
    <3>4. Only(c, cs) /\ Borrows(c, e) /\ calls'[c].known = cs[c].known /\ calls'[c].kind # "inspect"
      BY <1>2, <2>1, <2>2, <3>2, <3>3 DEF Only, Borrows
    <3> QED
      BY <3>4
  <2>3. CASE cs[c].kind = "inspect"
    <3>1. calls' = [cs EXCEPT ![c].at = "done", ![c].entry = 0, ![c].source = sessions[live].events]
      BY <1>2, <2>3 DEF Look
    <3> DEFINE r == [cs[c] EXCEPT !.at = "done", !.entry = 0, !.source = sessions[live].events]
    <3>2. calls' = [cs EXCEPT ![c] = r]
      BY <3>1
    <3>3. /\ r \in Call /\ r.at = "done" /\ r.awaits = cs[c].awaits /\ r.source = sessions[live].events
          /\ r.kind = cs[c].kind /\ r.known = cs[c].known
          /\ r.aborted = cs[c].aborted /\ r.borrowed = cs[c].borrowed
      BY <2>1 DEF Call
    <3> HIDE DEF r
    <3>4. Only(c, cs) /\ Borrows(c, e) /\ calls'[c].known = cs[c].known /\ calls'[c].awaits = cs[c].awaits
      BY <1>2, <2>1, <2>3, <3>2, <3>3 DEF Only, Borrows
    <3> QED
      BY <3>4
  <2>4. CASE cs[c].kind \notin {"load", "inspect"}
    <3>1. calls' = Rejected(c, cs)
      BY <1>2, <2>4 DEF Look
    <3>2. Only(c, cs) /\ Rejects(c, e)
      BY <2>1, <3>1, RejectedIs DEF Only, Rejects
    <3> QED
      BY <2>4, <3>2 DEF Only
  <2> QED
    BY <2>2, <2>3, <2>4
<1>3. CASE live = nobody /\ e.no = 0
  <2>1. /\ entry' = Loading(FreshNo) /\ Enqueued("read", nobody, FreshNo)
        /\ calls' = [cs EXCEPT ![c].at = "reading", ![c].entry = FreshNo, ![c].source = <<>>]
    BY <1>3 DEF Look
  <2>2. FreshNo \in Nat /\ FreshNo > 0 /\ Unused(FreshNo)
    BY FreshNoIsUnused
  <2> HIDE DEF FreshNo
  <2> DEFINE r == [cs[c] EXCEPT !.at = "reading", !.entry = FreshNo, !.source = <<>>]
  <2>3. calls' = [cs EXCEPT ![c] = r]
    BY <2>1
  <2>4. /\ r \in Call /\ r.at = "reading" /\ r.awaits = cs[c].awaits /\ r.source = <<>> /\ r.entry = FreshNo
        /\ r.kind = cs[c].kind /\ r.known = cs[c].known
        /\ r.aborted = cs[c].aborted /\ r.borrowed = cs[c].borrowed
    BY <1>1, <2>2 DEF Call
  <2> HIDE DEF r
  <2>5. /\ Only(c, cs) /\ calls'[c].at = "reading" /\ calls'[c].entry = FreshNo /\ calls'[c].source = <<>>
        /\ calls'[c].known = cs[c].known /\ calls'[c].awaits = cs[c].awaits
    BY <2>3, <2>4 DEF Only
  <2> QED
    BY <1>3, <2>1, <2>2, <2>5 DEF Loads
<1>4. CASE live = nobody /\ e.no # 0
  <2>1. /\ entry' = e /\ chain' = chain
        /\ calls' = [cs EXCEPT ![c].at = IF e.phase = "loading" THEN "reading" ELSE "read",
                               ![c].entry = e.no, ![c].source = e.source]
    BY <1>4 DEF Look
  <2> DEFINE place == IF e.phase = "loading" THEN "reading" ELSE "read"
             r == [cs[c] EXCEPT !.at = place, !.entry = e.no, !.source = e.source]
  <2>2. calls' = [cs EXCEPT ![c] = r]
    BY <2>1
  <2>3. place \in {"reading", "read"}
    OBVIOUS
  <2> HIDE DEF place
  <2>4. /\ r \in Call /\ r.at = place /\ r.awaits = cs[c].awaits /\ r.source = e.source /\ r.entry = e.no
        /\ r.kind = cs[c].kind /\ r.known = cs[c].known
        /\ r.aborted = cs[c].aborted /\ r.borrowed = cs[c].borrowed
    BY <1>1, <2>3 DEF Call
  <2> HIDE DEF r
  <2>5. calls' \in [Callers -> Call] /\ calls'[c] = r /\ \A d \in Callers : d # c => calls'[d] = cs[d]
    BY <2>2, <2>4
  <2>6. Only(c, cs) /\ calls'[c].known = cs[c].known /\ calls'[c].awaits = cs[c].awaits
    BY <2>4, <2>5 DEF Only
  <2>7. Joins(c, e)
    BY <1>4, <2>1, <2>4, <2>5 DEF Joins, place
  <2> QED
    BY <2>6, <2>7
<1> QED
  BY <1>2, <1>3, <1>4

LEMMA TopIs ==
  ASSUME TypeOK, NEW cs \in [Callers -> Call], NEW c \in Callers, NEW e \in {entry, NoEntry},
         Top(c, cs, e)
  PROVE  /\ Only(c, cs)
         /\ Rejects(c, e) \/ Borrows(c, e) \/ Loads(c, e) \/ Joins(c, e) \/ Waits(c, e)
         /\ (Rejects(c, e) \/ calls'[c].known = cs[c].known)
         /\ (calls'[c].kind = "inspect" => Rejects(c, e) \/ Waits(c, e) \/
               (retiring = nobody /\ calls'[c].awaits = cs[c].awaits))
<1>1. CASE cs[c].aborted
  <2>1. entry' = e /\ calls' = Rejected(c, cs) /\ chain' = chain
    BY <1>1 DEF Top
  <2>2. Only(c, cs) /\ Rejects(c, e)
    BY <2>1, RejectedIs DEF Only, Rejects
  <2> QED
    BY <2>2
<1>2. CASE ~cs[c].aborted /\ cs[c].kind = "inspect" /\ retiring = nobody
  <2>1. Look(c, cs, e)
    BY <1>2 DEF Top
  <2> QED
    BY <1>2, <2>1, LookIs DEF Only
<1>3. CASE ~cs[c].aborted /\ ~(cs[c].kind = "inspect" /\ retiring = nobody)
  <2>1. /\ entry' = e /\ chain' = chain
        /\ calls' = [cs EXCEPT ![c].at = "waiting", ![c].entry = 0, ![c].source = <<>>,
                               ![c].awaits = retiring]
    BY <1>3 DEF Top
  <2> DEFINE r == [cs[c] EXCEPT !.at = "waiting", !.entry = 0, !.source = <<>>, !.awaits = retiring]
  <2>2. calls' = [cs EXCEPT ![c] = r]
    BY <2>1
  <2>3. <<>> \in Seq(Event) /\ retiring \in Callers \cup {nobody}
    BY EmptySeq DEF TypeOK
  <2>4. /\ r \in Call /\ r.at = "waiting" /\ r.awaits = retiring /\ r.source = <<>> /\ r.entry = 0
        /\ r.kind = cs[c].kind /\ r.known = cs[c].known
        /\ r.aborted = cs[c].aborted /\ r.borrowed = cs[c].borrowed
    BY <2>3 DEF Call
  <2> HIDE DEF r
  <2>5. calls' \in [Callers -> Call] /\ calls'[c] = r /\ \A d \in Callers : d # c => calls'[d] = cs[d]
    BY <2>2, <2>4
  <2>6. Only(c, cs) /\ calls'[c].known = cs[c].known
    BY <2>4, <2>5 DEF Only
  <2>7. Waits(c, e)
    BY <1>3, <2>1, <2>4, <2>5 DEF Waits
  <2> QED
    BY <2>6, <2>7
<1> QED
  BY <1>1, <1>2, <1>3

\* A resolution of c that may wake the others.
LEMMA WakesOthers ==
  ASSUME NEW c \in Callers, NEW cs \in [Callers -> Call], \A d \in Callers : d # c => cs[d] = calls[d],
         cs[c].at # "queued"
  PROVE  /\ Others(c, cs) /\ Others(c, Woken(cs))
         /\ Woken(cs) \in [Callers -> Call] /\ Woken(cs)[c] = cs[c]
BY WokenIs DEF Others

LEMMA CaughtIs ==
  ASSUME TypeOK, NEW cs \in [Callers -> Call], NEW c \in Callers
  PROVE  LET t == Caught(c, cs) IN
         /\ t \in [Callers -> Call] /\ \A d \in Callers : d # c => t[d] = cs[d]
         /\ t[c].kind = cs[c].kind /\ t[c].aborted = cs[c].aborted /\ t[c].borrowed = cs[c].borrowed
         /\ \/ /\ t[c].at \in {"listing", "failed"} /\ (t[c].at = "listing" => t[c].kind = "configured")
               /\ t[c].known = <<>> /\ t[c].awaits = nobody
            \/ /\ live # nobody /\ t[c].kind = "inspect" /\ t[c].at = "done"
               /\ t[c].source = sessions[live].events
               /\ t[c].known = cs[c].known /\ t[c].awaits = cs[c].awaits
<1>1. CASE cs[c].kind = "inspect" /\ live # nobody /\ ~cs[c].aborted
  <2>1. live \in Callers /\ sessions[live].events \in Seq(Event)
    BY <1>1 DEF TypeOK
  <2>2. Caught(c, cs) = [cs EXCEPT ![c].at = "done", ![c].entry = 0, ![c].source = sessions[live].events]
    BY <1>1 DEF Caught
  <2> DEFINE r == [cs[c] EXCEPT !.at = "done", !.entry = 0, !.source = sessions[live].events]
  <2>3. Caught(c, cs) = [cs EXCEPT ![c] = r]
    BY <2>2
  <2>4. /\ r \in Call /\ r.at = "done" /\ r.awaits = cs[c].awaits /\ r.source = sessions[live].events
        /\ r.kind = cs[c].kind /\ r.known = cs[c].known
        /\ r.aborted = cs[c].aborted /\ r.borrowed = cs[c].borrowed
    BY <2>1 DEF Call
  <2> HIDE DEF r
  <2> QED
    BY <1>1, <2>3, <2>4
<1>2. CASE ~(cs[c].kind = "inspect" /\ live # nobody /\ ~cs[c].aborted)
  <2>1. Caught(c, cs) = Rejected(c, cs)
    BY <1>2 DEF Caught
  <2> QED
    BY <2>1, RejectedIs
<1> QED
  BY <1>1, <1>2

\* The entry leaves the pool, or becomes ready again, and the others look at it.
LEMMA ReleaseIs ==
  ASSUME NEW c \in Callers, NEW cs \in [Callers -> Call], \A d \in Callers : d # c => cs[d] = calls[d],
         cs[c].at # "queued", Release(c, cs)
  PROVE  /\ calls' \in [Callers -> Call] /\ Others(c, calls') /\ calls'[c] = cs[c]
         /\ \/ entry.holder = c /\ entry.phase = "reserved" /\ entry' = NoEntry
            \/ /\ entry.holder = c /\ entry.phase = "reserved" /\ Reusable
               /\ entry' = [entry EXCEPT !.phase = "ready", !.holder = nobody]
            \/ ~(entry.holder = c /\ entry.phase = "reserved") /\ entry' = entry
BY WakesOthers DEF Release, Readied, Removed

LEMMA RemovedForIs ==
  ASSUME NEW c \in Callers, NEW cs \in [Callers -> Call], \A d \in Callers : d # c => cs[d] = calls[d],
         cs[c].at # "queued", RemovedFor(c, cs)
  PROVE  /\ calls' \in [Callers -> Call] /\ Others(c, calls') /\ calls'[c] = cs[c]
         /\ entry' = IF entry.holder = c THEN NoEntry ELSE entry
BY WakesOthers DEF RemovedFor, Removed

LEMMA BalancedIs ==
  ASSUME NEW log \in Seq(Event)
  PROVE  /\ Balanced(log) \in Seq(Event) /\ IsPrefix(log, Balanced(log))
         /\ ~Interrupted(log) => Balanced(log) = log
         /\ log # <<>> => Balanced(log) # <<>>
<1>1. Closer \in Event
  BY DEF Closer, Event
<1>2. Append(log, Closer) \in Seq(Event) /\ Append(log, Closer) # <<>>
  <2>1. Len(Append(log, Closer)) = Len(log) + 1 /\ Len(log) \in Nat /\ Len(<<>>) = 0
    BY <1>1, AppendProperties, EmptySeq
  <2> QED
    BY <1>1, <2>1
<1>3. IsPrefix(log, log) /\ IsPrefix(log, Append(log, Closer))
  BY <1>1, PrefixOrder
<1> QED
  BY <1>2, <1>3 DEF Balanced
-----------------------------------------------------------------------------
(* The chain: an operation leaves it, or joins it at its end *)

\* The chain without its operation k; with k behind its end nothing leaves it.
Without(k) ==
  /\ k \in 1 .. Len(chain) + 1 /\ chain' \in Seq(Op)
  /\ \A i \in DOMAIN chain' :
       \E j \in DOMAIN chain : chain'[i] = chain[j] /\ j # k /\ j = IF i < k THEN i ELSE i + 1
  /\ \A j \in DOMAIN chain : j # k =>
       \E i \in DOMAIN chain' : chain'[i] = chain[j] /\ i = IF j < k THEN j ELSE j - 1

LEMMA ChainNats ==
  ASSUME chain \in Seq(Op)
  PROVE  Len(chain) \in Nat /\ DOMAIN chain = 1 .. Len(chain) /\ \A i \in DOMAIN chain : chain[i] \in Op
  OBVIOUS

LEMMA WithoutAt ==
  ASSUME chain \in Seq(Op), NEW k \in DOMAIN chain, chain' = RemoveAt(chain, k)
  PROVE  Without(k)
<1>1. /\ chain' \in Seq(Op) /\ Len(chain) \in Nat /\ k \in Nat
      /\ DOMAIN chain = 1 .. Len(chain) /\ DOMAIN chain' = 1 .. Len(chain) - 1
      /\ \A i \in DOMAIN chain' : chain'[i] = IF i < k THEN chain[i] ELSE chain[i + 1]
  BY RemoveAtIs, Zenon
<1>2. ASSUME NEW i \in DOMAIN chain'
      PROVE  \E j \in DOMAIN chain : chain'[i] = chain[j] /\ j # k /\ j = IF i < k THEN i ELSE i + 1
  BY <1>1
<1>3. ASSUME NEW j \in DOMAIN chain, j # k
      PROVE  \E i \in DOMAIN chain' : chain'[i] = chain[j] /\ i = IF j < k THEN j ELSE j - 1
  <2>1. CASE j < k
    BY <1>1, <1>3, <2>1
  <2>2. CASE ~(j < k)
    <3>1. j - 1 \in DOMAIN chain' /\ ~(j - 1 < k) /\ j - 1 + 1 = j
      BY <1>1, <1>3, <2>2
    <3> QED
      BY <1>1, <2>2, <3>1
  <2> QED
    BY <2>1, <2>2
<1> QED
  BY <1>1, <1>2, <1>3 DEF Without

LEMMA WithoutFirst ==
  ASSUME chain \in Seq(Op), NEW op, NEW by, First(op, by)
  PROVE  Without(1) /\ 1 \in DOMAIN chain /\ Head(chain) = chain[1] /\ chain[1].op = op /\ chain[1].by = by
<1>1. /\ chain' \in Seq(Op) /\ Len(chain) \in Nat /\ Len(chain) > 0
      /\ DOMAIN chain = 1 .. Len(chain) /\ DOMAIN chain' = 1 .. Len(chain) - 1
      /\ \A i \in DOMAIN chain' : chain'[i] = chain[i + 1]
      /\ 1 \in DOMAIN chain /\ Head(chain) = chain[1] /\ chain[1].op = op /\ chain[1].by = by
  BY FirstIs
<1>2. ASSUME NEW i \in DOMAIN chain'
      PROVE  \E j \in DOMAIN chain : chain'[i] = chain[j] /\ j # 1 /\ j = IF i < 1 THEN i ELSE i + 1
  <2>1. i + 1 \in DOMAIN chain /\ i + 1 # 1 /\ ~(i < 1)
    BY <1>1
  <2> QED
    BY <1>1, <2>1
<1>3. ASSUME NEW j \in DOMAIN chain, j # 1
      PROVE  \E i \in DOMAIN chain' : chain'[i] = chain[j] /\ i = IF j < 1 THEN j ELSE j - 1
  <2>1. j - 1 \in DOMAIN chain' /\ ~(j < 1) /\ j - 1 + 1 = j
    BY <1>1, <1>3
  <2> QED
    BY <1>1, <2>1
<1> QED
  BY <1>1, <1>2, <1>3 DEF Without

LEMMA WithoutNone ==
  ASSUME chain \in Seq(Op), chain' = chain
  PROVE  Without(Len(chain) + 1) /\ Len(chain) + 1 \notin DOMAIN chain
BY ChainNats DEF Without

SameOp(o, p) == o.op = p.op /\ o.by = p.by /\ (o.op = "read" => o.n = p.n)

LEMMA WithoutChain ==
  ASSUME TypeOK, ChainInv, NEW k, Without(k),
         \A o \in Op : (\E j \in DOMAIN chain : chain[j] = o)
                        /\ OpInv(o) /\ (k \in DOMAIN chain => ~SameOp(o, chain[k])) => OpInv(o)'
  PROVE  ChainInv'
<1>1. /\ Len(chain) \in Nat /\ DOMAIN chain = 1 .. Len(chain) /\ \A i \in DOMAIN chain : chain[i] \in Op
      /\ k \in Int
  BY ChainNats DEF TypeOK, Without
<1>2. ASSUME NEW j \in DOMAIN chain, j # k, k \in DOMAIN chain PROVE ~SameOp(chain[j], chain[k])
  BY <1>2 DEF ChainInv, SameOp
<1>3. ASSUME NEW i \in DOMAIN chain' PROVE OpInv(chain[i])'
  <2>1. PICK j \in DOMAIN chain : chain'[i] = chain[j] /\ j # k
    BY DEF Without
  <2>2. chain[j] \in Op /\ OpInv(chain[j]) /\ (k \in DOMAIN chain => ~SameOp(chain[j], chain[k]))
    BY <1>1, <1>2, <2>1 DEF ChainInv
  <2>3. PICK o \in Op : o = chain[j]
    BY <2>2
  <2>4. OpInv(o)'
    BY <2>2, <2>3, Zenon
  <2>5. chain'[i] = o
    BY <2>1, <2>3
  <2> QED
    BY <2>4, <2>5 DEF OpInv, At, Owns, Started
<1>5. \A i \in DOMAIN chain' : i \in Int
  <2>1. chain' \in Seq(Op)
    BY DEF Without
  <2> QED
    BY <2>1
<1>4. ASSUME NEW i1 \in DOMAIN chain', NEW i2 \in DOMAIN chain',
             chain'[i1].op = chain'[i2].op, chain'[i1].by = chain'[i2].by,
             chain'[i1].op = "read" => chain'[i1].n = chain'[i2].n
      PROVE  i1 = i2
  <2>1. PICK j1 \in DOMAIN chain : chain'[i1] = chain[j1] /\ j1 # k /\ j1 = IF i1 < k THEN i1 ELSE i1 + 1
    BY DEF Without
  <2>2. PICK j2 \in DOMAIN chain : chain'[i2] = chain[j2] /\ j2 # k /\ j2 = IF i2 < k THEN i2 ELSE i2 + 1
    BY DEF Without
  <2>3. j1 = j2
    BY <1>4, <2>1, <2>2 DEF ChainInv
  <2>4. i1 \in Int /\ i2 \in Int
    BY <1>5
  <2> QED
    BY <1>1, <2>1, <2>2, <2>3, <2>4
<1> QED
  BY <1>3, <1>4 DEF ChainInv

LEMMA EnqueuedChain ==
  ASSUME TypeOK, ChainInv, NEW op \in {"read", "commit", "check", "created", "seed", "drain", "retire"},
         NEW by \in Callers \cup {nobody}, NEW n \in Nat, Enqueued(op, by, n),
         \A o \in Op : (\E j \in DOMAIN chain : chain[j] = o) /\ OpInv(o) => OpInv(o)',
         OpInv([op |-> op, by |-> by, n |-> n])',
         op # "read" => ~Queued(op, by),
         op = "read" => \A i \in DOMAIN chain : chain[i].op = "read" => chain[i].n # n
  PROVE  ChainInv'
<1>1. /\ chain' \in Seq(Op) /\ Len(chain) \in Nat /\ DOMAIN chain = 1 .. Len(chain)
      /\ DOMAIN chain' = 1 .. Len(chain) + 1 /\ \A i \in DOMAIN chain : chain'[i] = chain[i]
      /\ chain'[Len(chain) + 1] = [op |-> op, by |-> by, n |-> n]
      /\ \A i \in DOMAIN chain : chain[i] \in Op
  <2>1. chain \in Seq(Op)
    BY DEF TypeOK
  <2>2. \A i \in DOMAIN chain : chain[i] \in Op
    BY <2>1, ChainNats
  <2> QED
    BY <2>1, <2>2, EnqueuedIs, Zenon
<1>2. ASSUME NEW i \in DOMAIN chain' PROVE OpInv(chain[i])'
  <2>1. PICK o \in Op : o = chain'[i]
    BY <1>1, ChainNats
  <2>2. CASE i = Len(chain) + 1
    BY <1>1, <2>2
  <2>3. CASE i # Len(chain) + 1
    <3>1. i \in DOMAIN chain /\ chain[i] = o
      BY <1>1, <2>1, <2>3
    <3>2. OpInv(o)
      BY <3>1 DEF ChainInv
    <3>3. OpInv(o)'
      BY <3>1, <3>2
    <3> QED
      BY <2>1, <3>3 DEF OpInv, At, Owns, Started
  <2> QED
    BY <2>2, <2>3
<1>3. ASSUME NEW i \in DOMAIN chain PROVE ~(chain[i].op = op /\ chain[i].by = by /\ (op = "read" => chain[i].n = n))
  BY DEF Queued
<1>4. ASSUME NEW i1 \in DOMAIN chain', NEW i2 \in DOMAIN chain',
             chain'[i1].op = chain'[i2].op, chain'[i1].by = chain'[i2].by,
             chain'[i1].op = "read" => chain'[i1].n = chain'[i2].n
      PROVE  i1 = i2
  <2>1. (i1 \in DOMAIN chain \/ i1 = Len(chain) + 1) /\ (i2 \in DOMAIN chain \/ i2 = Len(chain) + 1)
    BY <1>1
  <2>2. CASE i1 \in DOMAIN chain /\ i2 \in DOMAIN chain
    BY <1>1, <1>4, <2>2 DEF ChainInv
  <2>3. CASE i1 \in DOMAIN chain /\ i2 = Len(chain) + 1
    BY <1>1, <1>3, <1>4, <2>3
  <2>4. CASE i2 \in DOMAIN chain /\ i1 = Len(chain) + 1
    BY <1>1, <1>3, <1>4, <2>4
  <2> QED
    BY <2>1, <2>2, <2>3, <2>4
<1> QED
  BY <1>2, <1>4 DEF ChainInv

LEMMA WithoutLosing ==
  ASSUME TypeOK, LosingInv, NEW k, Without(k), tracked' \in [known : BOOLEAN, cursor : Nat, owner : Callers \cup {nobody}],
         \A d \in Callers : calls'[d].at = "committing" =>
           calls[d].at = "committing" /\ (k \in DOMAIN chain => ~(chain[k].op = "commit" /\ chain[k].by = d)),
         \A d \in Callers : Losing(d)' =>
           \/ Losing(d) /\ tracked'.owner = tracked.owner /\ tracked'.cursor >= tracked.cursor
           \/ tracked'.owner # nobody /\ tracked'.cursor > 0 /\ ~Queued("retire", tracked'.owner)
  PROVE  LosingInv'
<1>1. /\ Len(chain) \in Nat /\ DOMAIN chain = 1 .. Len(chain) /\ k \in Int
      /\ \A i \in DOMAIN chain' : i \in Int
  BY ChainNats DEF TypeOK, Without
<1>2. ASSUME NEW d \in Callers, calls'[d].at = "committing" PROVE Queued("commit", d)'
  <2>1. PICK j \in DOMAIN chain : chain[j].op = "commit" /\ chain[j].by = d
    BY <1>2 DEF LosingInv, Queued
  <2>2. j # k
    BY <1>2, <2>1
  <2>3. PICK i \in DOMAIN chain' : chain'[i] = chain[j]
    BY <2>2 DEF Without
  <2> QED
    BY <2>1, <2>3 DEF Queued
<1>3. ASSUME NEW d \in Callers, Losing(d)', NEW i \in DOMAIN chain', NEW j \in DOMAIN chain',
             chain'[j].op = "commit", chain'[j].by = d, chain'[i].op = "retire", chain'[i].by = tracked'.owner
      PROVE  j < i
  <2>2. PICK i0 \in DOMAIN chain : chain'[i] = chain[i0] /\ i0 = IF i < k THEN i ELSE i + 1
    BY DEF Without
  <2>3. PICK j0 \in DOMAIN chain : chain'[j] = chain[j0] /\ j0 = IF j < k THEN j ELSE j + 1
    BY DEF Without
  <2>1. Losing(d) /\ tracked'.owner = tracked.owner
    BY <1>3, <2>2 DEF Queued
  <2>4. j0 < i0
    BY <1>3, <2>1, <2>2, <2>3 DEF LosingInv
  <2> QED
    BY <1>1, <2>2, <2>3, <2>4
<1>4. ASSUME NEW d \in Callers, Losing(d)' PROVE tracked'.owner # nobody /\ tracked'.cursor > 0
  <2>1. CASE Losing(d) /\ tracked'.owner = tracked.owner /\ tracked'.cursor >= tracked.cursor
    <3>1. tracked.owner # nobody /\ tracked.cursor > 0 /\ tracked.cursor \in Nat /\ tracked'.cursor \in Nat
      BY <2>1 DEF LosingInv, TypeOK
    <3> QED
      BY <2>1, <3>1
  <2> QED
    BY <1>4, <2>1
<1> QED
  BY <1>2, <1>3, <1>4 DEF LosingInv

LEMMA EnqueuedLosing ==
  ASSUME TypeOK, LosingInv, NEW op \in {"read", "commit", "check", "created", "seed", "drain", "retire"},
         NEW by \in Callers \cup {nobody}, NEW n \in Nat, Enqueued(op, by, n), 
         \A d \in Callers : calls'[d].at = "committing" =>
           calls[d].at = "committing" \/ (op = "commit" /\ by = d),
         \A d \in Callers : Losing(d)' =>
           Losing(d) /\ tracked' = tracked /\ ~(op = "commit" /\ by = d)
  PROVE  LosingInv'
<1>1. /\ chain' \in Seq(Op) /\ Len(chain) \in Nat /\ DOMAIN chain = 1 .. Len(chain)
      /\ DOMAIN chain' = 1 .. Len(chain) + 1 /\ \A i \in DOMAIN chain : chain'[i] = chain[i]
      /\ chain'[Len(chain) + 1] = [op |-> op, by |-> by, n |-> n]
  <2>1. chain \in Seq(Op)
    BY DEF TypeOK
  <2> QED
    BY <2>1, EnqueuedIs, Zenon
<1>2. ASSUME NEW d \in Callers, calls'[d].at = "committing" PROVE Queued("commit", d)'
  BY <1>1, <1>2 DEF LosingInv, Queued
<1>3. ASSUME NEW d \in Callers, Losing(d)', NEW i \in DOMAIN chain', NEW j \in DOMAIN chain',
             chain'[j].op = "commit", chain'[j].by = d, chain'[i].op = "retire", chain'[i].by = tracked'.owner
      PROVE  j < i
  <2>1. Losing(d) /\ tracked' = tracked /\ ~(op = "commit" /\ by = d)
    BY <1>3
  <2>2. j \in DOMAIN chain
    BY <1>1, <1>3, <2>1
  <2>3. CASE i \in DOMAIN chain
    BY <1>1, <1>3, <2>1, <2>2, <2>3 DEF LosingInv
  <2>4. CASE i \notin DOMAIN chain
    BY <1>1, <2>2, <2>4
  <2> QED
    BY <2>3, <2>4
<1> QED
  BY <1>2, <1>3 DEF LosingInv

\* What a step that runs or queues no initialisation may do to the entry.
SameEntry == entry'.no = entry.no /\ entry'.phase = entry.phase
NoEntryNow == entry'.no = 0 /\ entry'.phase = "none"
PastReading == entry'.no = entry.no /\ entry.phase \in {"ready", "committing", "reserved"}
KeepsPending ==
  /\ \A d \in Callers : sessions'[d].init = "pending" => sessions[d].init = "pending"
  /\ Unattached => Unattached'

LEMMA WithoutPending ==
  ASSUME TypeOK, PendingInv, ChainInv, NEW k, Without(k), live' = live, KeepsPending,
         k \in DOMAIN chain /\ chain[k].op \in {"created", "seed"} =>
           k = 1 /\ sessions'[chain[k].by].init # "pending",
         \/ SameEntry /\ (k \in DOMAIN chain => ~(chain[k].op = "read" /\ chain[k].n = entry.no))
         \/ NoEntryNow \/ PastReading
  PROVE  PendingInv'
<1>1. /\ Len(chain) \in Nat /\ DOMAIN chain = 1 .. Len(chain) /\ k \in Int
      /\ \A i \in DOMAIN chain' : i \in Int
      /\ \A i \in DOMAIN chain : chain[i] \in Op
  BY ChainNats DEF TypeOK, Without
<1>2. ASSUME NEW i \in DOMAIN chain', chain'[i].op \in {"created", "seed"}
      PROVE  /\ entry'.phase \in {"none", "loading"}
             /\ entry'.phase = "loading" =>
                  \E j \in DOMAIN chain' : j > i /\ chain'[j].op = "read" /\ chain'[j].n = entry'.no
  <2>1. PICK i0 \in DOMAIN chain : chain'[i] = chain[i0] /\ i0 = IF i < k THEN i ELSE i + 1
    BY DEF Without
  <2>2. /\ entry.phase \in {"none", "loading"}
        /\ entry.phase = "loading" =>
             \E j \in DOMAIN chain : j > i0 /\ chain[j].op = "read" /\ chain[j].n = entry.no
    BY <1>2, <2>1 DEF PendingInv, PendingEntry
  <2>3. CASE NoEntryNow
    BY <2>3 DEF NoEntryNow
  <2>4. CASE PastReading
    BY <2>2, <2>4 DEF PastReading
  <2>5. CASE SameEntry /\ (k \in DOMAIN chain => ~(chain[k].op = "read" /\ chain[k].n = entry.no))
    <3>1. entry'.phase = entry.phase /\ entry'.no = entry.no
      BY <2>5 DEF SameEntry
    <3>2. ASSUME entry.phase = "loading"
          PROVE \E j \in DOMAIN chain' : j > i /\ chain'[j].op = "read" /\ chain'[j].n = entry.no
      <4>1. PICK j0 \in DOMAIN chain : j0 > i0 /\ chain[j0].op = "read" /\ chain[j0].n = entry.no
        BY <2>2, <3>2
      <4>2. j0 # k
        BY <2>5, <4>1
      <4>3. PICK j \in DOMAIN chain' : chain'[j] = chain[j0] /\ j = IF j0 < k THEN j0 ELSE j0 - 1
        BY <4>2 DEF Without
      <4>4. j > i
        BY <1>1, <2>1, <4>1, <4>2, <4>3
      <4> QED
        BY <4>1, <4>3, <4>4
    <3> QED
      BY <2>2, <3>1, <3>2
  <2> QED
    BY <2>3, <2>4, <2>5
<1>3. ASSUME NEW i \in DOMAIN chain', chain'[i].op = "created", live # nobody, ~Unattached'
      PROVE  \E j \in DOMAIN chain' : j >= i /\ chain'[j].op = "created" /\ chain'[j].by = live
  <2>1. PICK i0 \in DOMAIN chain : chain'[i] = chain[i0] /\ i0 # k /\ i0 = IF i < k THEN i ELSE i + 1
    BY DEF Without
  <2>2. PICK j0 \in DOMAIN chain : j0 >= i0 /\ chain[j0].op = "created" /\ chain[j0].by = live
    BY <1>3, <2>1 DEF PendingInv, PendingLive, KeepsPending
  <2>5. j0 # k
    BY <1>1, <2>1, <2>2
  <2>3. PICK j \in DOMAIN chain' : chain'[j] = chain[j0] /\ j = IF j0 < k THEN j0 ELSE j0 - 1
    BY <2>2, <2>5 DEF Without
  <2>4. j >= i
    BY <1>1, <2>1, <2>2, <2>3, <2>5
  <2> QED
    BY <2>2, <2>3, <2>4
<1>4. ASSUME NEW d \in Callers, sessions'[d].init = "pending"
      PROVE  Queued("seed", d)' \/ Queued("created", d)'
  <2>1. Queued("seed", d) \/ Queued("created", d)
    BY <1>4 DEF PendingInv, PendingInit, KeepsPending
  <2>2. PICK j \in DOMAIN chain : chain[j].op \in {"seed", "created"} /\ chain[j].by = d
    BY <2>1 DEF Queued
  <2>3. j # k
    BY <1>4, <2>2
  <2>4. PICK i \in DOMAIN chain' : chain'[i] = chain[j]
    BY <2>3 DEF Without
  <2> QED
    BY <2>2, <2>4 DEF Queued
<1>5. ASSUME NEW i \in DOMAIN chain', chain'[i].op = "read", chain'[i].n = entry'.no
      PROVE  entry'.phase = "loading"
  <2>1. PICK j \in DOMAIN chain : chain'[i] = chain[j]
    BY DEF Without
  <2>2. chain[j].n > 0
    BY <1>5, <2>1 DEF ChainInv, OpInv
  <2>3. CASE NoEntryNow
    BY <1>5, <2>1, <2>2, <2>3 DEF NoEntryNow
  <2>4. CASE ~NoEntryNow
    BY <1>5, <2>1, <2>4 DEF PendingInv, ReadsPending, PastReading, SameEntry
  <2> QED
    BY <2>3, <2>4
<1> QED
  BY <1>2, <1>3, <1>4, <1>5 DEF PendingInv, PendingEntry, PendingLive, PendingInit, ReadsPending

LEMMA EnqueuedPending ==
  ASSUME TypeOK, PendingInv, ChainInv, NEW op \in {"read", "commit", "check", "drain", "retire"},
         NEW by \in Callers \cup {nobody}, NEW n \in Nat, Enqueued(op, by, n), live' = live, KeepsPending,
         \/ op # "read" /\ (SameEntry \/ NoEntryNow \/ PastReading)
         \/ op = "read" /\ entry' = Loading(n) 
  PROVE  PendingInv'
<1>1. /\ chain' \in Seq(Op) /\ Len(chain) \in Nat /\ DOMAIN chain = 1 .. Len(chain)
      /\ DOMAIN chain' = 1 .. Len(chain) + 1 /\ \A i \in DOMAIN chain : chain'[i] = chain[i]
      /\ chain'[Len(chain) + 1] = [op |-> op, by |-> by, n |-> n]
  <2>1. chain \in Seq(Op)
    BY DEF TypeOK
  <2>2. op \in {"read", "commit", "check", "created", "seed", "drain", "retire"}
    OBVIOUS
  <2> QED
    BY <2>1, <2>2, EnqueuedIs, Zenon
<1>2. op = "read" => entry'.no = n /\ entry'.phase = "loading"
  BY DEF Loading, NoEntry
<1>3. ASSUME NEW i \in DOMAIN chain', chain'[i].op \in {"created", "seed"}
      PROVE  /\ entry'.phase \in {"none", "loading"}
             /\ entry'.phase = "loading" =>
                  \E j \in DOMAIN chain' : j > i /\ chain'[j].op = "read" /\ chain'[j].n = entry'.no
  <2>1. i \in DOMAIN chain
    BY <1>1, <1>3
  <2>2. /\ entry.phase \in {"none", "loading"}
        /\ entry.phase = "loading" =>
             \E j \in DOMAIN chain : j > i /\ chain[j].op = "read" /\ chain[j].n = entry.no
    BY <1>1, <1>3, <2>1 DEF PendingInv, PendingEntry
  <2>3. CASE op = "read"
    <3>1. Len(chain) + 1 \in DOMAIN chain' /\ Len(chain) + 1 > i
      BY <1>1, <2>1
    <3> QED
      BY <1>1, <1>2, <2>3, <3>1
  <2>4. CASE NoEntryNow
    BY <2>4 DEF NoEntryNow
  <2>5. CASE PastReading
    BY <2>2, <2>5 DEF PastReading
  <2>6. CASE SameEntry
    BY <1>1, <2>2, <2>6 DEF SameEntry
  <2> QED
    BY <2>3, <2>4, <2>5, <2>6
<1>4. ASSUME NEW i \in DOMAIN chain', chain'[i].op = "created", live # nobody, ~Unattached'
      PROVE  \E j \in DOMAIN chain' : j >= i /\ chain'[j].op = "created" /\ chain'[j].by = live
  BY <1>1, <1>4 DEF PendingInv, PendingLive, KeepsPending
<1>5. ASSUME NEW d \in Callers, sessions'[d].init = "pending"
      PROVE  Queued("seed", d)' \/ Queued("created", d)'
  BY <1>1, <1>5 DEF PendingInv, PendingInit, KeepsPending, Queued
<1>6. ASSUME NEW i \in DOMAIN chain', chain'[i].op = "read", chain'[i].n = entry'.no
      PROVE  entry'.phase = "loading"
  <2>1. CASE op = "read"
    BY <1>2, <2>1
  <2>2. CASE op # "read"
    <3>1. i \in DOMAIN chain
      BY <1>1, <1>6, <2>2
    <3>2. chain[i].op = "read" /\ chain[i].n > 0
      BY <1>1, <1>6, <3>1 DEF ChainInv, OpInv
    <3> QED
      BY <1>1, <1>6, <2>2, <3>1, <3>2 DEF PendingInv, ReadsPending, PastReading, SameEntry, NoEntryNow
  <2> QED
    BY <2>1, <2>2
<1> QED
  BY <1>3, <1>4, <1>5, <1>6 DEF PendingInv, PendingEntry, PendingLive, PendingInit, ReadsPending
-----------------------------------------------------------------------------
(* What a turn of one call, with the log and the Sessions as they are, keeps *)

SameLog == UNCHANGED <<stored, tracked, sessions, live, retiring>>
Published == {"live", "vetoed", "disposing", "done", "failed", "rollback", "listing"}

LEMMA Others2 ==
  ASSUME TypeOK, NEW c \in Callers, NEW cs \in [Callers -> Call], Others(c, cs), NEW d \in Callers, d # c
  PROVE  /\ cs[d].kind = calls[d].kind /\ cs[d].entry = calls[d].entry /\ cs[d].source = calls[d].source
         /\ cs[d].known = calls[d].known /\ cs[d].awaits = calls[d].awaits
         /\ cs[d].aborted = calls[d].aborted /\ cs[d].borrowed = calls[d].borrowed
         /\ cs[d].at = calls[d].at \/ (calls[d].at = "queued" /\ cs[d].at = "read")
<1>1. CASE cs[d] = calls[d]
  BY <1>1
<1>2. CASE calls[d].at = "queued" /\ cs[d] = [calls[d] EXCEPT !.at = "read"]
  <2>1. calls[d] \in Call
    BY DEF TypeOK
  <2> QED
    BY <1>2, <2>1 DEF Call
<1> QED
  BY <1>1, <1>2 DEF Others

LEMMA CallsKeep ==
  ASSUME Inv, NEW c \in Callers, Turn(c, calls'), UNCHANGED <<sessions, live, retiring>>,
         stored # <<>> => stored' # <<>>,
         calls'[c].at \in Places(calls[c].kind),
         sessions[c].stage # "none" =>
           /\ calls'[c].at \in Published
           /\ calls[c].kind = "configured" /\ calls'[c].at \in {"vetoed", "rollback", "listing"} => stored' # <<>>,
         calls'[c].at \in {"live", "vetoed", "disposing"} => live = c
  PROVE  PlacesInv' /\ SessionInv' /\ RegistryInv'
<1>1. TypeOK /\ PlacesInv /\ SessionInv /\ RegistryInv /\ calls' \in [Callers -> Call] /\ Others(c, calls')
      /\ calls'[c].kind = calls[c].kind
  BY DEF Inv, IInv, Turn
<1>2. \A d \in Callers : d # c =>
         /\ calls'[d].kind = calls[d].kind
         /\ calls'[d].at = calls[d].at \/ (calls[d].at = "queued" /\ calls'[d].at = "read")
  BY <1>1, Others2
<1>3. PlacesInv'
  <2>1. ASSUME NEW kind \in CallKinds, "queued" \in Places(kind) PROVE "read" \in Places(kind)
    <3>1. "read" \in Resuming
      BY DEF Resuming
    <3>2. Places("create") = {"idle", "setup", "vetoed", "rollback", "live", "disposing", "done", "failed"}
          /\ Places("none") = {"idle"}
      BY DEF Places
    <3>3. Places("resume") = {"idle"} \cup Resuming
          /\ Places("configured") = {"idle", "draining", "listing", "creating"} \cup Resuming
      BY DEF Places
    <3>4. Places("load") = {"idle", "waiting", "reading", "read", "queued", "committing", "committed",
                         "flushing", "done", "failed"}
          /\ Places("inspect") = {"idle", "waiting", "reading", "read", "checking", "fresh", "stale",
                            "done", "failed"}
      BY DEF Places
    <3> QED
      BY <2>1, <3>1, <3>2, <3>3, <3>4 DEF CallKinds
  <2>2. \A d \in Callers : calls[d].at \in Places(calls[d].kind)
    BY <1>1 DEF PlacesInv
  <2>3. \A d \in Callers : calls[d].kind \in CallKinds
    BY <1>1 DEF TypeOK, Call
  <2> HIDE DEF Places
  <2> QED
    BY <1>1, <1>2, <2>1, <2>2, <2>3 DEF PlacesInv
<1>4. SessionInv'
  BY <1>1, <1>2 DEF SessionInv, Published
<1>5. RegistryInv'
  BY <1>1, <1>2 DEF RegistryInv
<1> QED
  BY <1>3, <1>4, <1>5

LEMMA LogKept ==
  ASSUME Inv, UNCHANGED <<stored, tracked, sessions, live>>
  PROVE  OwnerInv' /\ WantedInv'
BY DEF Inv, IInv, OwnerInv, WantedInv, Owns

\* A vetoed Session and its preparation stay as they are while other calls move.
LEMMA VetoKept ==
  ASSUME Inv, NEW c \in Callers, Turn(c, calls'), sessions' = sessions,
         calls[c].at \notin {"vetoed", "failed"},
         entry' = entry \/ (entry.holder \in {c, nobody} /\ entry'.holder \in {c, nobody})
  PROVE  VetoInv'
<1>1. TypeOK /\ VetoInv /\ calls' \in [Callers -> Call] /\ Others(c, calls')
  BY DEF Inv, IInv, Turn
<1>2. \A d \in Callers : d # c =>
         /\ calls'[d].kind = calls[d].kind
         /\ calls'[d].at = calls[d].at \/ (calls[d].at = "queued" /\ calls'[d].at = "read")
  BY <1>1, Others2
<1>3. SUFFICES ASSUME NEW d \in Callers, sessions[d].stage = "vetoed"
               PROVE  /\ calls'[d].at \in {"vetoed", "failed"}
                      /\ sessions[d].seeded = Len(sessions[d].events)
                      /\ entry'.holder = d => sessions[d].events = Prepared'
                      /\ entry'.holder # d =>
                           /\ calls'[d].kind # "resume"
                           /\ \A i \in DOMAIN sessions[d].events : sessions[d].events[i].by = d
  BY DEF VetoInv
<1>4. /\ calls[d].at \in {"vetoed", "failed"} /\ d # c /\ d # nobody
      /\ sessions[d].seeded = Len(sessions[d].events)
      /\ entry.holder = d => sessions[d].events = Prepared
      /\ entry.holder # d =>
           calls[d].kind # "resume" /\ \A i \in DOMAIN sessions[d].events : sessions[d].events[i].by = d
  BY <1>1, <1>3, PreparationsAssumption DEF VetoInv
<1>5. calls'[d].at \in {"vetoed", "failed"} /\ calls'[d].kind = calls[d].kind
  BY <1>2, <1>4
<1>6. CASE entry' = entry
  <2>1. Prepared' = Prepared
    BY <1>6 DEF Prepared, Balanced, Interrupted, Closer, Marked, Own
  <2> QED
    BY <1>4, <1>5, <1>6, <2>1
<1>7. CASE entry.holder \in {c, nobody} /\ entry'.holder \in {c, nobody}
  BY <1>4, <1>5, <1>7
<1> QED
  BY <1>6, <1>7

\* Any step that leaves the vetoed Session, its call and its preparation alone.
LEMMA VetoStays ==
  ASSUME Inv,
         \A d \in Callers : sessions'[d].stage = "vetoed" =>
           /\ sessions[d].stage = "vetoed"
           /\ sessions'[d].events = sessions[d].events /\ sessions'[d].seeded = sessions[d].seeded
           /\ calls'[d].at = calls[d].at /\ calls'[d].kind = calls[d].kind
           /\ entry' = entry \/ (entry.holder # d /\ entry'.holder # d)
  PROVE  VetoInv'
<1>1. SUFFICES ASSUME NEW d \in Callers, sessions'[d].stage = "vetoed"
               PROVE  /\ calls'[d].at \in {"vetoed", "failed"}
                      /\ sessions'[d].seeded = Len(sessions'[d].events)
                      /\ entry'.holder = d => sessions'[d].events = Prepared'
                      /\ entry'.holder # d =>
                           /\ calls'[d].kind # "resume"
                           /\ \A i \in DOMAIN sessions'[d].events : sessions'[d].events[i].by = d
  BY DEF VetoInv
<1>2. /\ sessions[d].stage = "vetoed"
      /\ sessions'[d].events = sessions[d].events /\ sessions'[d].seeded = sessions[d].seeded
      /\ calls'[d].at = calls[d].at /\ calls'[d].kind = calls[d].kind
      /\ entry' = entry \/ (entry.holder # d /\ entry'.holder # d)
  BY <1>1
<1>4. /\ calls[d].at \in {"vetoed", "failed"}
      /\ sessions[d].seeded = Len(sessions[d].events)
      /\ entry.holder = d => sessions[d].events = Prepared
      /\ entry.holder # d =>
           calls[d].kind # "resume" /\ \A i \in DOMAIN sessions[d].events : sessions[d].events[i].by = d
  BY <1>2 DEF VetoInv, Inv, IInv
<1>5. CASE entry' = entry
  <2>1. Prepared' = Prepared
    BY <1>5 DEF Prepared, Balanced, Interrupted, Closer, Marked, Own
  <2> QED
    BY <1>2, <1>4, <1>5, <2>1
<1>6. CASE entry.holder # d /\ entry'.holder # d
  BY <1>2, <1>4, <1>6
<1> QED
  BY <1>2, <1>5, <1>6

LEMMA UnattachedSame ==
  ASSUME TypeOK, live' = live,
         \A d \in Callers : sessions'[d].stage = "vetoed" <=> sessions[d].stage = "vetoed"
  PROVE  Unattached' <=> Unattached
BY DEF Unattached, TypeOK

LEMMA EntrySame ==
  ASSUME Inv, SameLog, NEW c \in Callers, Turn(c, calls'), entry' = entry,
         calls[c].at \notin {"vetoed", "failed"},
         entry.holder = c =>
           /\ \/ entry.phase = "committing" /\ calls'[c].at \in {"committing", "committed"}
              \/ entry.phase = "reserved" /\ calls'[c].at \in {"reserved", "setup", "vetoed", "rollback"}
           /\ entry.added # <<>> => calls'[c].at \in {"setup", "vetoed", "rollback"}
           /\ calls'[c].at = "committed" => Settled,
         entry.holder # c =>
           /\ calls'[c].at \notin {"committed", "reserved"}
           /\ calls'[c].at = "setup" => calls[c].kind = "create"
  PROVE  EntryInv' /\ HolderInv' /\ VetoInv'
<1>1. TypeOK /\ EntryInv /\ HolderInv /\ calls' \in [Callers -> Call] /\ Others(c, calls')
      /\ calls'[c].kind = calls[c].kind
  BY DEF Inv, IInv, Turn
<1>2. \A d \in Callers : d # c =>
         /\ calls'[d].kind = calls[d].kind
         /\ calls'[d].at = calls[d].at \/ (calls[d].at = "queued" /\ calls'[d].at = "read")
  BY <1>1, Others2
<1>3. /\ stored' = stored /\ tracked' = tracked /\ sessions' = sessions /\ live' = live
      /\ Settled' = Settled /\ Exclusive' = Exclusive /\ Unattached' = Unattached
  BY DEF SameLog, Settled, Exclusive, Unattached
<1>4. EntryInv'
  <2>1. entry.holder # nobody => entry.holder \in Callers
    BY <1>1 DEF TypeOK
  <2>2. entry.added # <<>> => entry.holder # nobody
    BY <1>1 DEF EntryInv, Exclusive
  <2> QED
    BY <1>1, <1>2, <1>3, <2>1, <2>2 DEF EntryInv
<1>5. HolderInv'
  BY <1>1, <1>2, <1>3 DEF HolderInv
<1>6. VetoInv'
  BY <1>3, VetoKept
<1> QED
  BY <1>4, <1>5, <1>6

\* The entry that nobody holds any more, or does not hold yet.
LEMMA EntryUnheld ==
  ASSUME Inv, SameLog, NEW c \in Callers, Turn(c, calls'), entry.holder \in {c, nobody},
         calls[c].at \notin {"vetoed", "failed"},
         \/ entry' = NoEntry
         \/ live = nobody /\ \E n \in Nat : n > 0 /\ entry' = Loading(n)
         \/ /\ entry.holder = c /\ entry.added = <<>>
            /\ entry' = [entry EXCEPT !.phase = "ready", !.holder = nobody],
         calls'[c].at \notin {"committed", "reserved"},
         calls'[c].at = "setup" => calls[c].kind = "create"
  PROVE  EntryInv' /\ HolderInv' /\ VetoInv'
<1>1. TypeOK /\ EntryInv /\ HolderInv /\ calls' \in [Callers -> Call] /\ Others(c, calls')
      /\ calls'[c].kind = calls[c].kind
  BY DEF Inv, IInv, Turn
<1>2. \A d \in Callers : d # c =>
         /\ calls'[d].kind = calls[d].kind
         /\ calls'[d].at = calls[d].at \/ (calls[d].at = "queued" /\ calls'[d].at = "read")
  BY <1>1, Others2
<1>3. /\ stored' = stored /\ tracked' = tracked /\ sessions' = sessions /\ live' = live
  BY DEF SameLog
<1>4. \A d \in Callers : d # c => entry.holder # d /\ calls[d].at \notin {"committed", "reserved"}
                           /\ (calls[d].at = "setup" => calls[d].kind = "create")
  BY <1>1, PreparationsAssumption DEF HolderInv
<1>5. /\ entry'.holder = nobody /\ entry'.phase \in {"none", "loading", "ready"} /\ entry'.added = <<>>
      /\ entry'.phase = "none" => entry' = NoEntry
      /\ entry'.no = 0 => entry' = NoEntry
      /\ entry'.phase = "loading" => entry'.source = <<>>
      /\ entry'.phase = "ready" => entry.holder = c /\ entry' = [entry EXCEPT !.phase = "ready", !.holder = nobody]
      /\ entry' # NoEntry => live = nobody \/ Unattached
  <2>1. CASE entry' = NoEntry
    BY <2>1 DEF NoEntry
  <2>2. CASE live = nobody /\ \E n \in Nat : n > 0 /\ entry' = Loading(n)
    <3>1. PICK n \in Nat : n > 0 /\ entry' = Loading(n)
      BY <2>2
    <3>2. /\ entry'.no = n /\ entry'.phase = "loading" /\ entry'.source = <<>>
          /\ entry'.added = <<>> /\ entry'.holder = nobody
      BY <3>1 DEF Loading, NoEntry
    <3> QED
      BY <2>2, <3>1, <3>2
  <2>3. CASE /\ entry.holder = c /\ entry.added = <<>>
             /\ entry' = [entry EXCEPT !.phase = "ready", !.holder = nobody]
    <3>1. entry.holder # nobody /\ Exclusive
      BY <1>1, <2>3, PreparationsAssumption DEF EntryInv
    <3>2. entry.phase # "none" /\ entry.no # 0 /\ entry # NoEntry
      BY <1>1, <3>1 DEF Exclusive, EntryInv, NoEntry
    <3>3. live = nobody \/ Unattached
      BY <1>1, <3>2 DEF EntryInv
    <3> QED
      BY <1>1, <2>3, <3>2, <3>3 DEF TypeOK
  <2> QED
    BY <2>1, <2>2, <2>3
<1>6. entry'.phase = "ready" => entry'.source # <<>> /\ (tracked.owner # nobody => entry'.source = stored)
  <2> SUFFICES ASSUME entry'.phase = "ready" PROVE entry'.source # <<>> /\ (tracked.owner # nobody => entry'.source = stored)
    OBVIOUS
  <2>1. entry'.source = entry.source /\ entry.holder = c /\ entry.holder # nobody
    BY <1>1, <1>5, PreparationsAssumption DEF TypeOK
  <2>2. entry.phase \in {"committing", "reserved"}
    BY <1>1, <2>1 DEF EntryInv, Exclusive
  <2> QED
    BY <1>1, <2>1, <2>2 DEF EntryInv, HolderInv, Settled
<1>7. EntryInv'
  <2>1. entry'.phase # "none" => entry'.no # 0
    BY <1>5 DEF NoEntry
  <2>2. Unattached' = Unattached
    BY <1>3 DEF Unattached
  <2> QED
    BY <1>3, <1>5, <1>6, <2>1, <2>2 DEF EntryInv, Exclusive, NoEntry
<1>8. HolderInv'
  BY <1>1, <1>2, <1>3, <1>4, <1>5, PreparationsAssumption DEF HolderInv
<1>9. VetoInv'
  BY <1>3, <1>5, VetoKept
<1> QED
  BY <1>7, <1>8, <1>9

LEMMA TurnWithout ==
  ASSUME Inv, SameLog, NEW c \in Callers, Turn(c, calls'), NEW k, Without(k),
         calls[c].at = "committing" /\ calls'[c].at # "committing" =>
           (k \in DOMAIN chain /\ chain[k].op = "commit" /\ chain[k].by = c) \/ ~Queued("commit", c),
         calls[c].at = "checking" /\ calls'[c].at # "checking" =>
           (k \in DOMAIN chain /\ chain[k].op = "check" /\ chain[k].by = c) \/ ~Queued("check", c),
         calls'[c].at = "committing" =>
           /\ calls[c].at = "committing" /\ entry'.holder \in {entry.holder, c}
           /\ k \in DOMAIN chain => ~(chain[k].op = "commit" /\ chain[k].by = c),
         k \in DOMAIN chain =>
           chain[k].op \notin {"created", "seed"} /\ (chain[k].op = "commit" => chain[k].by = c),
         entry'.holder = entry.holder \/ entry.holder \in {c, nobody},
         \/ SameEntry /\ (k \in DOMAIN chain => ~(chain[k].op = "read" /\ chain[k].n = entry.no))
         \/ NoEntryNow \/ PastReading
  PROVE  ChainInv' /\ LosingInv' /\ PendingInv'
<1>1. /\ TypeOK /\ ChainInv /\ LosingInv /\ PendingInv /\ calls' \in [Callers -> Call] /\ Others(c, calls')
      /\ calls'[c].kind = calls[c].kind
  BY DEF Inv, IInv, Turn
<1>2. \A d \in Callers : d # c =>
         calls'[d].at = calls[d].at \/ (calls[d].at = "queued" /\ calls'[d].at = "read")
  BY <1>1, Others2
<1>3. /\ stored' = stored /\ tracked' = tracked /\ sessions' = sessions /\ live' = live
  BY DEF SameLog
<1>4. ASSUME NEW o \in Op, OpInv(o), k \in DOMAIN chain => ~SameOp(o, chain[k]),
             \E j \in DOMAIN chain : chain[j] = o
      PROVE  OpInv(o)'
  <2>1. o.op = "commit" => calls'[o.by].at = "committing"
    BY <1>1, <1>2, <1>4 DEF OpInv, SameOp, At, Queued
  <2>2. o.op = "check" => calls'[o.by].at = "checking"
    BY <1>1, <1>2, <1>4 DEF OpInv, SameOp, At, Queued
  <2> QED
    BY <1>3, <1>4, <2>1, <2>2 DEF OpInv, At, Owns, Started
<1>5. ChainInv'
  BY <1>1, <1>4, WithoutChain
<1>6. LosingInv'
  <2>1. tracked' \in [known : BOOLEAN, cursor : Nat, owner : Callers \cup {nobody}]
        /\ tracked'.cursor >= tracked.cursor
    BY <1>1, <1>3 DEF TypeOK
  <2>2. \A d \in Callers : calls'[d].at = "committing" =>
           calls[d].at = "committing" /\ (k \in DOMAIN chain => ~(chain[k].op = "commit" /\ chain[k].by = d))
    BY <1>2
  <2>3. \A d \in Callers : Losing(d)' => Losing(d)
    BY <1>2, PreparationsAssumption DEF Losing
  <2> QED
    BY <1>1, <1>3, <2>1, <2>2, <2>3, WithoutLosing
<1>7. PendingInv'
  <2>1. KeepsPending
    BY <1>3 DEF KeepsPending, Unattached
  <2> QED
    BY <1>1, <1>3, <2>1, WithoutPending
<1> QED
  BY <1>5, <1>6, <1>7

LEMMA TurnEnqueued ==
  ASSUME Inv, SameLog, NEW c \in Callers, Turn(c, calls'),
         NEW op \in {"read", "commit", "check", "drain"}, NEW by \in {c, nobody}, NEW n \in Nat,
         Enqueued(op, by, n),
         calls[c].at \notin {"committing", "checking"},
         calls'[c].at = "committing" => op = "commit",
         op = "read" => by = nobody /\ n > 0 /\ entry' = Loading(n) /\ Unused(n),
         op = "commit" => by = c /\ calls'[c].at = "committing" /\ entry'.holder = c,
         op = "check" => by = c /\ calls'[c].at = "checking",
         op = "drain" => by = c /\ OpInv([op |-> op, by |-> c, n |-> n]) /\ ~Queued("drain", c),
         entry'.holder = entry.holder \/ entry.holder \in {c, nobody},
         op = "read" \/ SameEntry \/ NoEntryNow \/ PastReading
  PROVE  ChainInv' /\ LosingInv' /\ PendingInv'
<1>1. /\ TypeOK /\ ChainInv /\ LosingInv /\ PendingInv /\ calls' \in [Callers -> Call] /\ Others(c, calls')
      /\ calls'[c].kind = calls[c].kind
  BY DEF Inv, IInv, Turn
<1>2. \A d \in Callers : d # c =>
         calls'[d].at = calls[d].at \/ (calls[d].at = "queued" /\ calls'[d].at = "read")
  BY <1>1, Others2
<1>3. /\ stored' = stored /\ tracked' = tracked /\ sessions' = sessions /\ live' = live
  BY DEF SameLog
<1>4. \A o \in Op : OpInv(o) => OpInv(o)'
  BY <1>2, <1>3 DEF OpInv, At, Owns, Started
<1>5. OpInv([op |-> op, by |-> by, n |-> n])'
  <2>1. CASE op = "drain"
    BY <1>3, <2>1 DEF OpInv, Owns, Started
  <2>2. CASE op # "drain"
    BY <2>2 DEF OpInv, At
  <2> QED
    BY <2>1, <2>2
<1>6. op # "read" => ~Queued(op, by)
  <2>1. op = "commit" => ~Queued(op, by)
    BY <1>1 DEF Queued, ChainInv, OpInv, At
  <2>2. op = "check" => ~Queued(op, by)
    BY <1>1 DEF Queued, ChainInv, OpInv, At
  <2> QED
    BY <2>1, <2>2
<1>7. op = "read" => \A i \in DOMAIN chain : chain[i].op = "read" => chain[i].n # n
  BY DEF Unused
<1>8. ChainInv'
  BY <1>1, <1>4, <1>5, <1>6, <1>7, EnqueuedChain
<1>9. LosingInv'
  <2>1. \A d \in Callers : calls'[d].at = "committing" =>
           calls[d].at = "committing" \/ (op = "commit" /\ by = d)
    BY <1>2
  <2>2. \A d \in Callers : Losing(d)' => Losing(d) /\ ~(op = "commit" /\ by = d)
    BY <1>2, PreparationsAssumption DEF Losing
  <2> QED
    BY <1>1, <1>3, <2>1, <2>2, EnqueuedLosing
<1>10. PendingInv'
  <2>1. KeepsPending
    BY <1>3 DEF KeepsPending, Unattached
  <2> QED
    BY <1>1, <1>3, <2>1, EnqueuedPending
<1> QED
  BY <1>8, <1>9, <1>10

LEMMA PlacesAre ==
  /\ Places("none") = {"idle"}
  /\ Places("create") = {"idle", "setup", "vetoed", "rollback", "live", "disposing", "done", "failed"}
  /\ Places("resume") = {"idle", "waiting", "reading", "read", "queued", "committing", "committed", "reserved",
             "setup", "vetoed", "rollback", "live", "disposing", "done", "failed"}
  /\ Places("configured") = {"idle", "draining", "listing", "creating", "waiting", "reading", "read", "queued",
             "committing", "committed", "reserved",
             "setup", "vetoed", "rollback", "live", "disposing", "done", "failed"}
  /\ Places("load") = {"idle", "waiting", "reading", "read", "queued", "committing", "committed",
                         "flushing", "done", "failed"}
  /\ Places("inspect") = {"idle", "waiting", "reading", "read", "checking", "fresh", "stale",
                            "done", "failed"}
<1>1. Places("none") = {"idle"}
  BY DEF Places
<1>2. Places("create") = {"idle", "setup", "vetoed", "rollback", "live", "disposing", "done", "failed"}
  BY DEF Places
<1>3. Places("resume") = {"idle"} \cup Resuming
  BY DEF Places
<1>4. Places("configured") = {"idle", "draining", "listing", "creating"} \cup Resuming
  BY DEF Places
<1>5. Places("load") = {"idle", "waiting", "reading", "read", "queued", "committing", "committed",
                         "flushing", "done", "failed"}
  BY DEF Places
<1>6. Places("inspect") = {"idle", "waiting", "reading", "read", "checking", "fresh", "stale",
                            "done", "failed"}
  BY DEF Places
<1> QED
  BY <1>1, <1>2, <1>3, <1>4, <1>5, <1>6 DEF Resuming

\* What a place says of the call that is there.
LEMMA PlaceSays ==
  ASSUME Inv, NEW c \in Callers
  PROVE  /\ calls[c] \in Call /\ calls[c].at \in Places(calls[c].kind) /\ calls[c].kind \in CallKinds
         /\ calls[c].at \notin Published => sessions[c].stage = "none" /\ sessions[c].init = "none"
         /\ calls[c].at \notin {"committing", "committed", "reserved", "setup", "vetoed", "rollback"} => entry.holder # c
         /\ calls[c].at \in {"committed", "reserved"} => entry.holder = c
BY DEF Inv, IInv, TypeOK, PlacesInv, SessionInv, HolderInv, Published, Call

LEMMA TypedTurn ==
  ASSUME TypeOK, calls' \in [Callers -> Call], SameLog, chain' \in Seq(Op), left' \in [Kinds -> Nat],
         entry' \in [no : Nat, phase : {"none", "loading", "ready", "committing", "reserved"},
                source : Seq(Event), added : Seq(Event), holder : Callers \cup {nobody}]
  PROVE  TypeOK'
BY DEF TypeOK, SameLog

LEMMA EntryTypes ==
  LET E == [no : Nat, phase : {"none", "loading", "ready", "committing", "reserved"},
            source : Seq(Event), added : Seq(Event), holder : Callers \cup {nobody}] IN
  NoEntry \in E /\ \A n \in Nat : Loading(n) \in E
BY EmptySeq DEF NoEntry, Loading

LEMMA TopKeeps ==
  ASSUME Inv, SameLog, left' = left, NEW c \in Callers, NEW cs \in [Callers -> Call], Others(c, cs),
         cs[c].kind = calls[c].kind, cs[c].borrowed = calls[c].borrowed,
         NEW e \in {entry, NoEntry}, e = NoEntry => entry.phase \in {"none", "ready"},
         calls[c].kind \in {"resume", "configured", "load", "inspect"},
         calls[c].at \in {"idle", "draining", "waiting", "read", "fresh", "stale"},
         Top(c, cs, e) \/ Look(c, cs, e)
  PROVE  TypeOK' /\ IInv' /\ Turn(c, calls')
<1>1. /\ TypeOK /\ EntryInv /\ HolderInv
      /\ sessions[c].stage = "none" /\ entry.holder # c /\ calls[c].kind \in CallKinds
  BY PlaceSays DEF Inv, IInv, Published
<1>2. /\ Only(c, cs)
      /\ Rejects(c, e) \/ Borrows(c, e) \/ Loads(c, e) \/ Joins(c, e) \/ Waits(c, e)
  BY <1>1, TopIs, LookIs
<1>3. Turn(c, calls') /\ calls' \in [Callers -> Call]
  BY <1>2 DEF Turn, Only, Others
<1>4. /\ calls'[c].at \in {"listing", "failed", "flushing", "done", "reading", "read", "waiting"}
      /\ calls'[c].at = "listing" => calls[c].kind = "configured"
      /\ calls'[c].at = "flushing" => calls[c].kind = "load"
      /\ calls'[c].at = "done" => calls[c].kind = "inspect"
  BY <1>2 DEF Only, Rejects, Borrows, Loads, Joins, Waits
<1>5. calls'[c].at \in Places(calls[c].kind)
  BY <1>4, PlacesAre
<1>6. (entry' = e /\ chain' = chain) \/ Loads(c, e)
  BY <1>2 DEF Rejects, Borrows, Joins, Waits
<1>7. PlacesInv' /\ SessionInv' /\ RegistryInv' /\ OwnerInv' /\ WantedInv'
  <2>1. stored' = stored /\ UNCHANGED <<sessions, live, retiring>> /\ UNCHANGED <<stored, tracked, sessions, live>>
    BY DEF SameLog
  <2>2. PlacesInv' /\ SessionInv' /\ RegistryInv'
    BY <1>1, <1>3, <1>4, <1>5, <2>1, CallsKeep
  <2> QED
    BY <2>1, <2>2, LogKept
<1>8. CASE entry' = entry /\ chain' = chain
  <2>1. EntryInv' /\ HolderInv' /\ VetoInv'
    BY <1>1, <1>3, <1>4, <1>8, EntrySame
  <2>2. Without(Len(chain) + 1) /\ Len(chain) + 1 \notin DOMAIN chain
    BY <1>1, <1>8, WithoutNone DEF TypeOK
  <2>3. SameEntry
    BY <1>8 DEF SameEntry
  <2>4. ChainInv' /\ LosingInv' /\ PendingInv'
    BY <1>3, <1>4, <1>8, <2>2, <2>3, TurnWithout
  <2>5. TypeOK'
    BY <1>1, <1>3, <1>8, TypedTurn DEF TypeOK
  <2> QED
    BY <1>3, <1>7, <2>1, <2>4, <2>5 DEF IInv
<1>9. CASE entry' = NoEntry /\ chain' = chain /\ entry.phase \in {"none", "ready"}
  <2>1. entry.holder = nobody
    BY <1>1, <1>9 DEF EntryInv, Exclusive
  <2>2. EntryInv' /\ HolderInv' /\ VetoInv'
    BY <1>3, <1>4, <1>9, <2>1, EntryUnheld
  <2>3. Without(Len(chain) + 1) /\ Len(chain) + 1 \notin DOMAIN chain
    BY <1>1, <1>9, WithoutNone DEF TypeOK
  <2>4. NoEntryNow
    BY <1>9 DEF NoEntryNow, NoEntry
  <2>5. ChainInv' /\ LosingInv' /\ PendingInv'
    BY <1>3, <1>4, <1>9, <2>1, <2>3, <2>4, TurnWithout
  <2>6. TypeOK'
    BY <1>1, <1>3, <1>9, EntryTypes, TypedTurn DEF TypeOK
  <2> QED
    BY <1>3, <1>7, <2>2, <2>5, <2>6 DEF IInv
<1>10. CASE Loads(c, e)
  <2>1. /\ live = nobody /\ entry' = Loading(FreshNo) /\ Enqueued("read", nobody, FreshNo)
        /\ FreshNo \in Nat /\ FreshNo > 0 /\ Unused(FreshNo)
    BY <1>10 DEF Loads
  <2> HIDE DEF FreshNo
  <2>2. entry.holder = nobody
    <3>1. e.no = 0
      BY <1>10 DEF Loads
    <3> QED
      BY <1>1, <3>1 DEF EntryInv, Exclusive, NoEntry
  <2>3. EntryInv' /\ HolderInv' /\ VetoInv'
    BY <1>3, <1>4, <2>1, <2>2, EntryUnheld
  <2>4. ChainInv' /\ LosingInv' /\ PendingInv'
    BY <1>3, <1>4, <2>1, <2>2, TurnEnqueued
  <2>5. TypeOK'
    <3>1. chain' \in Seq(Op)
      BY <1>1, <2>1, EnqueuedIs DEF TypeOK
    <3> QED
      BY <1>1, <1>3, <2>1, <3>1, EntryTypes, TypedTurn DEF TypeOK
  <2> QED
    BY <1>3, <1>7, <2>3, <2>4, <2>5 DEF IInv
<1> QED
  BY <1>6, <1>8, <1>9, <1>10

LEMMA CurrentIs ==
  ASSUME TypeOK
  PROVE  Current \in Seq(Event) /\ Awaited \in Callers \cup {nobody}
<1>1. Awaited \in Callers \cup {nobody}
  BY DEF Awaited, TypeOK
<1> HIDE DEF Awaited
<1> QED
  BY <1>1 DEF Current, TypeOK

LEMMA SpendIs ==
  ASSUME TypeOK, NEW kind \in Kinds, Spend(kind)
  PROVE  left' \in [Kinds -> Nat]
<1>1. left \in [Kinds -> Nat] /\ left[kind] > 0 /\ left' = [left EXCEPT ![kind] = left[kind] - 1]
  BY DEF TypeOK, Spend
<1>2. left[kind] - 1 \in Nat
  BY <1>1
<1> QED
  BY <1>1, <1>2

LEMMA GoesTo ==
  ASSUME TypeOK, NEW c \in Callers, NEW place \in {"idle", "draining", "waiting", "reading", "read", "queued", "committing",
               "committed", "reserved", "setup", "rollback", "listing", "creating", "live",
               "vetoed", "disposing", "checking", "fresh", "stale", "flushing", "done", "failed"},
         calls' = Goes(c, place)
  PROVE  /\ Turn(c, calls') /\ calls'[c].at = place
         /\ \A d \in Callers : d # c => calls'[d] = calls[d]
         /\ calls'[c].kind = calls[c].kind /\ calls'[c].source = calls[c].source
         /\ calls'[c].known = calls[c].known /\ calls'[c].awaits = calls[c].awaits
         /\ calls'[c].aborted = calls[c].aborted /\ calls'[c].borrowed = calls[c].borrowed
<1>1. calls \in [Callers -> Call]
  BY DEF TypeOK
<1>2. /\ calls' \in [Callers -> Call] /\ calls'[c].at = place
      /\ \A d \in Callers : d # c => calls'[d] = calls[d]
      /\ calls'[c].kind = calls[c].kind /\ calls'[c].source = calls[c].source
      /\ calls'[c].known = calls[c].known /\ calls'[c].awaits = calls[c].awaits
      /\ calls'[c].aborted = calls[c].aborted /\ calls'[c].borrowed = calls[c].borrowed
  BY <1>1 DEF Goes, Call
<1>3. Others(c, calls')
  BY <1>2 DEF Others
<1> QED
  BY <1>2, <1>3 DEF Turn

LEMMA RejectedTo ==
  ASSUME TypeOK, NEW c \in Callers, calls' = Rejected(c, calls)
  PROVE  /\ Turn(c, calls') /\ calls'[c].at \in {"listing", "failed"}
         /\ calls'[c].at = "listing" => calls[c].kind = "configured"
         /\ \A d \in Callers : d # c => calls'[d] = calls[d]
         /\ calls'[c].kind = calls[c].kind /\ calls'[c].known = <<>>
<1>1. calls \in [Callers -> Call]
  BY DEF TypeOK
<1> QED
  BY <1>1, RejectedIs DEF Turn, Others

LEMMA ReturnedTo ==
  ASSUME TypeOK, NEW c \in Callers, NEW view \in Seq(Event), NEW lent \in BOOLEAN,
         calls' = Returned(c, view, lent)
  PROVE  /\ Turn(c, calls') /\ calls'[c].at = "done" /\ calls'[c].source = view
         /\ calls'[c].borrowed = lent
         /\ \A d \in Callers : d # c => calls'[d] = calls[d]
         /\ calls'[c].kind = calls[c].kind /\ calls'[c].known = calls[c].known
         /\ calls'[c].awaits = calls[c].awaits
<1>1. calls \in [Callers -> Call]
  BY DEF TypeOK
<1> QED
  <2>1. /\ calls' \in [Callers -> Call] /\ calls'[c].at = "done" /\ calls'[c].source = view
        /\ calls'[c].borrowed = lent
        /\ \A d \in Callers : d # c => calls'[d] = calls[d]
        /\ calls'[c].kind = calls[c].kind /\ calls'[c].known = calls[c].known
        /\ calls'[c].awaits = calls[c].awaits
    BY <1>1, ReturnedIs
  <2>2. Others(c, calls')
    BY <2>1 DEF Others
  <2> QED
    BY <2>1, <2>2 DEF Turn

\* A turn that neither reads nor holds the entry otherwise than before.
LEMMA TurnKeeps ==
  ASSUME Inv, SameLog, left' \in [Kinds -> Nat], NEW c \in Callers, Turn(c, calls'),
         calls[c].at \notin {"vetoed", "failed"}, entry' = entry, NEW k, Without(k),
         k \in DOMAIN chain => chain[k].op \in {"commit", "check"} /\ chain[k].by = c,
         calls[c].at \in {"committing", "checking"} =>
           k \in DOMAIN chain \/ ~(Queued("commit", c) \/ Queued("check", c)),
         calls'[c].at \notin {"committing", "checking"},
         calls'[c].at \in Places(calls[c].kind),
         sessions[c].stage # "none" =>
           /\ calls'[c].at \in Published
           /\ calls[c].kind = "configured" /\ calls'[c].at \in {"vetoed", "rollback", "listing"} => stored # <<>>,
         calls'[c].at \in {"live", "vetoed", "disposing"} => live = c,
         entry.holder = c =>
           /\ \/ entry.phase = "committing" /\ calls'[c].at = "committed"
              \/ entry.phase = "reserved" /\ calls'[c].at \in {"reserved", "setup", "vetoed", "rollback"}
           /\ entry.added # <<>> => calls'[c].at \in {"setup", "vetoed", "rollback"}
           /\ calls'[c].at = "committed" => Settled,
         entry.holder # c =>
           /\ calls'[c].at \notin {"committed", "reserved"}
           /\ calls'[c].at = "setup" => calls[c].kind = "create"
  PROVE  TypeOK' /\ IInv'
<1>1. /\ TypeOK /\ calls' \in [Callers -> Call] /\ chain' \in Seq(Op) /\ ChainInv
      /\ stored' = stored /\ UNCHANGED <<sessions, live, retiring>> /\ UNCHANGED <<stored, tracked, sessions, live>>
  BY DEF Inv, IInv, Turn, Without, SameLog
<1>2. PlacesInv' /\ SessionInv' /\ RegistryInv'
  BY <1>1, CallsKeep
<1>3. OwnerInv' /\ WantedInv'
  BY <1>1, LogKept
<1>4. EntryInv' /\ HolderInv' /\ VetoInv'
  BY EntrySame
<1>5. SameEntry
  BY DEF SameEntry
<1>6. k \in DOMAIN chain =>
        chain[k].op = IF calls[c].at = "committing" THEN "commit" ELSE "check"
  BY <1>1 DEF ChainInv, OpInv, At
<1>7. ChainInv' /\ LosingInv' /\ PendingInv'
  BY <1>5, <1>6, TurnWithout
<1>8. TypeOK'
  BY <1>1, TypedTurn DEF TypeOK
<1> QED
  BY <1>2, <1>3, <1>4, <1>7, <1>8 DEF IInv

LEMMA TurnStays ==
  ASSUME Inv, SameLog, left' \in [Kinds -> Nat], NEW c \in Callers, Turn(c, calls'),
         entry' = entry, chain' = chain,
         calls[c].at \notin {"committing", "checking", "vetoed", "failed"}, calls'[c].at \notin {"committing", "checking"},
         calls'[c].at \in Places(calls[c].kind),
         sessions[c].stage # "none" =>
           /\ calls'[c].at \in Published
           /\ calls[c].kind = "configured" /\ calls'[c].at \in {"vetoed", "rollback", "listing"} => stored # <<>>,
         calls'[c].at \in {"live", "vetoed", "disposing"} => live = c,
         entry.holder = c =>
           /\ entry.phase = "reserved" /\ calls'[c].at \in {"setup", "rollback"},
         entry.holder # c =>
           /\ calls'[c].at \notin {"committed", "reserved"}
           /\ calls'[c].at = "setup" => calls[c].kind = "create"
  PROVE  TypeOK' /\ IInv'
<1>1. Without(Len(chain) + 1) /\ Len(chain) + 1 \notin DOMAIN chain
  BY WithoutNone DEF Inv, TypeOK
<1> QED
  BY <1>1, TurnKeeps

LEMMA ReserveWaitsKeeps ==
  ASSUME Inv, NEW c \in Callers, ReserveWaits(c)
  PROVE  TypeOK' /\ IInv'
<1>1. /\ TypeOK /\ SameLog /\ left' \in [Kinds -> Nat] /\ entry' = entry /\ chain' = chain
      /\ calls[c].at = "read" /\ calls[c].kind # "inspect"
      /\ calls' = Rejected(c, calls) \/ calls' = Goes(c, "queued")
  BY DEF ReserveWaits, Reserves, At, SameLog, Inv, identity, TypeOK
<1>2. /\ Turn(c, calls') /\ calls'[c].at \in {"listing", "failed", "queued"}
      /\ calls'[c].at = "listing" => calls[c].kind = "configured"
  BY <1>1, RejectedTo, GoesTo
<1>3. /\ sessions[c].stage = "none" /\ entry.holder # c
      /\ calls[c].kind \in {"resume", "configured", "load"}
  BY <1>1, PlaceSays, PlacesAre DEF CallKinds, Published
<1>4. calls'[c].at \in Places(calls[c].kind)
  BY <1>2, <1>3, PlacesAre
<1> QED
  BY <1>1, <1>2, <1>3, <1>4, TurnStays

LEMMA LoadFlushedKeeps ==
  ASSUME Inv, NEW c \in Callers, LoadFlushed(c)
  PROVE  TypeOK' /\ IInv'
<1>1. /\ TypeOK /\ SameLog /\ left' \in [Kinds -> Nat] /\ entry' = entry /\ chain' = chain
      /\ calls[c].at = "flushing"
      /\ calls' = Rejected(c, calls) \/ calls' = Returned(c, calls[c].source, FALSE)
  BY DEF LoadFlushed, At, SameLog, Inv, identity, TypeOK
<1>2. /\ sessions[c].stage = "none" /\ entry.holder # c /\ calls[c].kind = "load"
      /\ calls[c].source \in Seq(Event)
  <2>1. calls[c].source \in Seq(Event)
    BY <1>1 DEF TypeOK, Call
  <2> QED
    BY <1>1, <2>1, PlaceSays, PlacesAre DEF CallKinds, Published
<1>3. /\ Turn(c, calls') /\ calls'[c].at \in {"listing", "failed", "done"}
      /\ calls'[c].at = "listing" => calls[c].kind = "configured"
  BY <1>1, <1>2, RejectedTo, ReturnedTo
<1>4. calls'[c].at \in Places(calls[c].kind)
  BY <1>2, <1>3, PlacesAre
<1> QED
  BY <1>1, <1>2, <1>3, <1>4, TurnStays

LEMMA ConfiguredListsKeeps ==
  ASSUME Inv, NEW c \in Callers, ConfiguredLists(c)
  PROVE  TypeOK' /\ IInv'
<1>1. /\ TypeOK /\ SameLog /\ left' \in [Kinds -> Nat] /\ entry' = entry /\ chain' = chain
      /\ calls[c].at = "listing"
      /\ (stored = <<>> /\ calls' = Goes(c, "creating")) \/ calls' = Goes(c, "failed")
  BY DEF ConfiguredLists, At, SameLog, Inv, identity, TypeOK
<1>2. entry.holder # c /\ calls[c].kind = "configured"
  BY <1>1, PlaceSays, PlacesAre DEF CallKinds
<1>3. sessions[c].stage # "none" => stored # <<>>
  BY <1>1, <1>2 DEF Inv, IInv, SessionInv
<1>4. /\ Turn(c, calls')
      /\ calls'[c].at = "failed" \/ (calls'[c].at = "creating" /\ stored = <<>>)
  BY <1>1, GoesTo
<1>5. calls'[c].at \in Places(calls[c].kind)
  BY <1>2, <1>4, PlacesAre
<1> QED
  BY <1>1, <1>2, <1>3, <1>4, <1>5, TurnStays DEF Published

LEMMA SetupFailsKeeps ==
  ASSUME Inv, NEW c \in Callers, SetupFails(c)
  PROVE  TypeOK' /\ IInv'
<1>1. TypeOK /\ SameLog /\ entry' = entry /\ chain' = chain /\ calls[c].at = "setup" /\ calls' = Goes(c, "rollback")
  BY DEF SetupFails, At, SameLog, Inv, identity
<1>2. left' \in [Kinds -> Nat]
  <2>1. left' = left \/ Spend("mishap")
    BY DEF SetupFails
  <2> QED
    BY <1>1, <2>1, SpendIs DEF Kinds, TypeOK
<1>3. sessions[c].stage = "none" /\ calls[c].kind \in {"create", "resume", "configured"}
  BY <1>1, PlaceSays, PlacesAre DEF CallKinds, Published
<1>4. Turn(c, calls') /\ calls'[c].at = "rollback"
  BY <1>1, GoesTo
<1>5. calls'[c].at \in Places(calls[c].kind)
  BY <1>3, <1>4, PlacesAre
<1>6. entry.holder = c => entry.phase = "reserved"
  BY <1>1 DEF Inv, IInv, HolderInv
<1> QED
  BY <1>1, <1>2, <1>3, <1>4, <1>5, <1>6, TurnStays

LEMMA LosesKeeps ==
  ASSUME Inv, SameLog, NEW c \in Callers, Publishable(c), calls' = Lost(c, "rollback"),
         entry' = entry, chain' = chain, left' \in [Kinds -> Nat]
  PROVE  TypeOK' /\ IInv'
<1>1. TypeOK /\ calls[c].at \in {"setup", "creating"}
      /\ calls' = Goes(c, IF calls[c].at = "creating" THEN "failed" ELSE "rollback")
  BY DEF Publishable, Lost, At, Inv
<1>2. sessions[c].stage = "none" /\ calls[c].kind \in {"create", "resume", "configured"}
  BY <1>1, PlaceSays, PlacesAre DEF CallKinds, Published
<1>3. Turn(c, calls') /\ calls'[c].at = IF calls[c].at = "creating" THEN "failed" ELSE "rollback"
  BY <1>1, GoesTo
<1>4. calls'[c].at \in Places(calls[c].kind)
  BY <1>2, <1>3, PlacesAre
<1>5. entry.holder = c => entry.phase = "reserved" /\ calls[c].at = "setup"
  BY <1>1 DEF Inv, IInv, HolderInv
<1> QED
  BY <1>1, <1>2, <1>3, <1>4, <1>5, TurnStays

LEMMA PublishCollidesKeeps ==
  ASSUME Inv, NEW c \in Callers, PublishCollides(c)
  PROVE  TypeOK' /\ IInv'
<1>1. SameLog /\ Publishable(c) /\ calls' = Lost(c, "rollback") /\ entry' = entry /\ chain' = chain /\ left' \in [Kinds -> Nat]
  BY DEF PublishCollides, SameLog, identity, Inv, TypeOK
<1> QED
  BY <1>1, LosesKeeps

LEMMA CallBeginsKeeps ==
  ASSUME Inv, NEW c \in Callers, CreateBegins(c) \/ ConfiguredBegins(c)
  PROVE  TypeOK' /\ IInv'
<1>1. /\ TypeOK /\ SameLog /\ left' \in [Kinds -> Nat] /\ entry' = entry /\ chain' = chain
      /\ calls[c].at = "idle"
      /\ \/ calls[c].kind = "create" /\ (calls' = Goes(c, "setup") \/ calls' = Goes(c, "failed"))
         \/ calls[c].kind = "configured" /\ calls' = Goes(c, "draining")
  BY DEF CreateBegins, ConfiguredBegins, Idle, At, SameLog, Inv, identity, TypeOK
<1>2. sessions[c].stage = "none" /\ entry.holder # c
  BY <1>1, PlaceSays DEF Published
<1>3. /\ Turn(c, calls')
      /\ \/ calls[c].kind = "create" /\ calls'[c].at \in {"setup", "failed"}
         \/ calls[c].kind = "configured" /\ calls'[c].at = "draining"
  BY <1>1, GoesTo
<1>4. calls'[c].at \in Places(calls[c].kind)
  BY <1>3, PlacesAre
<1> QED
  BY <1>1, <1>2, <1>3, <1>4, TurnStays

LEMMA DisposeBeginsKeeps ==
  ASSUME Inv, NEW c \in Callers, DisposeBegins(c)
  PROVE  TypeOK' /\ IInv'
<1>1. /\ TypeOK /\ SameLog /\ left' \in [Kinds -> Nat] /\ entry' = entry /\ chain' = chain
      /\ calls[c].at = "live" /\ calls' = Goes(c, "disposing")
  BY DEF DisposeBegins, At, SameLog, Inv, identity, TypeOK
<1>2. entry.holder # c /\ calls[c].kind \in {"create", "resume", "configured"} /\ live = c
  BY <1>1, PlaceSays, PlacesAre DEF CallKinds, Inv, IInv, RegistryInv
<1>3. Turn(c, calls') /\ calls'[c].at = "disposing"
  BY <1>1, GoesTo
<1>4. calls'[c].at \in Places(calls[c].kind)
  BY <1>2, <1>3, PlacesAre
<1> QED
  BY <1>1, <1>2, <1>3, <1>4, TurnStays DEF Published

\* A turn that changes the entry, and leaves the chain or takes its commit off.
LEMMA HolderTurn ==
  ASSUME Inv, SameLog, left' \in [Kinds -> Nat], NEW c \in Callers, Turn(c, calls'),
         EntryInv' /\ HolderInv' /\ VetoInv', NEW k, Without(k),
         k \in DOMAIN chain => chain[k].op \in {"commit", "check"} /\ chain[k].by = c,
         calls[c].at \in {"committing", "checking"} =>
           k \in DOMAIN chain \/ ~(Queued("commit", c) \/ Queued("check", c)),
         entry' \in [no : Nat, phase : {"none", "loading", "ready", "committing", "reserved"},
                source : Seq(Event), added : Seq(Event), holder : Callers \cup {nobody}],
         SameEntry \/ NoEntryNow \/ PastReading,
         entry.holder \in {c, nobody} \/ entry' = entry,
         calls'[c].at \notin {"committing", "checking"},
         calls'[c].at \in Places(calls[c].kind),
         sessions[c].stage # "none" =>
           /\ calls'[c].at \in Published
           /\ calls[c].kind = "configured" /\ calls'[c].at \in {"vetoed", "rollback", "listing"} => stored # <<>>,
         calls'[c].at \in {"live", "vetoed", "disposing"} => live = c
  PROVE  TypeOK' /\ IInv'
<1>1. /\ TypeOK /\ calls' \in [Callers -> Call] /\ chain' \in Seq(Op) /\ ChainInv
      /\ stored' = stored /\ UNCHANGED <<sessions, live, retiring>> /\ UNCHANGED <<stored, tracked, sessions, live>>
  BY DEF Inv, IInv, Turn, Without, SameLog
<1>2. PlacesInv' /\ SessionInv' /\ RegistryInv'
  BY <1>1, CallsKeep
<1>3. OwnerInv' /\ WantedInv'
  BY <1>1, LogKept
<1>4. k \in DOMAIN chain =>
        chain[k].op = IF calls[c].at = "committing" THEN "commit" ELSE "check"
  BY <1>1 DEF ChainInv, OpInv, At
<1>5. ChainInv' /\ LosingInv' /\ PendingInv'
  BY <1>4, TurnWithout
<1>6. TypeOK'
  BY <1>1, TypedTurn DEF TypeOK
<1> QED
  BY <1>2, <1>3, <1>5, <1>6 DEF IInv

LEMMA ReleaseKeeps ==
  ASSUME Inv, SameLog, NEW c \in Callers, left' = left, chain' = chain,
         calls[c].at \in {"reserved", "rollback"}, Release(c, Rejected(c, calls))
  PROVE  TypeOK' /\ IInv'
<1>1. TypeOK /\ calls \in [Callers -> Call] /\ left' \in [Kinds -> Nat]
  BY DEF Inv, TypeOK
<1> DEFINE cs == Rejected(c, calls)
<1>2. /\ cs \in [Callers -> Call] /\ \A d \in Callers : d # c => cs[d] = calls[d]
      /\ cs[c].at \in {"listing", "failed"} /\ cs[c].kind = calls[c].kind
      /\ (cs[c].at = "listing" => calls[c].kind = "configured")
  BY <1>1, RejectedIs
<1> HIDE DEF cs
<1>3. /\ Turn(c, calls') /\ calls'[c] = cs[c]
      /\ \/ entry.holder = c /\ entry.phase = "reserved" /\ entry' = NoEntry
         \/ /\ entry.holder = c /\ entry.phase = "reserved" /\ entry.added = <<>>
            /\ entry' = [entry EXCEPT !.phase = "ready", !.holder = nobody]
         \/ ~(entry.holder = c /\ entry.phase = "reserved") /\ entry' = entry
  BY <1>2, ReleaseIs DEF Turn, cs, Reusable
<1>4. calls'[c].at \in Places(calls[c].kind)
  <2>1. calls[c].kind \in {"create", "resume", "configured"}
    BY PlaceSays, PlacesAre DEF CallKinds
  <2> QED
    BY <1>2, <1>3, <2>1, PlacesAre
<1>5. /\ entry.holder = c => entry.phase = "reserved"
      /\ sessions[c].stage # "none" /\ calls[c].kind = "configured" => stored # <<>>
  BY DEF Inv, IInv, HolderInv, SessionInv, Published
<1>6. CASE entry' = NoEntry /\ entry.holder = c
  <2>1. EntryInv' /\ HolderInv' /\ VetoInv'
    BY <1>2, <1>3, <1>6, EntryUnheld
  <2>2. NoEntryNow
    BY <1>6 DEF NoEntryNow, NoEntry
  <2>3. Without(Len(chain) + 1) /\ Len(chain) + 1 \notin DOMAIN chain
    BY <1>1, WithoutNone DEF TypeOK
  <2> QED
    BY <1>1, <1>2, <1>3, <1>4, <1>5, <1>6, <2>1, <2>2, <2>3, EntryTypes, HolderTurn DEF Published
<1>7. CASE /\ entry.holder = c /\ entry.phase = "reserved" /\ entry.added = <<>>
           /\ entry' = [entry EXCEPT !.phase = "ready", !.holder = nobody]
  <2>1. EntryInv' /\ HolderInv' /\ VetoInv'
    BY <1>2, <1>3, <1>7, EntryUnheld
  <2>2. PastReading /\ entry' \in [no : Nat, phase : {"none", "loading", "ready", "committing", "reserved"},
                source : Seq(Event), added : Seq(Event), holder : Callers \cup {nobody}]
    BY <1>1, <1>7 DEF PastReading, TypeOK
  <2>3. Without(Len(chain) + 1) /\ Len(chain) + 1 \notin DOMAIN chain
    BY <1>1, WithoutNone DEF TypeOK
  <2> QED
    BY <1>1, <1>2, <1>3, <1>4, <1>5, <1>7, <2>1, <2>2, <2>3, HolderTurn DEF Published
<1>8. CASE entry' = entry /\ entry.holder # c
  BY <1>1, <1>2, <1>3, <1>4, <1>5, <1>8, TurnStays DEF Published
<1> QED
  BY <1>3, <1>5, <1>6, <1>7, <1>8

LEMMA SetupBeginsKeeps ==
  ASSUME Inv, NEW c \in Callers, SetupBegins(c)
  PROVE  TypeOK' /\ IInv'
<1>1. /\ TypeOK /\ SameLog /\ left' = left /\ chain' = chain /\ calls[c].at = "reserved"
      /\ Release(c, Rejected(c, calls)) \/ (calls' = Goes(c, "setup") /\ entry' = entry)
  BY DEF SetupBegins, At, SameLog, Inv
<1>2. CASE Release(c, Rejected(c, calls))
  BY <1>1, <1>2, ReleaseKeeps
<1>3. CASE calls' = Goes(c, "setup") /\ entry' = entry
  <2>1. Turn(c, calls') /\ calls'[c].at = "setup"
    BY <1>1, <1>3, GoesTo
  <2>2. /\ sessions[c].stage = "none" /\ entry.holder = c /\ entry.phase = "reserved"
        /\ calls[c].kind \in {"resume", "configured"}
    BY <1>1, PlaceSays, PlacesAre DEF CallKinds, Published, Inv, IInv, HolderInv
  <2>3. calls'[c].at \in Places(calls[c].kind)
    BY <2>1, <2>2, PlacesAre
  <2> QED
    BY <1>1, <1>3, <2>1, <2>2, <2>3, TurnStays DEF TypeOK
<1> QED
  BY <1>1, <1>2, <1>3

LEMMA RollsBackKeeps ==
  ASSUME Inv, NEW c \in Callers, RollsBack(c)
  PROVE  TypeOK' /\ IInv'
BY ReleaseKeeps DEF RollsBack, SameLog, At

LEMMA ReserveCommitsKeeps ==
  ASSUME Inv, NEW c \in Callers, ReserveCommits(c)
  PROVE  TypeOK' /\ IInv'
<1>1. /\ TypeOK /\ SameLog /\ left' \in [Kinds -> Nat]
      /\ calls[c].at = "read" /\ calls[c].kind # "inspect" /\ entry.phase = "ready"
      /\ calls \in [Callers -> Call] /\ EntryInv /\ HolderInv /\ LosingInv
  BY DEF ReserveCommits, Reserves, At, SameLog, Inv, IInv, TypeOK
<1>2. /\ sessions[c].stage = "none" /\ entry.holder = nobody /\ (live = nobody \/ Unattached)
      /\ calls[c].kind \in {"resume", "configured", "load"}
  <2>1. entry.holder = nobody /\ (live = nobody \/ Unattached)
    BY <1>1 DEF EntryInv, Exclusive, NoEntry
  <2> QED
    BY <1>1, <2>1, PlaceSays, PlacesAre DEF CallKinds, Published
<1>3. CASE Removed(Rejected(c, calls)) /\ chain' = chain
  <2> DEFINE cs == Rejected(c, calls)
  <2>1. /\ cs \in [Callers -> Call] /\ \A d \in Callers : d # c => cs[d] = calls[d]
        /\ cs[c].at \in {"listing", "failed"} /\ cs[c].kind = calls[c].kind
        /\ (cs[c].at = "listing" => calls[c].kind = "configured")
    BY <1>1, RejectedIs
  <2>2. entry' = NoEntry /\ calls' = Woken(cs)
    BY <1>3 DEF Removed
  <2> HIDE DEF cs
  <2>3. Turn(c, calls') /\ calls'[c] = cs[c]
    BY <2>1, <2>2, WakesOthers DEF Turn
  <2>4. EntryInv' /\ HolderInv' /\ VetoInv'
    BY <1>1, <1>2, <2>1, <2>2, <2>3, EntryUnheld
  <2>5. NoEntryNow
    BY <2>2 DEF NoEntryNow, NoEntry
  <2>6. Without(Len(chain) + 1) /\ Len(chain) + 1 \notin DOMAIN chain
    BY <1>1, <1>3, WithoutNone DEF TypeOK
  <2>7. calls'[c].at \in Places(calls[c].kind)
    BY <1>2, <2>1, <2>3, PlacesAre
  <2> QED
    BY <1>1, <1>2, <2>1, <2>2, <2>3, <2>4, <2>5, <2>6, <2>7, EntryTypes, HolderTurn
<1>4. CASE /\ entry' = [entry EXCEPT !.phase = "committing", !.holder = c]
           /\ calls' = Goes(c, "committing") /\ Enqueued("commit", c, 0)
  <2>1. Turn(c, calls') /\ calls'[c].at = "committing" /\ calls'[c].kind = calls[c].kind
        /\ \A d \in Callers : d # c => calls'[d] = calls[d]
    BY <1>1, <1>4, GoesTo
  <2>2. calls'[c].at \in Places(calls[c].kind)
    BY <1>2, <2>1, PlacesAre
  <2>3. stored' = stored /\ tracked' = tracked /\ sessions' = sessions /\ live' = live /\ retiring' = retiring
    BY <1>1 DEF SameLog
  <2>4. PlacesInv' /\ SessionInv' /\ RegistryInv' /\ OwnerInv' /\ WantedInv'
    BY <1>2, <2>1, <2>2, <2>3, CallsKeep, LogKept
  <2>5. /\ entry' \in [no : Nat, phase : {"none", "loading", "ready", "committing", "reserved"},
                source : Seq(Event), added : Seq(Event), holder : Callers \cup {nobody}]
        /\ entry'.phase = "committing" /\ entry'.holder = c /\ entry'.no = entry.no
        /\ entry'.source = entry.source /\ entry'.added = entry.added
    BY <1>1, <1>4 DEF TypeOK
  <2>6. EntryInv'
    <3>1. entry.no # 0
      BY <1>1 DEF EntryInv, NoEntry
    <3>2. entry.added = <<>>
      BY <1>1 DEF EntryInv
    <3>3. Unattached' = Unattached
      BY <2>3 DEF Unattached
    <3> QED
      BY <1>1, <1>2, <2>3, <2>5, <3>1, <3>2, <3>3, PreparationsAssumption DEF EntryInv, Exclusive
  <2>7. HolderInv'
    <3>1. \A d \in Callers : calls[d].at \notin {"committed", "reserved"}
                        /\ (calls[d].at = "setup" => calls[d].kind = "create")
      BY <1>1, <1>2, PreparationsAssumption DEF HolderInv
    <3>2. ASSUME NEW d \in Callers
          PROVE  /\ entry'.holder = d => d = c
                 /\ calls'[d].at \notin {"committed", "reserved"}
                 /\ (calls'[d].at = "setup" => calls'[d].kind = "create")
      BY <2>1, <2>5, <3>1
    <3> QED
      BY <1>2, <2>1, <2>3, <2>5, <3>2 DEF HolderInv
  <2>8. ChainInv' /\ LosingInv' /\ PendingInv'
    <3>1. PastReading
      BY <1>1, <2>5 DEF PastReading
    <3> QED
      BY <1>1, <1>2, <1>4, <2>1, <2>5, <3>1, TurnEnqueued
  <2>9. TypeOK'
    <3>1. chain' \in Seq(Op) /\ calls' \in [Callers -> Call]
      BY <1>1, <1>4, <2>1, EnqueuedIs DEF TypeOK, Turn
    <3> QED
      BY <1>1, <2>5, <3>1, TypedTurn
  <2>10. VetoInv'
    BY <1>1, <1>2, <2>1, <2>3, <2>5, VetoKept
  <2> QED
    BY <2>4, <2>6, <2>7, <2>8, <2>9, <2>10 DEF IInv
<1> QED
  BY <1>3, <1>4 DEF ReserveCommits

LEMMA ReserveEndsKeeps ==
  ASSUME Inv, NEW c \in Callers, ReserveEnds(c)
  PROVE  TypeOK' /\ IInv'
<1>1. /\ TypeOK /\ SameLog /\ left' \in [Kinds -> Nat] /\ chain' = chain
      /\ calls[c].at = "committed" /\ calls \in [Callers -> Call] /\ EntryInv /\ HolderInv
  BY DEF ReserveEnds, At, SameLog, Inv, IInv, TypeOK
<1>2. /\ sessions[c].stage = "none" /\ entry.holder = c /\ entry.phase = "committing" /\ Settled
      /\ calls[c].kind \in {"resume", "configured", "load"} /\ entry.added = <<>>
  <2>1. entry.holder = c /\ entry.phase = "committing" /\ Settled
    BY <1>1 DEF HolderInv
  <2>2. entry.added = <<>>
    BY <1>1, <2>1 DEF EntryInv
  <2> QED
    BY <1>1, <2>1, <2>2, PlaceSays, PlacesAre DEF CallKinds, Published
<1>3. Without(Len(chain) + 1) /\ Len(chain) + 1 \notin DOMAIN chain
  BY <1>1, WithoutNone DEF TypeOK
<1>4. CASE Readied(Rejected(c, calls))
  <2> DEFINE cs == Rejected(c, calls)
  <2>1. /\ cs \in [Callers -> Call] /\ \A d \in Callers : d # c => cs[d] = calls[d]
        /\ cs[c].at \in {"listing", "failed"} /\ cs[c].kind = calls[c].kind
        /\ (cs[c].at = "listing" => calls[c].kind = "configured")
    BY <1>1, RejectedIs
  <2>2. entry' = [entry EXCEPT !.phase = "ready", !.holder = nobody] /\ calls' = Woken(cs)
    BY <1>4 DEF Readied
  <2> HIDE DEF cs
  <2>3. Turn(c, calls') /\ calls'[c] = cs[c]
    BY <2>1, <2>2, WakesOthers DEF Turn
  <2>4. EntryInv' /\ HolderInv' /\ VetoInv'
    BY <1>1, <1>2, <2>1, <2>2, <2>3, EntryUnheld
  <2>5. PastReading /\ entry' \in [no : Nat, phase : {"none", "loading", "ready", "committing", "reserved"},
                source : Seq(Event), added : Seq(Event), holder : Callers \cup {nobody}]
    BY <1>1, <1>2, <2>2 DEF PastReading, TypeOK
  <2>6. calls'[c].at \in Places(calls[c].kind)
    BY <1>2, <2>1, <2>3, PlacesAre
  <2> QED
    BY <1>1, <1>2, <1>3, <2>1, <2>2, <2>3, <2>4, <2>5, <2>6, HolderTurn
<1>5. CASE calls[c].kind = "load" /\ Removed(Returned(c, Balanced(entry.source), FALSE))
  <2> DEFINE cs == Returned(c, Balanced(entry.source), FALSE)
  <2>1. /\ cs \in [Callers -> Call] /\ \A d \in Callers : d # c => cs[d] = calls[d]
        /\ cs[c].at = "done" /\ cs[c].kind = calls[c].kind
    <3>1. Balanced(entry.source) \in Seq(Event)
      BY <1>1, BalancedIs DEF TypeOK
    <3>2. PICK view \in Seq(Event) : view = Balanced(entry.source)
      BY <3>1
    <3>3. \A lent \in BOOLEAN :
            /\ Returned(c, view, lent) \in [Callers -> Call]
            /\ \A d \in Callers : d # c => Returned(c, view, lent)[d] = calls[d]
            /\ Returned(c, view, lent)[c].at = "done" /\ Returned(c, view, lent)[c].kind = calls[c].kind
      BY <1>1, ReturnedIs
    <3> QED
      BY <3>2, <3>3, FALSE \in BOOLEAN, Zenon
  <2>2. entry' = NoEntry /\ calls' = Woken(cs)
    BY <1>5 DEF Removed
  <2> HIDE DEF cs
  <2>3. Turn(c, calls') /\ calls'[c] = cs[c]
    BY <2>1, <2>2, WakesOthers DEF Turn
  <2>4. EntryInv' /\ HolderInv' /\ VetoInv'
    BY <1>1, <1>2, <2>1, <2>2, <2>3, EntryUnheld
  <2>5. NoEntryNow
    BY <2>2 DEF NoEntryNow, NoEntry
  <2>6. calls'[c].at \in Places(calls[c].kind)
    BY <1>5, <2>1, <2>3, PlacesAre
  <2> QED
    BY <1>1, <1>2, <1>3, <2>1, <2>2, <2>3, <2>4, <2>5, <2>6, EntryTypes, HolderTurn
<1>6. CASE /\ calls[c].kind # "load" /\ entry' = [entry EXCEPT !.phase = "reserved"]
           /\ calls' = Goes(c, "reserved")
  <2>1. Turn(c, calls') /\ calls'[c].at = "reserved" /\ calls'[c].kind = calls[c].kind
        /\ \A d \in Callers : d # c => calls'[d] = calls[d]
    BY <1>1, <1>6, GoesTo
  <2>2. calls'[c].at \in Places(calls[c].kind)
    BY <1>2, <1>6, <2>1, PlacesAre
  <2>3. stored' = stored /\ tracked' = tracked /\ sessions' = sessions /\ live' = live
    BY <1>1 DEF SameLog
  <2>4. /\ entry' \in [no : Nat, phase : {"none", "loading", "ready", "committing", "reserved"},
                source : Seq(Event), added : Seq(Event), holder : Callers \cup {nobody}]
        /\ entry'.phase = "reserved" /\ entry'.holder = c /\ entry'.no = entry.no
        /\ entry'.source = entry.source /\ entry'.added = entry.added
    BY <1>1, <1>2, <1>6 DEF TypeOK
  <2>5. EntryInv'
    <3>1. entry.no # 0 /\ (live = nobody \/ Unattached)
      BY <1>1, <1>2 DEF EntryInv, NoEntry
    <3>2. Unattached' = Unattached
      BY <2>3 DEF Unattached
    <3> QED
      BY <1>1, <1>2, <2>3, <2>4, <3>1, <3>2, PreparationsAssumption DEF EntryInv, Exclusive
  <2>6. HolderInv'
    <3>1. \A d \in Callers : d # c => calls[d].at \notin {"committed", "reserved"}
                        /\ (calls[d].at = "setup" => calls[d].kind = "create")
      BY <1>1, <1>2, PreparationsAssumption DEF HolderInv
    <3>2. ASSUME NEW d \in Callers, d # c
          PROVE  /\ calls'[d].at \notin {"committed", "reserved"}
                 /\ (calls'[d].at = "setup" => calls'[d].kind = "create")
      BY <2>1, <3>1, <3>2
    <3>3. Settled'
      BY <1>2, <2>3, <2>4 DEF Settled
    <3> QED
      BY <1>2, <2>1, <2>3, <2>4, <3>2, <3>3 DEF HolderInv
  <2>7. PastReading
    BY <1>2, <2>4 DEF PastReading
  <2>8. VetoInv'
    BY <1>1, <1>2, <2>1, <2>3, <2>4, VetoKept
  <2> QED
    BY <1>1, <1>2, <1>3, <2>1, <2>2, <2>4, <2>5, <2>6, <2>7, <2>8, HolderTurn
<1> QED
  BY <1>4, <1>5, <1>6 DEF ReserveEnds

\* A call notes what the log held when it began.
LEMMA KnownSet ==
  ASSUME NEW cs \in [Callers -> Call], NEW c \in Callers, NEW log \in Seq(Event)
  PROVE  LET t == [cs EXCEPT ![c].known = log] IN
         /\ t \in [Callers -> Call] /\ \A d \in Callers : d # c => t[d] = cs[d]
         /\ t[c].kind = cs[c].kind /\ t[c].borrowed = cs[c].borrowed
         /\ t[c].known = log /\ t[c].at = cs[c].at
<1> DEFINE r == [cs[c] EXCEPT !.known = log]
           t == [cs EXCEPT ![c].known = log]
<1>1. cs[c] \in Call
  OBVIOUS
<1>2. /\ r \in Call /\ r.kind = cs[c].kind /\ r.borrowed = cs[c].borrowed
      /\ r.known = log /\ r.at = cs[c].at
  BY <1>1 DEF Call
<1>3. t = [cs EXCEPT ![c] = r]
  OBVIOUS
<1> HIDE DEF r, t
<1>4. t \in [Callers -> Call] /\ t[c] = r /\ \A d \in Callers : d # c => t[d] = cs[d]
  BY <1>2, <1>3
<1> QED
  BY <1>2, <1>4 DEF t

LEMMA BeginsKeeps ==
  ASSUME Inv, NEW c \in Callers, Begins(c)
  PROVE  TypeOK' /\ IInv' /\ Turn(c, calls')
<1>1. /\ TypeOK /\ SameLog /\ left' = left /\ calls \in [Callers -> Call]
      /\ calls[c].at = "idle" /\ calls[c].kind \in {"resume", "configured", "load", "inspect"}
  BY DEF Begins, Idle, At, SameLog, Inv, TypeOK
<1> DEFINE cs == IF Idle(c, {"resume"}) THEN calls ELSE [calls EXCEPT ![c].known = Current]
<1>2. Top(c, cs, entry)
  BY DEF Begins
<1>3. /\ cs \in [Callers -> Call] /\ \A d \in Callers : d # c => cs[d] = calls[d]
      /\ cs[c].kind = calls[c].kind /\ cs[c].borrowed = calls[c].borrowed
  <2>1. Current \in Seq(Event)
    BY <1>1, CurrentIs
  <2> QED
    BY <1>1, <2>1, KnownSet
<1> HIDE DEF cs
<1>4. Others(c, cs)
  BY <1>3 DEF Others
<1> QED
  BY <1>1, <1>2, <1>3, <1>4, TopKeeps DEF NoEntry

LEMMA LooksKeeps ==
  ASSUME Inv, NEW c \in Callers, Looks(c)
  PROVE  TypeOK' /\ IInv'
<1>1. /\ TypeOK /\ SameLog /\ left' = left /\ calls \in [Callers -> Call]
      /\ calls[c].at = "waiting" /\ Look(c, calls, entry)
  BY DEF Looks, At, SameLog, Inv, TypeOK
<1>2. calls[c].kind \in {"resume", "configured", "load", "inspect"}
  BY <1>1, PlaceSays, PlacesAre DEF CallKinds
<1>3. Others(c, calls)
  BY DEF Others
<1> QED
  BY <1>1, <1>2, <1>3, TopKeeps DEF NoEntry

LEMMA TopsKeep ==
  ASSUME Inv, NEW c \in Callers, ReserveRestarts(c) \/ ConfiguredResumes(c)
  PROVE  TypeOK' /\ IInv'
<1>1. /\ TypeOK /\ SameLog /\ left' = left /\ calls \in [Callers -> Call]
      /\ calls[c].at \in {"read", "draining"} /\ Top(c, calls, entry)
  BY DEF ReserveRestarts, Reserves, ConfiguredResumes, At, SameLog, Inv, TypeOK
<1>2. calls[c].kind \in {"resume", "configured", "load", "inspect"}
  BY <1>1, PlaceSays, PlacesAre DEF CallKinds
<1>3. Others(c, calls)
  BY DEF Others
<1> QED
  BY <1>1, <1>2, <1>3, TopKeeps DEF NoEntry

LEMMA InspectEndsKeeps ==
  ASSUME Inv, NEW c \in Callers, InspectEnds(c)
  PROVE  TypeOK' /\ IInv'
<1>1. /\ TypeOK /\ SameLog /\ left' = left /\ calls \in [Callers -> Call]
      /\ calls[c].at \in {"fresh", "stale"} /\ left' \in [Kinds -> Nat]
  BY DEF InspectEnds, At, SameLog, Inv, TypeOK
<1>2. calls[c].kind = "inspect" /\ sessions[c].stage = "none" /\ entry.holder # c
  BY <1>1, PlaceSays, PlacesAre DEF CallKinds, Published
<1>3. Others(c, calls) /\ Others(c, Woken(calls)) /\ Woken(calls) \in [Callers -> Call] /\ Woken(calls)[c] = calls[c]
  BY <1>1, WakesOthers
<1>4. CASE Top(c, calls, entry)
  BY <1>1, <1>2, <1>3, <1>4, TopKeeps DEF NoEntry
<1>5. CASE entry.phase = "ready" /\ Top(c, Woken(calls), NoEntry)
  BY <1>1, <1>2, <1>3, <1>5, TopKeeps
<1>6. CASE /\ entry' = entry /\ chain' = chain
           /\ \E view \in Seq(Event), lent \in BOOLEAN : calls' = Returned(c, view, lent)
  <2>1. Turn(c, calls') /\ calls'[c].at = "done"
    BY <1>1, <1>6, ReturnedTo
  <2>2. calls'[c].at \in Places(calls[c].kind)
    BY <1>2, <2>1, PlacesAre
  <2> QED
    BY <1>1, <1>2, <1>6, <2>1, <2>2, TurnStays
<1>7. /\ live # nobody => sessions[live].events \in Seq(Event)
      /\ Balanced(calls[c].source) \in Seq(Event)
  <2>1. calls[c].source \in Seq(Event)
    BY <1>1 DEF Call
  <2> QED
    BY <1>1, <2>1, BalancedIs DEF TypeOK
<1>8. \/ Top(c, calls, entry)
      \/ entry.phase = "ready" /\ Top(c, Woken(calls), NoEntry)
      \/ /\ entry' = entry /\ chain' = chain
         /\ \/ live # nobody /\ calls' = Returned(c, sessions[live].events, FALSE)
            \/ calls' = Returned(c, Balanced(calls[c].source), FALSE)
            \/ calls' = Returned(c, Balanced(calls[c].source), TRUE)
  BY DEF InspectEnds
<1> QED
  BY <1>4, <1>5, <1>6, <1>7, <1>8, Zenon

LEMMA InspectChecksKeeps ==
  ASSUME Inv, NEW c \in Callers, InspectChecks(c)
  PROVE  TypeOK' /\ IInv'
<1>1. /\ TypeOK /\ SameLog /\ left' \in [Kinds -> Nat] /\ entry' = entry
      /\ calls[c].at = "read" /\ calls[c].kind = "inspect"
  BY DEF InspectChecks, At, SameLog, Inv, TypeOK, identity
<1>2. sessions[c].stage = "none" /\ entry.holder # c
  BY <1>1, PlaceSays DEF Published
<1>3. CASE chain' = chain /\ ((live # nobody /\ calls' = Returned(c, sessions[live].events, FALSE))
                              \/ calls' = Rejected(c, calls))
  <2>1. live # nobody => sessions[live].events \in Seq(Event)
    BY <1>1 DEF TypeOK
  <2>2. Turn(c, calls') /\ calls'[c].at \in {"done", "listing", "failed"} /\ calls'[c].at # "listing"
    BY <1>1, <1>3, <2>1, ReturnedTo, RejectedTo
  <2>3. calls'[c].at \in Places(calls[c].kind)
    BY <1>1, <2>2, PlacesAre
  <2> QED
    BY <1>1, <1>2, <1>3, <2>2, <2>3, TurnStays
<1>4. CASE calls' = Goes(c, "checking") /\ Enqueued("check", c, 0)
  <2>1. Turn(c, calls') /\ calls'[c].at = "checking" /\ calls'[c].kind = calls[c].kind
    BY <1>1, <1>4, GoesTo
  <2>2. calls'[c].at \in Places(calls[c].kind)
    BY <1>1, <2>1, PlacesAre
  <2>3. PlacesInv' /\ SessionInv' /\ RegistryInv' /\ OwnerInv' /\ WantedInv'
    BY <1>1, <1>2, <2>1, <2>2, CallsKeep, LogKept DEF SameLog
  <2>4. EntryInv' /\ HolderInv' /\ VetoInv'
    BY <1>1, <1>2, <2>1, EntrySame
  <2>5. ChainInv' /\ LosingInv' /\ PendingInv'
    BY <1>1, <1>4, <2>1, TurnEnqueued DEF SameEntry
  <2>6. TypeOK'
    <3>1. chain' \in Seq(Op) /\ calls' \in [Callers -> Call]
      BY <1>1, <1>4, <2>1, EnqueuedIs DEF TypeOK, Turn
    <3> QED
      BY <1>1, <3>1, TypedTurn DEF TypeOK
  <2> QED
    BY <2>3, <2>4, <2>5, <2>6 DEF IInv
<1> QED
  BY <1>3, <1>4 DEF InspectChecks

LEMMA CommitRefusedKeeps ==
  ASSUME Inv, NEW c \in Callers, CommitRefused(c)
  PROVE  TypeOK' /\ IInv'
<1>1. /\ TypeOK /\ SameLog /\ First("commit", c) /\ RemovedFor(c, Rejected(c, calls))
      /\ calls \in [Callers -> Call] /\ chain \in Seq(Op) /\ ChainInv
  BY DEF CommitRefused, SameLog, Inv, IInv, TypeOK
<1>2. left' \in [Kinds -> Nat]
  <2>1. left' = left \/ Spend("mishap")
    BY DEF CommitRefused
  <2> QED
    BY <1>1, <2>1, SpendIs DEF Kinds, TypeOK
<1>3. Without(1) /\ 1 \in DOMAIN chain /\ chain[1].op = "commit" /\ chain[1].by = c
  BY <1>1, WithoutFirst
<1>4. calls[c].at = "committing"
  BY <1>1, <1>3 DEF ChainInv, OpInv, At
<1>5. sessions[c].stage = "none" /\ calls[c].kind \in {"resume", "configured", "load"}
  BY <1>4, PlaceSays, PlacesAre DEF CallKinds, Published
<1> DEFINE cs == Rejected(c, calls)
<1>6. /\ cs \in [Callers -> Call] /\ \A d \in Callers : d # c => cs[d] = calls[d]
      /\ cs[c].at \in {"listing", "failed"} /\ cs[c].kind = calls[c].kind
      /\ (cs[c].at = "listing" => calls[c].kind = "configured")
  BY <1>1, RejectedIs
<1> HIDE DEF cs
<1>7. /\ Turn(c, calls') /\ calls'[c] = cs[c]
      /\ entry' = IF entry.holder = c THEN NoEntry ELSE entry
  BY <1>1, <1>6, RemovedForIs DEF Turn, cs
<1>8. calls'[c].at \in Places(calls[c].kind)
  BY <1>5, <1>6, <1>7, PlacesAre
<1>9. CASE entry.holder = c
  <2>1. EntryInv' /\ HolderInv' /\ VetoInv'
    BY <1>1, <1>4, <1>6, <1>7, <1>9, EntryUnheld
  <2>2. NoEntryNow
    BY <1>7, <1>9 DEF NoEntryNow, NoEntry
  <2> QED
    BY <1>1, <1>2, <1>3, <1>4, <1>5, <1>6, <1>7, <1>8, <1>9, <2>1, <2>2, EntryTypes, HolderTurn
<1>10. CASE entry.holder # c
  BY <1>1, <1>2, <1>3, <1>4, <1>5, <1>6, <1>7, <1>8, <1>10, TurnKeeps
<1> QED
  BY <1>9, <1>10

LEMMA CheckKeeps ==
  ASSUME Inv, NEW c \in Callers, Check(c)
  PROVE  TypeOK' /\ IInv'
<1>1. /\ TypeOK /\ SameLog /\ First("check", c) /\ entry' = entry
      /\ calls \in [Callers -> Call] /\ chain \in Seq(Op) /\ ChainInv
  BY DEF Check, SameLog, Inv, IInv, TypeOK, identity
<1>2. left' \in [Kinds -> Nat]
  <2>1. left' = left \/ Spend("mishap")
    BY DEF Check
  <2> QED
    BY <1>1, <2>1, SpendIs DEF Kinds, TypeOK
<1>3. Without(1) /\ 1 \in DOMAIN chain /\ chain[1].op = "check" /\ chain[1].by = c
  BY <1>1, WithoutFirst
<1>4. calls[c].at = "checking"
  BY <1>1, <1>3 DEF ChainInv, OpInv, At
<1>5. sessions[c].stage = "none" /\ calls[c].kind = "inspect" /\ entry.holder # c
  BY <1>4, PlaceSays, PlacesAre DEF CallKinds, Published
<1>6. Turn(c, calls') /\ calls'[c].at \in {"fresh", "stale", "done", "failed"}
  <2>1. CASE calls' = Goes(c, IF calls[c].source = stored THEN "fresh" ELSE "stale")
    BY <1>1, <2>1, GoesTo
  <2>2. CASE calls' = Caught(c, calls)
    <3>1. /\ calls' \in [Callers -> Call] /\ \A d \in Callers : d # c => calls'[d] = calls[d]
          /\ calls'[c].kind = calls[c].kind /\ calls'[c].at \in {"done", "failed"}
      BY <1>1, <1>5, <2>2, CaughtIs
    <3> QED
      BY <3>1 DEF Turn, Others
  <2> QED
    BY <2>1, <2>2 DEF Check
<1>7. calls'[c].at \in Places(calls[c].kind)
  BY <1>5, <1>6, PlacesAre
<1> QED
  BY <1>1, <1>2, <1>3, <1>4, <1>5, <1>6, <1>7, TurnKeeps

LEMMA DrainQueuedKeeps ==
  ASSUME Inv, NEW c \in Callers, DrainQueued(c)
  PROVE  TypeOK' /\ IInv'
<1>1. /\ TypeOK /\ SameLog /\ left' \in [Kinds -> Nat] /\ entry' = entry /\ calls' = calls
      /\ sessions[c].stage \in {"live", "retiring"} /\ sessions[c].init = "ok" /\ Unsaved(c)
      /\ ~Queued("drain", c) /\ Enqueued("drain", c, Len(sessions[c].events))
      /\ WantedInv /\ SessionInv /\ HolderInv
  BY DEF DrainQueued, SameLog, Inv, IInv, TypeOK, identity
<1>2. sessions[c].events \in Seq(Event) /\ tracked.cursor \in Nat
  BY <1>1 DEF TypeOK
<1>3. Len(sessions[c].events) \in Nat /\ sessions[c].events # <<>>
  <2>1. Len(sessions[c].events) > tracked.cursor
    BY <1>1 DEF Unsaved
  <2> QED
    BY <1>2, <2>1, EmptySeq
<1>4. Owns(c)
  BY <1>1, <1>3 DEF WantedInv
<1>5. OpInv([op |-> "drain", by |-> c, n |-> Len(sessions[c].events)])
  <2>1. 0 < Len(sessions[c].events)
    BY <1>1, <1>2, <1>3 DEF Unsaved
  <2> QED
    BY <1>1, <1>3, <1>4, <2>1 DEF OpInv, Started
<1>6. Turn(c, calls')
  BY <1>1 DEF Turn, Others, TypeOK
<1>7. calls[c].at \in Published /\ entry.holder # c
  BY <1>1 DEF SessionInv, Published, HolderInv
<1>8. UNCHANGED <<sessions, live, retiring, stored, tracked>>
  BY <1>1 DEF SameLog
<1>12. VetoInv'
  BY <1>1, <1>8, VetoStays
<1>9. PlacesInv' /\ SessionInv' /\ RegistryInv' /\ OwnerInv' /\ WantedInv' /\ EntryInv' /\ HolderInv'
  BY <1>1, <1>8 DEF Inv, IInv, PlacesInv, SessionInv, RegistryInv, OwnerInv, WantedInv, EntryInv, HolderInv,
                    Owns, Exclusive, Settled, Unattached
<1>10. ChainInv' /\ LosingInv' /\ PendingInv'
  <2>1. SameEntry
    BY <1>1 DEF SameEntry
  <2> QED
    BY <1>1, <1>3, <1>5, <1>6, <1>7, <2>1, TurnEnqueued DEF Published
<1>11. TypeOK'
  <2>1. chain' \in Seq(Op)
    BY <1>1, <1>3, EnqueuedIs DEF TypeOK
  <2> QED
    BY <1>1, <2>1, TypedTurn DEF TypeOK
<1> QED
  BY <1>9, <1>10, <1>11, <1>12 DEF IInv

LEMMA AbortKeeps ==
  ASSUME Inv, NEW c \in Callers, Abort(c)
  PROVE  TypeOK' /\ IInv'
<1> DEFINE cs == [calls EXCEPT ![c].aborted = TRUE]
<1>1. /\ TypeOK /\ SameLog /\ calls \in [Callers -> Call] /\ chain \in Seq(Op)
      /\ HolderInv /\ EntryInv /\ LosingInv /\ SessionInv
      /\ calls[c].at \in {"draining", "waiting", "reading", "queued", "checking", "committing",
                          "read", "committed", "reserved", "setup", "listing", "fresh", "stale", "flushing"}
      /\ calls[c].kind # "load"
  <2>1. calls[c].at \notin {"idle", "creating", "rollback", "live", "vetoed", "disposing", "done", "failed"}
        /\ calls[c].kind # "load"
    BY DEF Abort, Abortable
  <2>2. calls[c] \in Call
    BY DEF Inv, TypeOK
  <2>3. calls[c].at \in {"draining", "waiting", "reading", "queued", "checking", "committing",
                          "read", "committed", "reserved", "setup", "listing", "fresh", "stale", "flushing"}
    BY <2>1, <2>2 DEF Call
  <2> QED
    BY <2>1, <2>3 DEF Abort, SameLog, Inv, IInv, TypeOK
<1>2. left' \in [Kinds -> Nat]
  BY <1>1, SpendIs DEF Kinds, Abort
<1>3. PICK k : /\ Without(k)
               /\ k \in DOMAIN chain => chain[k].op \in {"commit", "check"} /\ chain[k].by = c
               /\ k \notin DOMAIN chain => ~(Queued("commit", c) \/ Queued("check", c))
  <2>1. CASE Dropped(c) = {}
    <3>1. chain' = chain
      BY <2>1 DEF Abort
    <3>2. Without(Len(chain) + 1) /\ Len(chain) + 1 \notin DOMAIN chain
      BY <1>1, <3>1, WithoutNone
    <3> QED
      BY <2>1, <3>2 DEF Dropped, Queued
  <2>2. CASE Dropped(c) # {}
    <3>1. PICK i \in Dropped(c) : chain' = RemoveAt(chain, i)
      BY <2>2 DEF Abort
    <3>2. i \in DOMAIN chain /\ chain[i].op \in {"commit", "check"} /\ chain[i].by = c
      BY <3>1 DEF Dropped
    <3> QED
      BY <1>1, <3>1, <3>2, WithoutAt
  <2> QED
    BY <2>1, <2>2
<1>4. /\ cs \in [Callers -> Call] /\ \A d \in Callers : d # c => cs[d] = calls[d]
      /\ cs[c].kind = calls[c].kind /\ cs[c].at = calls[c].at /\ cs[c].aborted
  <2>1. TRUE \in BOOLEAN
    OBVIOUS
  <2> QED
    BY <1>1, <2>1 DEF Call
<1>5. /\ calls[c].at \in {"draining", "waiting", "reading", "queued", "checking"} =>
           calls' = Rejected(c, cs) /\ entry' = entry
      /\ calls[c].at = "committing" => RemovedFor(c, Rejected(c, cs))
      /\ calls[c].at \notin {"draining", "waiting", "reading", "queued", "checking", "committing"} =>
           calls' = cs /\ entry' = entry
  BY DEF Abort, At
<1> HIDE DEF cs
<1> DEFINE rs == Rejected(c, cs)
<1>6. /\ rs \in [Callers -> Call] /\ \A d \in Callers : d # c => rs[d] = calls[d]
      /\ rs[c].at = "failed" /\ rs[c].kind = calls[c].kind
  BY <1>4, RejectedIs
<1>7. calls[c].at \in Places(calls[c].kind) /\ calls[c].kind \in CallKinds
  BY PlaceSays
<1>8. CASE calls[c].at \in {"draining", "waiting", "reading", "queued", "checking"}
  <2> HIDE DEF rs
  <2>1. entry' = entry /\ calls' = rs
    BY <1>5, <1>8 DEF rs
  <2>2. Turn(c, calls') /\ calls'[c].at = "failed"
    BY <1>6, <2>1 DEF Turn, Others
  <2>3. sessions[c].stage = "none" /\ entry.holder # c
    BY <1>8, PlaceSays DEF Published
  <2>4. calls'[c].at \in Places(calls[c].kind)
    BY <1>7, <1>8, <2>2, PlacesAre DEF CallKinds
  <2> QED
    BY <1>1, <1>2, <1>3, <2>1, <2>2, <2>3, <2>4, TurnKeeps
<1>9. CASE calls[c].at = "committing"
  <2>1. RemovedFor(c, rs)
    BY <1>5, <1>9
  <2> HIDE DEF rs
  <2>2. /\ Turn(c, calls') /\ calls'[c].at = "failed"
        /\ entry' = IF entry.holder = c THEN NoEntry ELSE entry
    BY <1>6, <2>1, RemovedForIs DEF Turn
  <2>3. sessions[c].stage = "none"
    BY <1>9, PlaceSays DEF Published
  <2>4. calls'[c].at \in Places(calls[c].kind)
    BY <1>7, <1>9, <2>2, PlacesAre DEF CallKinds
  <2>5. k \in DOMAIN chain
    BY <1>1, <1>3, <1>9 DEF LosingInv
  <2>6. CASE entry.holder = c
    <3>1. EntryInv' /\ HolderInv' /\ VetoInv'
      BY <1>1, <2>2, <2>6, EntryUnheld
    <3>2. NoEntryNow
      BY <2>2, <2>6 DEF NoEntryNow, NoEntry
    <3> QED
      BY <1>1, <1>2, <1>3, <2>2, <2>3, <2>4, <2>5, <2>6, <3>1, <3>2, EntryTypes, HolderTurn
  <2>7. CASE entry.holder # c
    BY <1>1, <1>2, <1>3, <2>2, <2>3, <2>4, <2>5, <2>7, TurnKeeps
  <2> QED
    BY <2>6, <2>7
<1>10. CASE calls[c].at \notin {"draining", "waiting", "reading", "queued", "checking", "committing"}
  <2>1. entry' = entry /\ calls' = cs
    BY <1>5, <1>10
  <2>2. Turn(c, calls') /\ calls'[c].at = calls[c].at
    BY <1>4, <2>1 DEF Turn, Others
  <2>3. sessions[c].stage # "none" =>
          calls[c].at = "listing" /\ (calls[c].kind = "configured" => stored # <<>>)
    BY <1>1 DEF SessionInv
  <2>4. calls'[c].at \in Places(calls[c].kind)
    BY <1>7, <2>2
  <2>5. entry.holder = c =>
           /\ \/ entry.phase = "committing" /\ calls'[c].at = "committed"
              \/ entry.phase = "reserved" /\ calls'[c].at \in {"reserved", "setup", "vetoed", "rollback"}
           /\ entry.added # <<>> => calls'[c].at \in {"setup", "vetoed", "rollback"}
           /\ calls'[c].at = "committed" => Settled
    BY <1>1, <1>10, <2>2 DEF HolderInv, EntryInv
  <2>6. entry.holder # c =>
           /\ calls'[c].at \notin {"committed", "reserved"}
           /\ calls'[c].at = "setup" => calls[c].kind = "create"
    BY <1>1, <2>2 DEF HolderInv
  <2>7. calls'[c].at \notin {"live", "disposing", "committing", "checking"}
    BY <1>1, <1>10, <2>2
  <2> QED
    BY <1>1, <1>2, <1>3, <1>10, <2>1, <2>2, <2>3, <2>4, <2>5, <2>6, <2>7, TurnKeeps DEF Published
<1> QED
  BY <1>1, <1>8, <1>9, <1>10

LEMMA EvictedKeeps ==
  ASSUME Inv, Evicted
  PROVE  TypeOK' /\ IInv'
<1>1. /\ TypeOK /\ SameLog /\ entry.phase = "ready" /\ entry' = NoEntry /\ calls' = calls /\ chain' = chain
      /\ EntryInv /\ HolderInv /\ ChainInv /\ LosingInv /\ PendingInv /\ chain \in Seq(Op)
      /\ stored' = stored /\ tracked' = tracked /\ sessions' = sessions /\ live' = live /\ retiring' = retiring
  BY DEF Evicted, SameLog, Inv, IInv, TypeOK
<1>2. left' \in [Kinds -> Nat]
  BY <1>1, SpendIs DEF Evicted, Kinds
<1>3. entry.holder = nobody
  BY <1>1 DEF EntryInv, Exclusive
<1>4. PlacesInv' /\ SessionInv' /\ RegistryInv' /\ OwnerInv' /\ WantedInv'
  BY <1>1 DEF Inv, IInv, PlacesInv, SessionInv, RegistryInv, OwnerInv, WantedInv, Owns
<1>5. EntryInv'
  BY <1>1 DEF EntryInv, NoEntry, Exclusive
<1>6. HolderInv'
  BY <1>1, <1>3, PreparationsAssumption DEF HolderInv, NoEntry
<1>7. Without(Len(chain) + 1) /\ Len(chain) + 1 \notin DOMAIN chain
  BY <1>1, WithoutNone
<1>8. ChainInv'
  BY <1>1 DEF ChainInv, OpInv, At, Owns, Started
<1>9. LosingInv'
  BY <1>1, <1>3, PreparationsAssumption DEF LosingInv, Losing, NoEntry, Queued
<1>10. PendingInv'
  <2>1. NoEntryNow /\ KeepsPending
    BY <1>1 DEF NoEntryNow, NoEntry, KeepsPending, Unattached
  <2> QED
    BY <1>1, <1>7, <2>1, WithoutPending
<1>11. TypeOK'
  BY <1>1, <1>2, EntryTypes, TypedTurn DEF TypeOK
<1>12. VetoInv'
  BY <1>1, <1>3, VetoStays, PreparationsAssumption DEF NoEntry
<1> QED
  BY <1>4, <1>5, <1>6, <1>8, <1>9, <1>10, <1>11, <1>12 DEF IInv

\* A read that ends: the calls that wait for it go on, with what it returned.
ReadBack(d) ==
  /\ calls'[d].at = "read" /\ calls'[d].source = stored
  /\ calls'[d].known = calls[d].known /\ calls'[d].awaits = calls[d].awaits
ReadLost(d) ==
  \/ /\ calls'[d].at \in {"listing", "failed"} /\ (calls'[d].at = "listing" => calls[d].kind = "configured")
     /\ calls'[d].known = <<>> /\ calls'[d].awaits = nobody
  \/ /\ live # nobody /\ calls[d].kind = "inspect" /\ calls'[d].at = "done"
     /\ calls'[d].source = sessions[live].events
     /\ calls'[d].known = calls[d].known /\ calls'[d].awaits = calls[d].awaits

LEMMA ReadIs ==
  ASSUME TypeOK, ChainInv, EntryInv, PendingInv, Read
  PROVE  LET n == chain[1].n IN
         /\ SameLog /\ left' \in [Kinds -> Nat] /\ Without(1)
         /\ 1 \in DOMAIN chain /\ chain[1].op = "read" /\ n > 0
         /\ calls' \in [Callers -> Call]
         /\ \A d \in Callers : d \notin Readers(n) =>
              \/ calls'[d] = calls[d]
              \/ calls[d].at = "queued" /\ calls'[d] = [calls[d] EXCEPT !.at = "read"]
         /\ \A d \in Readers(n) :
              calls'[d].kind = calls[d].kind /\ calls'[d].borrowed = calls[d].borrowed
                /\ (ReadBack(d) \/ ReadLost(d))
         /\ \/ entry' = entry /\ entry.no # n
            \/ entry.no = n /\ entry' = NoEntry
            \/ /\ entry.no = n /\ live = nobody /\ stored # <<>>
               /\ entry' = [entry EXCEPT !.phase = "ready", !.source = stored]
<1> DEFINE n == chain[1].n
<1>1. calls \in [Callers -> Call] /\ stored \in Seq(Event) /\ chain \in Seq(Op) /\ First("read", nobody)
  BY DEF TypeOK, Read
<1>2. Without(1) /\ 1 \in DOMAIN chain /\ Head(chain) = chain[1] /\ chain[1].op = "read"
  BY <1>1, WithoutFirst
<1>3. n > 0 /\ SameLog
  BY <1>2 DEF ChainInv, OpInv, Read, SameLog
<1>4. \/ /\ stored # <<>> /\ live = nobody /\ calls' = Delivered(n) /\ left' = left
         /\ entry' = IF entry.no = n THEN [entry EXCEPT !.phase = "ready", !.source = stored] ELSE entry
      \/ /\ left' = left \/ Spend("mishap")
         /\ IF entry.no = n THEN Removed(Refused(n)) ELSE calls' = Refused(n) /\ UNCHANGED entry
  BY <1>2 DEF Read
<1>5. left' \in [Kinds -> Nat]
  BY <1>4, SpendIs DEF Kinds, TypeOK
<1>6. Readers(n) \subseteq Callers
  BY DEF Readers
<1>7. CASE /\ stored # <<>> /\ live = nobody /\ calls' = Delivered(n)
           /\ entry' = IF entry.no = n THEN [entry EXCEPT !.phase = "ready", !.source = stored] ELSE entry
  <2>1. ASSUME NEW d \in Readers(n)
        PROVE  /\ calls'[d] \in Call /\ calls'[d].kind = calls[d].kind /\ calls'[d].borrowed = calls[d].borrowed
               /\ ReadBack(d)
    <3> DEFINE r == [calls[d] EXCEPT !.at = "read", !.source = stored]
    <3>1. calls'[d] = r
      BY <1>6, <1>7 DEF Delivered
    <3>2. /\ r \in Call /\ r.kind = calls[d].kind /\ r.borrowed = calls[d].borrowed
          /\ r.at = "read" /\ r.source = stored /\ r.known = calls[d].known /\ r.awaits = calls[d].awaits
      BY <1>1, <1>6 DEF Call
    <3> HIDE DEF r
    <3> QED
      BY <3>1, <3>2 DEF ReadBack
  <2>2. \A d \in Callers : d \notin Readers(n) => calls'[d] = calls[d]
    BY <1>7 DEF Delivered
  <2>3. calls' \in [Callers -> Call]
    <3>1. \A d \in Callers : calls'[d] \in Call
      BY <1>1, <2>1, <2>2
    <3>2. calls' = [d \in Callers |-> calls'[d]]
      BY <1>7 DEF Delivered
    <3> QED
      BY <3>1, <3>2
  <2> QED
    BY <1>2, <1>3, <1>5, <1>7, <2>1, <2>2, <2>3
<1>8. CASE IF entry.no = n THEN Removed(Refused(n)) ELSE calls' = Refused(n) /\ UNCHANGED entry
  <2> DEFINE cs == Refused(n)
  <2>1. ASSUME NEW d \in Readers(n)
        PROVE  /\ cs[d] \in Call /\ cs[d].kind = calls[d].kind /\ cs[d].borrowed = calls[d].borrowed
               /\ cs[d].at # "queued"
               /\ \/ /\ cs[d].at \in {"listing", "failed"} /\ (cs[d].at = "listing" => calls[d].kind = "configured")
                     /\ cs[d].known = <<>> /\ cs[d].awaits = nobody
                  \/ /\ live # nobody /\ calls[d].kind = "inspect" /\ cs[d].at = "done"
                     /\ cs[d].source = sessions[live].events
                     /\ cs[d].known = calls[d].known /\ cs[d].awaits = calls[d].awaits
    <3>1. cs[d] = Caught(d, calls)[d]
      BY <1>6 DEF Refused
    <3>2. d \in Callers
      BY <1>6
    <3> HIDE DEF cs
    <3>3. LET t == Caught(d, calls) IN
         /\ t[d] \in Call
         /\ t[d].kind = calls[d].kind /\ t[d].borrowed = calls[d].borrowed
         /\ \/ /\ t[d].at \in {"listing", "failed"} /\ (t[d].at = "listing" => t[d].kind = "configured")
               /\ t[d].known = <<>> /\ t[d].awaits = nobody
            \/ /\ live # nobody /\ t[d].kind = "inspect" /\ t[d].at = "done"
               /\ t[d].source = sessions[live].events
               /\ t[d].known = calls[d].known /\ t[d].awaits = calls[d].awaits
      BY <1>1, <3>2, CaughtIs
    <3> QED
      BY <3>1, <3>3
  <2>2. \A d \in Callers : d \notin Readers(n) => cs[d] = calls[d]
    BY DEF Refused
  <2>3. cs \in [Callers -> Call]
    <3>1. \A d \in Callers : cs[d] \in Call
      BY <1>1, <2>1, <2>2
    <3>2. cs = [d \in Callers |-> cs[d]]
      BY DEF Refused
    <3> QED
      BY <3>1, <3>2
  <2>4. /\ (entry' = entry /\ entry.no # n /\ calls' = cs)
           \/ (entry.no = n /\ entry' = NoEntry /\ calls' = Woken(cs))
    BY <1>8 DEF Removed
  <2> HIDE DEF cs
  <2>5. CASE entry' = entry /\ entry.no # n /\ calls' = cs
    BY <1>2, <1>3, <1>5, <1>6, <2>1, <2>2, <2>3, <2>5 DEF ReadLost
  <2>6. CASE entry.no = n /\ entry' = NoEntry /\ calls' = Woken(cs)
    <3>1. /\ calls' \in [Callers -> Call]
          /\ \A d \in Callers : calls'[d] = IF cs[d].at = "queued" THEN [cs[d] EXCEPT !.at = "read"] ELSE cs[d]
      BY <2>3, <2>6, WokenIs
    <3>2. \A d \in Readers(n) : calls'[d] = cs[d]
      BY <1>6, <2>1, <3>1
    <3>3. \A d \in Callers : d \notin Readers(n) =>
              \/ calls'[d] = calls[d]
              \/ calls[d].at = "queued" /\ calls'[d] = [calls[d] EXCEPT !.at = "read"]
      BY <2>2, <3>1
    <3>4. \A d \in Readers(n) :
              calls'[d].kind = calls[d].kind /\ calls'[d].borrowed = calls[d].borrowed /\ ReadLost(d)
      BY <2>1, <3>2 DEF ReadLost
    <3> QED
      BY <1>2, <1>3, <1>5, <2>6, <3>1, <3>3, <3>4
  <2> QED
    BY <2>4, <2>5, <2>6
<1> QED
  BY <1>4, <1>7, <1>8

LEMMA ReadKeeps ==
  ASSUME Inv, Read
  PROVE  TypeOK' /\ IInv'
<1> DEFINE n == chain[1].n
<1>1. /\ TypeOK /\ EntryInv /\ HolderInv /\ ChainInv /\ LosingInv /\ PendingInv
      /\ PlacesInv /\ SessionInv /\ RegistryInv
  BY DEF Inv, IInv
<1>2. /\ SameLog /\ left' \in [Kinds -> Nat] /\ Without(1)
      /\ 1 \in DOMAIN chain /\ chain[1].op = "read" /\ n > 0
      /\ calls' \in [Callers -> Call]
      /\ \A d \in Callers : d \notin Readers(n) =>
           \/ calls'[d] = calls[d]
           \/ calls[d].at = "queued" /\ calls'[d] = [calls[d] EXCEPT !.at = "read"]
      /\ \A d \in Readers(n) :
           calls'[d].kind = calls[d].kind /\ calls'[d].borrowed = calls[d].borrowed
             /\ (ReadBack(d) \/ ReadLost(d))
      /\ \/ entry' = entry /\ entry.no # n
         \/ entry.no = n /\ entry' = NoEntry
         \/ /\ entry.no = n /\ live = nobody /\ stored # <<>>
            /\ entry' = [entry EXCEPT !.phase = "ready", !.source = stored]
  BY <1>1, ReadIs
<1>3. /\ stored' = stored /\ tracked' = tracked /\ sessions' = sessions /\ live' = live /\ retiring' = retiring
  BY <1>2 DEF SameLog
<1>4. ASSUME NEW d \in Callers
      PROVE  /\ calls'[d].kind = calls[d].kind
             /\ \/ calls'[d].at = calls[d].at
                \/ calls[d].at = "queued" /\ calls'[d].at = "read"
                \/ /\ calls[d].at = "reading" /\ calls'[d].at \in {"read", "listing", "failed", "done"}
                   /\ calls'[d].at = "listing" => calls[d].kind = "configured"
                   /\ calls'[d].at = "done" => calls[d].kind = "inspect"
  <2>1. CASE d \in Readers(n)
    <3>1. calls[d].at = "reading"
      BY <2>1 DEF Readers, At
    <3> QED
      BY <1>2, <2>1, <3>1 DEF ReadBack, ReadLost
  <2>2. CASE d \notin Readers(n)
    <3>1. calls[d] \in Call
      BY <1>1 DEF TypeOK
    <3>2. CASE calls'[d] = calls[d]
      BY <3>2
    <3>3. CASE calls[d].at = "queued" /\ calls'[d] = [calls[d] EXCEPT !.at = "read"]
      BY <3>1, <3>3 DEF Call
    <3> QED
      BY <1>2, <2>2, <3>2, <3>3
  <2> QED
    BY <2>1, <2>2
<1>5. PlacesInv'
  <2>1. ASSUME NEW d \in Callers PROVE calls'[d].at \in Places(calls[d].kind)
    <3>1. calls[d].at \in Places(calls[d].kind) /\ calls[d].kind \in CallKinds
      BY PlaceSays
    <3>2. CASE calls'[d].at = calls[d].at
      BY <3>1, <3>2
    <3>3. CASE calls[d].at = "queued" /\ calls'[d].at = "read"
      BY <3>1, <3>3, PlacesAre DEF CallKinds
    <3>4. CASE /\ calls[d].at = "reading" /\ calls'[d].at \in {"read", "listing", "failed", "done"}
               /\ calls'[d].at = "listing" => calls[d].kind = "configured"
               /\ calls'[d].at = "done" => calls[d].kind = "inspect"
      BY <3>1, <3>4, PlacesAre DEF CallKinds
    <3> QED
      BY <1>4, <3>2, <3>3, <3>4
  <2> QED
    BY <1>4, <2>1 DEF PlacesInv
<1>6. SessionInv'
  BY <1>1, <1>3, <1>4 DEF SessionInv
<1>7. RegistryInv'
  BY <1>1, <1>3, <1>4 DEF RegistryInv
<1>8. OwnerInv' /\ WantedInv'
  BY <1>3, LogKept
<1>9. entry' # entry => entry.phase = "loading" /\ entry.holder = nobody /\ entry.added = <<>>
  <2>1. entry' # entry => entry.phase = "loading"
    BY <1>1, <1>2 DEF PendingInv, ReadsPending
  <2> QED
    BY <1>1, <2>1 DEF EntryInv, Exclusive
<1>10. /\ entry' \in [no : Nat, phase : {"none", "loading", "ready", "committing", "reserved"},
                source : Seq(Event), added : Seq(Event), holder : Callers \cup {nobody}]
       /\ entry'.holder = entry.holder /\ entry'.added = entry.added
  <2>1. CASE entry' = entry
    BY <1>1, <2>1 DEF TypeOK
  <2>2. CASE entry' = NoEntry
    BY <1>9, <2>2, EntryTypes DEF NoEntry
  <2>3. CASE entry' = [entry EXCEPT !.phase = "ready", !.source = stored]
    BY <1>1, <2>3 DEF TypeOK
  <2> QED
    BY <1>2, <2>1, <2>2, <2>3
<1>11. ASSUME entry' = entry PROVE EntryInv' /\ HolderInv' /\ PendingInv'
  <2>1. EntryInv'
    <3>1. entry.holder # nobody => entry.holder \in Callers
      BY <1>1 DEF TypeOK
    <3>2. entry.added # <<>> => entry.holder # nobody
      BY <1>1 DEF EntryInv, Exclusive
    <3> QED
      BY <1>1, <1>3, <1>4, <1>11, <3>1, <3>2 DEF EntryInv, Exclusive, Unattached
  <2>2. HolderInv'
    BY <1>1, <1>3, <1>4, <1>11 DEF HolderInv, Settled
  <2>3. SameEntry /\ (entry.no # n \/ entry' # entry)
    <3>1. n > 0
      BY <1>2
    <3>2. entry.no = n => entry' # entry
      <4> SUFFICES ASSUME entry.no = n PROVE entry' # entry
        OBVIOUS
      <4>1. entry.phase = "loading" /\ entry.no # 0
        BY <1>1, <1>2 DEF PendingInv, ReadsPending, TypeOK
      <4>2. CASE entry' = NoEntry
        BY <4>1, <4>2 DEF NoEntry
      <4>3. CASE entry' = [entry EXCEPT !.phase = "ready", !.source = stored]
        BY <1>1, <4>1, <4>3 DEF TypeOK
      <4> QED
        BY <1>2, <4>2, <4>3
    <3> QED
      BY <1>11, <3>2 DEF SameEntry
  <2>4. PendingInv'
    <3>1. KeepsPending
      BY <1>3 DEF KeepsPending, Unattached
    <3> QED
      BY <1>1, <1>2, <1>3, <1>11, <2>3, <3>1, WithoutPending
  <2> QED
    BY <2>1, <2>2, <2>4
<1>12. ASSUME entry' = NoEntry, entry' # entry PROVE EntryInv' /\ HolderInv' /\ PendingInv'
  <2>1. EntryInv'
    BY <1>3, <1>12 DEF EntryInv, NoEntry, Exclusive
  <2>2. HolderInv'
    BY <1>1, <1>3, <1>4, <1>9, <1>12, PreparationsAssumption DEF HolderInv, NoEntry
  <2>3. PendingInv'
    <3>1. KeepsPending /\ NoEntryNow
      BY <1>3, <1>12 DEF KeepsPending, NoEntryNow, NoEntry, Unattached
    <3> QED
      BY <1>1, <1>2, <1>3, <3>1, WithoutPending
  <2> QED
    BY <2>1, <2>2, <2>3
<1>13. ASSUME entry.no = n, live = nobody, stored # <<>>, entry' # entry,
              entry' = [entry EXCEPT !.phase = "ready", !.source = stored]
       PROVE  EntryInv' /\ HolderInv' /\ PendingInv'
  <2>1. entry'.phase = "ready" /\ entry'.source = stored /\ entry'.no = entry.no /\ entry.no # 0
    BY <1>1, <1>2, <1>13 DEF TypeOK
  <2>2. EntryInv'
    BY <1>3, <1>9, <1>10, <1>13, <2>1 DEF EntryInv, Exclusive
  <2>3. HolderInv'
    BY <1>1, <1>3, <1>4, <1>9, <1>10, <1>13, <2>1, PreparationsAssumption DEF HolderInv
  <2>4. PendingInv'
    <3>1. \A i \in DOMAIN chain : chain[i].op = "read" /\ chain[i].n = entry.no => i = 1
      BY <1>1, <1>2, <1>13 DEF ChainInv, OpInv
    <3>2. \A i \in DOMAIN chain : chain[i].op \notin {"created", "seed"}
      <4> SUFFICES ASSUME NEW i \in DOMAIN chain, chain[i].op \in {"created", "seed"} PROVE FALSE
        OBVIOUS
      <4>1. PICK j \in DOMAIN chain : j > i /\ chain[j].op = "read" /\ chain[j].n = entry.no
        BY <1>1, <1>9, <1>13 DEF PendingInv, PendingEntry
      <4>2. j = 1 /\ i \in Nat /\ i >= 1
        BY <1>1, <3>1, <4>1, ChainNats DEF TypeOK
      <4> QED
        BY <4>1, <4>2
    <3>3. \A i \in DOMAIN chain' : chain'[i].op \notin {"created", "seed"}
                              /\ ~(chain'[i].op = "read" /\ chain'[i].n = entry.no)
      <4>1. ASSUME NEW i \in DOMAIN chain'
            PROVE  \E j \in DOMAIN chain : chain'[i] = chain[j] /\ j # 1
        BY <1>2 DEF Without
      <4> QED
        BY <3>1, <3>2, <4>1
    <3>4. \A d \in Callers : sessions[d].init # "pending"
      BY <1>1, <3>2 DEF PendingInv, PendingInit, Queued
    <3> QED
      BY <1>3, <2>1, <3>3, <3>4 DEF PendingInv, PendingEntry, PendingLive, PendingInit, ReadsPending
  <2> QED
    BY <2>2, <2>3, <2>4
<1>14. EntryInv' /\ HolderInv' /\ PendingInv'
  BY <1>2, <1>11, <1>12, <1>13
<1>18. VetoInv'
  <2>1. \A d \in Callers : sessions[d].stage = "vetoed" => calls[d].at \in {"vetoed", "failed"}
    BY DEF Inv, IInv, VetoInv
  <2> QED
    BY <1>3, <1>4, <1>9, <1>10, <2>1, VetoStays, PreparationsAssumption
<1>15. ChainInv'
  <2>1. ASSUME NEW o \in Op, OpInv(o) PROVE OpInv(o)'
    BY <1>3, <1>4, <2>1 DEF OpInv, At, Owns, Started
  <2> QED
    BY <1>1, <1>2, <2>1, WithoutChain
<1>16. LosingInv'
  <2>1. tracked' \in [known : BOOLEAN, cursor : Nat, owner : Callers \cup {nobody}]
        /\ tracked'.cursor >= tracked.cursor
    BY <1>1, <1>3 DEF TypeOK
  <2>2. \A d \in Callers : calls'[d].at = "committing" =>
           calls[d].at = "committing" /\ ~(chain[1].op = "commit" /\ chain[1].by = d)
    BY <1>2, <1>4
  <2>3. \A d \in Callers : Losing(d)' => Losing(d)
    BY <1>4, <1>10 DEF Losing
  <2> QED
    BY <1>1, <1>2, <1>3, <2>1, <2>2, <2>3, WithoutLosing
<1>17. TypeOK'
  <2>1. chain' \in Seq(Op)
    BY <1>2 DEF Without
  <2> QED
    BY <1>1, <1>2, <1>10, <2>1, TypedTurn
<1> QED
  BY <1>5, <1>6, <1>7, <1>8, <1>14, <1>15, <1>16, <1>17, <1>18 DEF IInv
-----------------------------------------------------------------------------
(* The steps of a Session: what it appends, and its way out of the registries *)

SessionRec == [events : Seq(Event), seeded : Nat, init : {"none", "pending", "ok", "failed"},
               stage : {"none", "live", "vetoed", "withdrawn", "retiring", "leaving", "retired",
                        "stranded"}]

LEMMA UpdateIs ==
  ASSUME NEW S, NEW T, NEW f \in [S -> T], NEW c \in S, NEW r \in T
  PROVE  LET g == [f EXCEPT ![c] = r] IN g \in [S -> T] /\ g[c] = r /\ \A d \in S : d # c => g[d] = f[d]
OBVIOUS

LEMMA SessionUpdated ==
  ASSUME TypeOK, NEW c \in Callers, NEW r \in SessionRec, sessions' = [sessions EXCEPT ![c] = r]
  PROVE  /\ sessions' \in [Callers -> SessionRec] /\ sessions'[c] = r
         /\ \A d \in Callers : d # c => sessions'[d] = sessions[d]
<1>1. sessions \in [Callers -> SessionRec]
  BY DEF TypeOK, SessionRec
<1> QED
  BY <1>1, UpdateIs

\* An event of its own extends the Session, before it is published or while it is live.
LEMMA AppendsKeep ==
  ASSUME Inv, NEW c \in Callers, NEW e \in Event, e.by = c,
         sessions' = [sessions EXCEPT ![c].events = Append(@, e)],
         UNCHANGED <<identity, chain, calls, live, retiring>>, left' \in [Kinds -> Nat],
         sessions[c].stage \in {"none", "live"}
  PROVE  TypeOK' /\ IInv'
<1> DEFINE log == sessions[c].events
<1>1. /\ TypeOK /\ PlacesInv /\ SessionInv /\ RegistryInv /\ OwnerInv /\ WantedInv /\ EntryInv /\ HolderInv
      /\ LosingInv /\ ChainInv /\ PendingInv
      /\ stored' = stored /\ tracked' = tracked /\ entry' = entry /\ chain' = chain /\ calls' = calls
      /\ live' = live /\ retiring' = retiring
  BY DEF Inv, IInv, identity
<1>2. sessions \in [Callers -> SessionRec] /\ log \in Seq(Event) /\ stored \in Seq(Event)
  BY <1>1 DEF TypeOK, SessionRec
<1>3. /\ Append(log, e) \in Seq(Event) /\ Len(Append(log, e)) = Len(log) + 1 /\ Len(log) \in Nat
      /\ DOMAIN Append(log, e) = 1 .. Len(log) + 1 /\ DOMAIN log = 1 .. Len(log)
      /\ \A i \in 1 .. Len(log) : Append(log, e)[i] = log[i]
      /\ Append(log, e)[Len(log) + 1] = e
  BY <1>2, AppendProperties, LenProperties
<1>4. IsPrefix(log, Append(log, e))
  BY <1>2, PrefixOrder
<1> DEFINE t == Append(log, e)
           r == [sessions[c] EXCEPT !.events = t]
<1>17. sessions' = [sessions EXCEPT ![c] = r]
  OBVIOUS
<1>18. /\ r \in SessionRec /\ r.events = t /\ r.seeded = sessions[c].seeded
       /\ r.init = sessions[c].init /\ r.stage = sessions[c].stage
  BY <1>2, <1>3 DEF SessionRec
<1> HIDE DEF r, t
<1>5. /\ sessions' \in [Callers -> SessionRec]
      /\ \A d \in Callers : d # c => sessions'[d] = sessions[d]
      /\ sessions'[c].events = t /\ sessions'[c].seeded = sessions[c].seeded
      /\ sessions'[c].init = sessions[c].init /\ sessions'[c].stage = sessions[c].stage
  <2>1. /\ sessions' \in [Callers -> SessionRec] /\ sessions'[c] = r
        /\ \A d \in Callers : d # c => sessions'[d] = sessions[d]
    <3> DEFINE g == [sessions EXCEPT ![c] = r]
    <3>1. g \in [Callers -> SessionRec] /\ g[c] = r /\ \A d \in Callers : d # c => g[d] = sessions[d]
      BY <1>2, <1>18, UpdateIs
    <3>2. sessions' = g
      BY <1>17
    <3> HIDE DEF g
    <3> QED
      BY <3>1, <3>2, Zenon
  <2> QED
    BY <1>18, <2>1
<1>6. /\ t \in Seq(Event) /\ Len(t) = Len(log) + 1
      /\ DOMAIN t = 1 .. Len(log) + 1 /\ \A i \in 1 .. Len(log) : t[i] = log[i]
      /\ t[Len(log) + 1].by = c /\ IsPrefix(log, t) /\ t # <<>>
  <2>1. /\ t \in Seq(Event) /\ Len(t) = Len(log) + 1
        /\ DOMAIN t = 1 .. Len(log) + 1 /\ \A i \in 1 .. Len(log) : t[i] = log[i]
        /\ t[Len(log) + 1] = e /\ IsPrefix(log, t)
    BY <1>3, <1>4, Zenon DEF t
  <2> QED
    BY <1>3, <2>1, EmptySeq
<1> HIDE DEF log
<1>7. (\A i \in DOMAIN log : log[i].by = c) => \A i \in DOMAIN t : t[i].by = c
  <2>1. \A i \in DOMAIN t : i \in DOMAIN log \/ i = Len(log) + 1
    BY <1>3, <1>6
  <2> QED
    BY <1>3, <1>6, <2>1
<1>8. TypeOK'
  BY <1>1, <1>5 DEF TypeOK, SessionRec
<1>9. PlacesInv' /\ RegistryInv'
  BY <1>1, <1>5 DEF PlacesInv, RegistryInv
<1>10. SessionInv'
  <2>1. sessions[c].seeded <= Len(t)
    <3>1. sessions[c].seeded <= Len(log) /\ sessions[c].seeded \in Nat
      BY <1>1, <1>2 DEF SessionInv, SessionRec, log
    <3> QED
      BY <1>3, <1>6, <3>1
  <2> QED
    BY <1>1, <1>5, <1>7, <2>1 DEF SessionInv, log
<1>11. OwnerInv'
  <2>1. ASSUME tracked.owner = c
        PROVE  /\ IsPrefix(stored, t)
               /\ \A i \in DOMAIN t : i > Len(stored) => t[i].by = c
    <3>1. IsPrefix(stored, log) /\ \A i \in DOMAIN log : i > Len(stored) => log[i].by = c
      BY <1>1, <2>1, PreparationsAssumption DEF OwnerInv, log
    <3>2. IsPrefix(stored, t)
      BY <1>2, <1>6, <3>1, PrefixOrder
    <3>3. \A i \in DOMAIN t : i \in DOMAIN log \/ i = Len(log) + 1
      BY <1>3, <1>6
    <3> QED
      BY <1>3, <1>6, <3>1, <3>2, <3>3
  <2>2. \A d \in Callers : sessions'[d].init = sessions[d].init /\ sessions'[d].stage = sessions[d].stage
                             /\ sessions'[d].seeded = sessions[d].seeded
    BY <1>5
  <2>3. tracked.owner # nobody => tracked.owner \in Callers
    BY <1>1 DEF TypeOK
  <2>4. \A i \in DOMAIN stored : stored[i].by \in Callers => sessions'[stored[i].by].init = "ok"
    BY <1>1, <2>2 DEF OwnerInv
  <2>5. ASSUME tracked.owner # nobody
        PROVE  /\ IsPrefix(stored, sessions'[tracked.owner].events)
               /\ \A i \in DOMAIN sessions'[tracked.owner].events :
                    i > Len(stored) => sessions'[tracked.owner].events[i].by = tracked.owner
    BY <1>1, <1>5, <2>1, <2>3, <2>5 DEF OwnerInv
  <2> QED
    BY <1>1, <2>2, <2>3, <2>4, <2>5 DEF OwnerInv
<1>12. WantedInv'
  <2>1. sessions[c].init = "ok" => Owns(c)
    BY <1>1, PreparationsAssumption DEF WantedInv, SessionInv, RegistryInv
  <2> QED
    BY <1>1, <1>5, <2>1 DEF WantedInv, Owns
<1>19. \A d \in Callers : sessions'[d].stage = sessions[d].stage
  BY <1>5
<1>13. EntryInv' /\ HolderInv' /\ VetoInv'
  <2>1. Unattached' = Unattached
    BY <1>1, <1>19 DEF Unattached, TypeOK
  <2>2. VetoInv'
    BY <1>1, <1>5, VetoStays
  <2> QED
    BY <1>1, <1>19, <2>1, <2>2 DEF EntryInv, HolderInv, Exclusive, Settled
<1>14. ChainInv'
  <2>1. ASSUME NEW i \in DOMAIN chain PROVE OpInv(chain[i])'
    <3>1. OpInv(chain[i]) /\ chain[i] \in Op
      BY <1>1 DEF ChainInv, TypeOK
    <3> DEFINE o == chain[i]
    <3>2. chain'[i] = o /\ o \in Op /\ OpInv(o)
      BY <1>1, <3>1
    <3> HIDE DEF o
    <3>3. CASE o.op \in {"read", "commit", "check", "seed"}
      BY <1>1, <1>5, <3>2, <3>3 DEF OpInv, At, Owns, Started
    <3>4. CASE o.op = "created"
      BY <1>1, <1>5, <1>7, <3>2, <3>4 DEF log, OpInv, At, Owns, Started
    <3>5. CASE o.op = "drain"
      <4>1. o.by \in Callers /\ o.n \in Nat /\ 0 < o.n /\ o.n <= Len(sessions[o.by].events)
        BY <3>2, <3>5 DEF OpInv, Op
      <4>2. o.n <= Len(sessions'[o.by].events)
        BY <1>3, <1>5, <1>6, <4>1 DEF log
      <4> QED
        BY <1>1, <1>5, <3>2, <3>5, <4>1, <4>2 DEF OpInv, At, Owns, Started
    <3>6. CASE o.op = "retire"
      <4>1. o.by # c
        BY <1>1, <3>2, <3>6 DEF OpInv
      <4> QED
        BY <1>1, <1>5, <3>2, <3>6, <4>1 DEF OpInv, At, Owns, Started
    <3> QED
      BY <3>2, <3>3, <3>4, <3>5, <3>6 DEF Op
  <2> QED
    BY <1>1, <2>1 DEF ChainInv
<1>15. LosingInv'
  BY <1>1 DEF LosingInv, Losing, Queued
<1>16. PendingInv'
  <2>1. Unattached' = Unattached /\ \A d \in Callers : sessions'[d].init = sessions[d].init
    BY <1>1, <1>5, <1>19 DEF Unattached, TypeOK
  <2> QED
    BY <1>1, <2>1 DEF PendingInv, PendingEntry, PendingLive, PendingInit, ReadsPending, Queued
<1> QED
  BY <1>8, <1>9, <1>10, <1>11, <1>12, <1>13, <1>14, <1>15, <1>16 DEF IInv

LEMMA OwnIs ==
  ASSUME NEW c \in Callers, NEW kind \in {"start", "end", "note"}
  PROVE  Own(c, kind) \in Event /\ Own(c, kind).by = c
BY DEF Own, Event

LEMMA SetupAppendsKeeps ==
  ASSUME Inv, NEW c \in Callers, SetupAppends(c)
  PROVE  TypeOK' /\ IInv'
<1>1. /\ TypeOK /\ calls[c].at = "setup" /\ HolderInv /\ EntryInv /\ calls \in [Callers -> Call]
      /\ stored' = stored /\ tracked' = tracked /\ chain' = chain /\ calls' = calls
      /\ live' = live /\ retiring' = retiring
  BY DEF SetupAppends, At, Inv, IInv, TypeOK
<1>2. left' \in [Kinds -> Nat]
  BY <1>1, SpendIs DEF Kinds, SetupAppends
<1>3. sessions[c].stage = "none"
  BY <1>1, PlaceSays DEF Published
<1>4. Own(c, "note") \in Event /\ Own(c, "note").by = c
  BY OwnIs
<1>5. CASE entry.holder = c
  <2>1. entry' = [entry EXCEPT !.added = Append(@, Own(c, "note"))] /\ sessions' = sessions
    BY <1>5 DEF SetupAppends
  <2>2. entry.added \in Seq(Event) /\ entry.phase = "reserved"
    BY <1>1, <1>5 DEF TypeOK, HolderInv
  <2> DEFINE e == Own(c, "note")
             t == Append(entry.added, e)
  <2>3. /\ t \in Seq(Event) /\ Len(t) = Len(entry.added) + 1 /\ Len(entry.added) \in Nat
        /\ DOMAIN t = 1 .. Len(entry.added) + 1 /\ DOMAIN entry.added = 1 .. Len(entry.added)
        /\ \A i \in 1 .. Len(entry.added) : t[i] = entry.added[i]
        /\ t[Len(entry.added) + 1] = e
    BY <1>4, <2>2, AppendProperties, LenProperties
  <2>4. e.by = c
    BY <1>4
  <2>5. /\ entry'.no = entry.no /\ entry'.phase = entry.phase /\ entry'.source = entry.source
        /\ entry'.added = t /\ entry'.holder = entry.holder
        /\ entry' \in [no : Nat, phase : {"none", "loading", "ready", "committing", "reserved"},
                source : Seq(Event), added : Seq(Event), holder : Callers \cup {nobody}]
    BY <1>1, <2>1, <2>3 DEF TypeOK
  <2> HIDE DEF t, e
  <2>6. \A i \in DOMAIN t : t[i].by = c
    BY <1>1, <1>5, <2>3, <2>4 DEF EntryInv
  <2>7. EntryInv'
    <3>1. entry.no # 0 /\ (live = nobody \/ Unattached)
      BY <1>1, <2>2 DEF EntryInv, NoEntry
    <3>2. Unattached' = Unattached
      BY <1>1, <2>1 DEF Unattached
    <3> QED
      BY <1>1, <1>5, <2>1, <2>2, <2>5, <2>6, <3>1, <3>2, PreparationsAssumption DEF EntryInv, Exclusive
  <2>8. HolderInv'
    BY <1>1, <2>1, <2>5 DEF HolderInv, Settled
  <2>9. Turn(c, calls')
    BY <1>1 DEF Turn, Others
  <2>10. Without(Len(chain) + 1) /\ Len(chain) + 1 \notin DOMAIN chain
    BY <1>1, WithoutNone DEF TypeOK
  <2>11. SameLog /\ SameEntry
    BY <1>1, <2>1, <2>5 DEF SameLog, SameEntry
  <2>12. calls'[c].at \in Places(calls[c].kind)
    BY <1>1, PlaceSays
  <2>13. VetoInv'
    BY <1>1, <1>3, <1>5, <2>1, <2>5, <2>9, VetoKept
  <2> QED
    BY <1>1, <1>2, <1>3, <1>5, <2>5, <2>7, <2>8, <2>13, <2>9, <2>10, <2>11, <2>12, HolderTurn
<1>6. CASE entry.holder # c
  <2>1. sessions' = [sessions EXCEPT ![c].events = Append(@, Own(c, "note"))] /\ entry' = entry
    BY <1>6 DEF SetupAppends
  <2>2. PICK e \in Event : e = Own(c, "note") /\ e.by = c
    BY <1>4
  <2>3. UNCHANGED <<identity, chain, calls, live, retiring>>
    BY <1>1, <2>1 DEF identity
  <2> QED
    BY <1>2, <1>3, <2>1, <2>2, <2>3, AppendsKeep
<1> QED
  BY <1>5, <1>6

LEMMA TurnEventKeeps ==
  ASSUME Inv, NEW c \in Callers, TurnStarts(c) \/ TurnEnds(c)
  PROVE  TypeOK' /\ IInv'
<1>1. /\ TypeOK /\ sessions[c].stage = "live" /\ UNCHANGED <<identity, chain, calls, live, retiring>>
  <2>1. calls[c].at \in {"live", "disposing"} /\ UNCHANGED <<identity, chain, calls, live, retiring>>
    BY DEF TurnStarts, TurnEnds, At
  <2>2. live = c /\ sessions[c].stage \in {"live", "vetoed"}
    BY <2>1, PreparationsAssumption DEF Inv, IInv, RegistryInv
  <2> QED
    BY <2>1, <2>2 DEF Inv, IInv, VetoInv
<1>2. left' \in [Kinds -> Nat]
  <2>1. left' = left \/ Spend("event")
    BY DEF TurnStarts, TurnEnds
  <2> QED
    BY <1>1, <2>1, SpendIs DEF Kinds, TypeOK
<1>3. PICK kind \in {"start", "end", "note"} : sessions' = [sessions EXCEPT ![c].events = Append(@, Own(c, kind))]
  BY DEF TurnStarts, TurnEnds
<1>4. PICK e \in Event : e = Own(c, kind) /\ e.by = c
  BY OwnIs
<1> QED
  BY <1>1, <1>2, <1>3, <1>4, AppendsKeep
-----------------------------------------------------------------------------
(* The retirement of a Session *)

LEMMA StageIs ==
  ASSUME TypeOK, NEW c \in Callers,
         NEW s \in {"none", "live", "vetoed", "withdrawn", "retiring", "leaving", "retired", "stranded"},
         sessions' = [sessions EXCEPT ![c].stage = s]
  PROVE  /\ sessions' \in [Callers -> SessionRec]
         /\ \A d \in Callers :
              /\ sessions'[d].events = sessions[d].events /\ sessions'[d].seeded = sessions[d].seeded
              /\ sessions'[d].init = sessions[d].init
              /\ sessions'[d].stage = IF d = c THEN s ELSE sessions[d].stage
<1>1. sessions \in [Callers -> SessionRec]
  BY DEF TypeOK, SessionRec
<1> DEFINE r == [sessions[c] EXCEPT !.stage = s]
<1>2. /\ r \in SessionRec /\ r.events = sessions[c].events /\ r.seeded = sessions[c].seeded
      /\ r.init = sessions[c].init /\ r.stage = s
  BY <1>1 DEF SessionRec
<1>3. sessions' = [sessions EXCEPT ![c] = r]
  OBVIOUS
<1> HIDE DEF r
<1> QED
  BY <1>2, <1>3, SessionUpdated

\* Only the stage of c moves, to s.
Stays(c, s) ==
  \A d \in Callers :
    /\ sessions'[d].events = sessions[d].events /\ sessions'[d].seeded = sessions[d].seeded
    /\ sessions'[d].init = sessions[d].init
    /\ sessions'[d].stage = IF d = c THEN s ELSE sessions[d].stage
Moves(c, s) ==
  \/ s = sessions[c].stage /\ live' = live /\ retiring' = retiring
  \/ /\ sessions[c].stage = "live" /\ s = "retiring" /\ live = c
     /\ live' = nobody /\ retiring' = c /\ calls'[c].at \in {"done", "rollback", "failed"}
  \/ /\ sessions[c].stage = "vetoed" /\ s = "withdrawn" /\ live = c
     /\ live' = nobody /\ retiring' = retiring /\ calls'[c].at \in {"rollback", "failed"}
  \/ sessions[c].stage = "retiring" /\ s = "leaving" /\ live' = live /\ retiring' = retiring
  \/ sessions[c].stage = "retiring" /\ s = "stranded" /\ live' = live /\ Forget(c)
\* A call stays where it is, or ends.
Ends(d) ==
  /\ calls'[d].kind = calls[d].kind
  /\ \/ calls'[d].at = calls[d].at
     \/ calls[d].at \in {"flushing", "disposing"} /\ calls'[d].at \in {"done", "failed"}
     \/ calls[d].at = "vetoed" /\ calls'[d].at = "rollback" /\ live' = nobody

LEMMA StageMoves ==
  ASSUME Inv, NEW c \in Callers, NEW s, Stays(c, s), Moves(c, s), UNCHANGED identity,
         calls' \in [Callers -> Call], \A d \in Callers : Ends(d)
  PROVE  /\ PlacesInv' /\ SessionInv' /\ RegistryInv' /\ OwnerInv' /\ WantedInv' /\ EntryInv' /\ HolderInv' /\ VetoInv'
<1>1. /\ TypeOK /\ PlacesInv /\ SessionInv /\ RegistryInv /\ OwnerInv /\ WantedInv /\ EntryInv /\ HolderInv
      /\ stored' = stored /\ tracked' = tracked /\ entry' = entry
  BY DEF Inv, IInv, identity
<1>2. \A d \in Callers :
        /\ sessions'[d].events = sessions[d].events /\ sessions'[d].seeded = sessions[d].seeded
        /\ sessions'[d].init = sessions[d].init
        /\ sessions'[d].stage = IF d = c THEN s ELSE sessions[d].stage
  BY DEF Stays
<1>3. \A d \in Callers :
        /\ calls'[d].kind = calls[d].kind
        /\ \/ calls'[d].at = calls[d].at
           \/ calls[d].at \in {"flushing", "disposing"} /\ calls'[d].at \in {"done", "failed"}
           \/ calls[d].at = "vetoed" /\ calls'[d].at = "rollback" /\ live' = nobody
  BY DEF Ends
<1>4. /\ s # "none" <=> sessions[c].stage # "none"
      /\ s \in {"none", "vetoed", "withdrawn"} <=> sessions[c].stage \in {"none", "vetoed", "withdrawn"}
  BY DEF Moves
<1>5. PlacesInv'
  <2>1. ASSUME NEW d \in Callers PROVE calls'[d].at \in Places(calls[d].kind)
    <3>1. calls[d].at \in Places(calls[d].kind) /\ calls[d].kind \in CallKinds
      BY PlaceSays
    <3>2. CASE calls'[d].at = calls[d].at
      BY <3>1, <3>2
    <3>3. CASE calls[d].at \in {"flushing", "disposing"} /\ calls'[d].at \in {"done", "failed"}
      BY <3>1, <3>3, PlacesAre DEF CallKinds
    <3>4. CASE calls[d].at = "vetoed" /\ calls'[d].at = "rollback"
      BY <3>1, <3>4, PlacesAre DEF CallKinds
    <3> QED
      BY <1>3, <3>2, <3>3, <3>4
  <2> QED
    BY <1>3, <2>1 DEF PlacesInv
<1>6. SessionInv'
  BY <1>1, <1>2, <1>3, <1>4 DEF SessionInv
<1>7. RegistryInv'
  <2>5. (live # nobody => live \in Callers) /\ (retiring # nobody => retiring \in Callers)
    BY <1>1 DEF TypeOK
  <2>6. \A d \in Callers : calls'[d].at \in {"live", "vetoed", "disposing"} => calls[d].at \in {"live", "vetoed", "disposing"}
    BY <1>3
  <2>1. CASE s = sessions[c].stage /\ live' = live /\ retiring' = retiring
    BY <1>1, <1>2, <2>1, <2>5, <2>6 DEF RegistryInv
  <2>2. CASE /\ sessions[c].stage = "live" /\ s = "retiring" /\ live = c
             /\ live' = nobody /\ retiring' = c /\ calls'[c].at \in {"done", "rollback", "failed"}
    BY <1>1, <1>2, <2>2, <2>5, <2>6 DEF RegistryInv
  <2>7. CASE /\ sessions[c].stage = "vetoed" /\ s = "withdrawn" /\ live = c
             /\ live' = nobody /\ retiring' = retiring /\ calls'[c].at \in {"rollback", "failed"}
    BY <1>1, <1>2, <2>7, <2>5, <2>6 DEF RegistryInv
  <2>3. CASE sessions[c].stage = "retiring" /\ s = "leaving" /\ live' = live /\ retiring' = retiring
    BY <1>1, <1>2, <2>3, <2>5, <2>6 DEF RegistryInv
  <2>4. CASE sessions[c].stage = "retiring" /\ s = "stranded" /\ live' = live /\ Forget(c)
    <3>1. retiring' \in {retiring, nobody} /\ (retiring' = c => c = nobody)
      BY <2>4 DEF Forget
    <3> QED
      BY <1>1, <1>2, <2>4, <2>5, <2>6, <3>1, PreparationsAssumption DEF RegistryInv
  <2> QED
    BY <2>1, <2>2, <2>3, <2>4, <2>7 DEF Moves
<1>8. OwnerInv'
  <2>1. s = "retired" => sessions[c].stage = "retired"
    BY DEF Moves
  <2>2. tracked.owner # nobody => tracked.owner \in Callers
    BY <1>1 DEF TypeOK
  <2> QED
    BY <1>1, <1>2, <1>4, <2>1, <2>2 DEF OwnerInv
<1>9. WantedInv'
  <2>1. s \in {"live", "retiring"} => sessions[c].stage \in {"live", "retiring"}
    BY DEF Moves
  <2>2. live' \in {live, nobody} /\ (live # nobody => live \in Callers)
    BY <1>1 DEF Moves, TypeOK
  <2> QED
    BY <1>1, <1>2, <2>1, <2>2 DEF WantedInv, Owns
<1>10. EntryInv'
  <2>1. live' \in {live, nobody}
    BY DEF Moves
  <2>2. entry.added # <<>> => entry.holder \in Callers
    BY <1>1 DEF TypeOK, EntryInv, Exclusive
  <2>3. Unattached /\ live' # nobody => Unattached'
    <3>1. SUFFICES ASSUME live # nobody, sessions[live].stage = "vetoed", live' # nobody
                   PROVE  sessions'[live'].stage = "vetoed"
      BY DEF Unattached
    <3>2. live \in Callers /\ live' = live
      BY <1>1, <2>1, <3>1 DEF TypeOK
    <3>3. c = live => s = "vetoed"
      BY <3>1, <3>2 DEF Moves
    <3> QED
      BY <1>2, <3>1, <3>2, <3>3
  <2> QED
    BY <1>1, <1>3, <2>1, <2>2, <2>3 DEF EntryInv, Exclusive
<1>11. HolderInv'
  BY <1>1, <1>2, <1>3, <1>4 DEF HolderInv, Settled
<1>12. VetoInv'
  <2>1. ASSUME NEW d \in Callers, sessions'[d].stage = "vetoed"
        PROVE  sessions[d].stage = "vetoed" /\ calls'[d].at = calls[d].at
    <3>1. sessions[d].stage = "vetoed" /\ live' = d /\ d # nobody
      BY <1>2, <1>7, <2>1, PreparationsAssumption DEF Moves, RegistryInv
    <3>2. calls[d].at \in {"vetoed", "failed"}
      BY <3>1 DEF Inv, IInv, VetoInv
    <3> QED
      BY <1>3, <3>1, <3>2
  <2> QED
    BY <1>1, <1>2, <1>3, <2>1, VetoStays
<1> QED
  BY <1>5, <1>6, <1>7, <1>8, <1>9, <1>10, <1>11, <1>12

\* What becomes of the chain when the stage of c moves.
LEMMA StageChain ==
  ASSUME Inv, NEW c \in Callers, NEW s, Stays(c, s), Moves(c, s), UNCHANGED identity,
         calls' \in [Callers -> Call], \A d \in Callers : Ends(d),
         NEW o \in Op, OpInv(o),
         s \in {"live", "retiring"} \/ s = sessions[c].stage \/ ~(o.by = c /\ o.op \in {"created", "seed", "drain"})
  PROVE  OpInv(o)'
<1>1. /\ \A d \in Callers :
        /\ sessions'[d].events = sessions[d].events /\ sessions'[d].seeded = sessions[d].seeded
        /\ sessions'[d].init = sessions[d].init
        /\ sessions'[d].stage = IF d = c THEN s ELSE sessions[d].stage
      /\ tracked' = tracked
  BY DEF Stays, identity
<1>2. \A d \in Callers : calls[d].at \in {"committing", "checking"} => calls'[d].at = calls[d].at
  BY DEF Ends
<1>3. sessions[c].stage = "leaving" => s = "leaving"
  BY DEF Moves
<1>4. CASE o.op \in {"read", "commit", "check"}
  BY <1>2, <1>4 DEF OpInv, At
<1>5. CASE o.op \in {"created", "seed", "drain"}
  BY <1>1, <1>5 DEF OpInv, Owns, Started
<1>6. CASE o.op = "retire"
  BY <1>1, <1>3, <1>6 DEF OpInv, Owns
<1> QED
  BY <1>4, <1>5, <1>6 DEF Op

LEMMA DetachesKeeps ==
  ASSUME Inv, NEW c \in Callers, Detaches(c)
  PROVE  TypeOK' /\ IInv'
<1>1. /\ TypeOK /\ ChainInv /\ LosingInv /\ PendingInv /\ calls[c].at = "disposing" /\ live = c
      /\ sessions[c].stage = "live"
      /\ UNCHANGED identity /\ chain' = chain /\ left' = left /\ live' = nobody /\ retiring' = c
      /\ sessions' = [sessions EXCEPT ![c].stage = "retiring"] /\ calls' = Goes(c, "done")
  BY PreparationsAssumption DEF Detaches, At, Inv, IInv, RegistryInv, VetoInv
<1>2. sessions' \in [Callers -> SessionRec] /\ Stays(c, "retiring")
  BY <1>1, StageIs DEF Stays
<1>3. /\ calls' \in [Callers -> Call] /\ calls'[c].at = "done" /\ \A d \in Callers : Ends(d)
      /\ \A d \in Callers : d # c => calls'[d] = calls[d]
  <2>1. /\ Turn(c, calls') /\ calls'[c].at = "done" /\ calls'[c].kind = calls[c].kind
        /\ \A d \in Callers : d # c => calls'[d] = calls[d]
    BY <1>1, GoesTo
  <2> QED
    BY <1>1, <2>1 DEF Turn, Ends
<1>4. Moves(c, "retiring")
  BY <1>1, <1>3 DEF Moves
<1>5. PlacesInv' /\ SessionInv' /\ RegistryInv' /\ OwnerInv' /\ WantedInv' /\ EntryInv' /\ HolderInv' /\ VetoInv'
  BY <1>1, <1>2, <1>3, <1>4, StageMoves
<1>6. ChainInv'
  <2>1. \A o \in Op : OpInv(o) => OpInv(o)'
    BY <1>1, <1>2, <1>3, <1>4, StageChain
  <2>2. Without(Len(chain) + 1) /\ Len(chain) + 1 \notin DOMAIN chain
    BY <1>1, WithoutNone DEF TypeOK
  <2> QED
    BY <1>1, <2>1, <2>2, WithoutChain
<1>7. LosingInv'
  BY <1>1, <1>3 DEF LosingInv, Losing, Queued, identity
<1>8. PendingInv'
  BY <1>1, <1>2 DEF PendingInv, PendingEntry, PendingLive, PendingInit, ReadsPending, Queued, identity, Stays
<1>9. TypeOK'
  BY <1>1, <1>2, <1>3 DEF TypeOK, SessionRec, identity
<1> QED
  BY <1>5, <1>6, <1>7, <1>8, <1>9 DEF IInv

LEMMA RetireFailsKeeps ==
  ASSUME Inv, NEW c \in Callers, RetireFails(c)
  PROVE  TypeOK' /\ IInv'
<1>1. /\ TypeOK /\ ChainInv /\ LosingInv /\ PendingInv
      /\ sessions[c].stage = "retiring" /\ sessions[c].init = "failed"
      /\ UNCHANGED identity /\ chain' = chain /\ left' = left /\ live' = live /\ calls' = calls
      /\ sessions' = [sessions EXCEPT ![c].stage = "stranded"] /\ Forget(c)
  BY DEF RetireFails, Inv, IInv
<1>2. sessions' \in [Callers -> SessionRec] /\ Stays(c, "stranded")
  BY <1>1, StageIs DEF Stays
<1>3. calls' \in [Callers -> Call] /\ \A d \in Callers : Ends(d)
  BY <1>1 DEF TypeOK, Ends
<1>4. Moves(c, "stranded")
  BY <1>1 DEF Moves
<1>5. PlacesInv' /\ SessionInv' /\ RegistryInv' /\ OwnerInv' /\ WantedInv' /\ EntryInv' /\ HolderInv' /\ VetoInv'
  BY <1>1, <1>2, <1>3, <1>4, StageMoves
<1>6. ChainInv'
  <2>1. \A o \in Op : OpInv(o) => ~(o.by = c /\ o.op \in {"created", "seed", "drain"})
    BY <1>1 DEF OpInv
  <2>2. \A o \in Op : OpInv(o) => OpInv(o)'
    BY <1>1, <1>2, <1>3, <1>4, <2>1, StageChain
  <2>3. Without(Len(chain) + 1) /\ Len(chain) + 1 \notin DOMAIN chain
    BY <1>1, WithoutNone DEF TypeOK
  <2> QED
    BY <1>1, <2>2, <2>3, WithoutChain
<1>7. LosingInv'
  BY <1>1 DEF LosingInv, Losing, Queued, identity
<1>8. PendingInv'
  <2>1. Unattached' = Unattached
    BY <1>1, <1>2 DEF Unattached, Stays, TypeOK
  <2> QED
    BY <1>1, <1>2, <2>1 DEF PendingInv, PendingEntry, PendingLive, PendingInit, ReadsPending, Queued,
                            identity, Stays
<1>9. TypeOK'
  <2>1. retiring' \in Callers \cup {nobody}
    BY <1>1 DEF Forget, TypeOK
  <2> QED
    BY <1>1, <1>2, <2>1 DEF TypeOK, SessionRec, identity
<1> QED
  BY <1>5, <1>6, <1>7, <1>8, <1>9 DEF IInv

LEMMA RetireQueuedKeeps ==
  ASSUME Inv, NEW c \in Callers, RetireQueued(c)
  PROVE  TypeOK' /\ IInv'
<1>1. /\ TypeOK /\ ChainInv /\ LosingInv /\ PendingInv
      /\ sessions[c].stage = "retiring" /\ sessions[c].init = "ok" /\ ~Unsaved(c) /\ ~Queued("drain", c)
      /\ UNCHANGED identity /\ left' = left /\ live' = live /\ calls' = calls /\ retiring' = retiring
      /\ sessions' = [sessions EXCEPT ![c].stage = "leaving"] /\ Enqueued("retire", c, 0)
  BY DEF RetireQueued, Inv, IInv
<1>2. sessions' \in [Callers -> SessionRec] /\ Stays(c, "leaving")
  BY <1>1, StageIs DEF Stays
<1>3. calls' \in [Callers -> Call] /\ \A d \in Callers : Ends(d)
  BY <1>1 DEF TypeOK, Ends
<1>4. Moves(c, "leaving")
  BY <1>1 DEF Moves
<1>5. PlacesInv' /\ SessionInv' /\ RegistryInv' /\ OwnerInv' /\ WantedInv' /\ EntryInv' /\ HolderInv' /\ VetoInv'
  BY <1>1, <1>2, <1>3, <1>4, StageMoves
<1>6. ChainInv'
  <2>1. \A o \in Op : (\E j \in DOMAIN chain : chain[j] = o) /\ OpInv(o)
                        => ~(o.by = c /\ o.op \in {"created", "seed", "drain"})
    BY <1>1 DEF OpInv, Queued
  <2>2. \A o \in Op : (\E j \in DOMAIN chain : chain[j] = o) /\ OpInv(o) => OpInv(o)'
    BY <1>1, <1>2, <1>3, <1>4, <2>1, StageChain
  <2>3. OpInv([op |-> "retire", by |-> c, n |-> 0])'
    <3>1. Len(sessions[c].events) <= tracked.cursor
      <4>1. Len(sessions[c].events) \in Nat /\ tracked.cursor \in Nat
        BY <1>1 DEF TypeOK
      <4> QED
        BY <1>1, <4>1 DEF Unsaved
    <3> QED
      BY <1>1, <1>2, <3>1 DEF OpInv, Owns, Stays, identity
  <2>4. ~Queued("retire", c)
    <3>1. \A i \in DOMAIN chain : chain[i].op = "retire" => sessions[chain[i].by].stage = "leaving"
      BY <1>1 DEF ChainInv, OpInv
    <3> QED
      BY <1>1, <3>1 DEF Queued
  <2> QED
    BY <1>1, <2>2, <2>3, <2>4, EnqueuedChain
<1>7. LosingInv'
  BY <1>1, EnqueuedLosing DEF identity, Losing
<1>8. PendingInv'
  <2>1. KeepsPending /\ SameEntry
    BY <1>1, <1>2 DEF KeepsPending, Stays, SameEntry, identity, Unattached, TypeOK
  <2> QED
    BY <1>1, <2>1, EnqueuedPending
<1>9. TypeOK'
  <2>1. chain' \in Seq(Op)
    BY <1>1, EnqueuedIs DEF TypeOK
  <2> QED
    BY <1>1, <1>2, <2>1 DEF TypeOK, SessionRec, identity
<1> QED
  BY <1>5, <1>6, <1>7, <1>8, <1>9 DEF IInv

LEMMA RetireKeeps ==
  ASSUME Inv, NEW c \in Callers, Retire(c)
  PROVE  TypeOK' /\ IInv'
<1>1. /\ TypeOK /\ PlacesInv /\ SessionInv /\ RegistryInv /\ OwnerInv /\ WantedInv /\ EntryInv /\ HolderInv
      /\ LosingInv /\ ChainInv /\ PendingInv
      /\ First("retire", c) /\ Forget(c)
      /\ tracked' = (IF Owns(c) THEN Untracked ELSE tracked)
      /\ sessions' = [sessions EXCEPT ![c].stage = "retired"]
      /\ stored' = stored /\ entry' = entry /\ calls' = calls /\ live' = live /\ left' = left
  BY DEF Retire, Inv, IInv
<1>2. /\ Without(1) /\ 1 \in DOMAIN chain /\ chain[1].op = "retire" /\ chain[1].by = c
  BY <1>1, WithoutFirst DEF TypeOK
<1>3. sessions[c].stage = "leaving" /\ sessions[c].init = "ok"
  BY <1>1, <1>2 DEF ChainInv, OpInv
<1>4. /\ sessions' \in [Callers -> SessionRec]
      /\ \A d \in Callers :
           /\ sessions'[d].events = sessions[d].events /\ sessions'[d].seeded = sessions[d].seeded
           /\ sessions'[d].init = sessions[d].init
           /\ sessions'[d].stage = IF d = c THEN "retired" ELSE sessions[d].stage
  BY <1>1, StageIs
<1>5. \/ tracked.owner = c /\ tracked'.owner = nobody /\ ~tracked'.known
      \/ tracked.owner # c /\ tracked' = tracked
  BY <1>1 DEF Owns, Untracked
<1>6. TypeOK'
  <2>1. tracked' \in [known : BOOLEAN, cursor : Nat, owner : Callers \cup {nobody}]
    BY <1>1 DEF TypeOK, Untracked
  <2>2. retiring' \in Callers \cup {nobody}
    BY <1>1 DEF Forget, TypeOK
  <2>3. chain' \in Seq(Op)
    BY <1>2 DEF Without
  <2> QED
    BY <1>1, <1>4, <2>1, <2>2, <2>3 DEF TypeOK, SessionRec
<1>7. PlacesInv' /\ SessionInv'
  BY <1>1, <1>3, <1>4 DEF PlacesInv, SessionInv
<1>8. RegistryInv'
  <2>1. (live # nobody => live \in Callers) /\ (retiring # nobody => retiring \in Callers)
    BY <1>1 DEF TypeOK
  <2>2. retiring' \in {retiring, nobody} /\ (retiring' = c => c = nobody)
    BY <1>1 DEF Forget
  <2> QED
    BY <1>1, <1>3, <1>4, <2>1, <2>2, PreparationsAssumption DEF RegistryInv
<1>9. OwnerInv'
  <2>1. tracked.owner # nobody => tracked.owner \in Callers
    BY <1>1 DEF TypeOK
  <2>2. \A i \in DOMAIN stored : stored[i].by \in Callers => sessions'[stored[i].by].init = "ok"
    BY <1>1, <1>4 DEF OwnerInv
  <2>3. CASE tracked.owner = c /\ tracked'.owner = nobody /\ ~tracked'.known
    BY <1>1, <2>2, <2>3 DEF OwnerInv
  <2>4. CASE tracked.owner # c /\ tracked' = tracked
    BY <1>1, <1>4, <2>1, <2>2, <2>4 DEF OwnerInv
  <2> QED
    BY <1>5, <2>3, <2>4
<1>10. WantedInv'
  <2>1. live # nobody => live \in Callers
    BY <1>1 DEF TypeOK
  <2>2. CASE tracked.owner = c
    BY <1>1, <1>3, <1>4, <2>1, <2>2 DEF WantedInv, Owns, RegistryInv
  <2>3. CASE tracked.owner # c
    BY <1>1, <1>4, <1>5, <2>1, <2>3 DEF WantedInv, Owns
  <2> QED
    BY <2>2, <2>3
<1>16. Unattached' <=> Unattached
  BY <1>1, <1>3, <1>4, UnattachedSame
<1>17. VetoInv'
  BY <1>1, <1>3, <1>4, VetoStays
<1>11. EntryInv'
  BY <1>1, <1>5, <1>16 DEF EntryInv, Exclusive
<1>12. HolderInv'
  <2>1. Settled => Settled'
    BY <1>1, <1>5, PreparationsAssumption DEF Settled
  <2> QED
    BY <1>1, <1>3, <1>4, <2>1 DEF HolderInv
<1>13. ChainInv'
  <2>1. ASSUME NEW o \in Op, OpInv(o), ~SameOp(o, chain[1]) PROVE OpInv(o)'
    <3>1. CASE o.op \in {"read", "commit", "check"}
      BY <1>1, <2>1, <3>1 DEF OpInv, At
    <3>2. CASE o.op \in {"created", "seed", "drain"}
      <4>1. o.by \in Callers /\ Started(o.by) /\ o.by # c
        BY <1>3, <2>1, <3>2 DEF OpInv, Started
      <4>2. o.op # "created" => tracked' = tracked
        BY <1>5, <2>1, <3>2, <4>1 DEF OpInv, Owns
      <4>3. ~Owns(o.by) => ~Owns(o.by)'
        BY <1>5, <4>1, PreparationsAssumption DEF Owns
      <4> QED
        BY <1>4, <2>1, <3>2, <4>1, <4>2, <4>3 DEF OpInv, Owns, Started
    <3>3. CASE o.op = "retire"
      <4>1. o.by \in Callers /\ o.by # c
        BY <1>2, <2>1, <3>3 DEF OpInv, SameOp
      <4> QED
        BY <1>4, <1>5, <2>1, <3>3, <4>1, PreparationsAssumption DEF OpInv, Owns
    <3> QED
      BY <3>1, <3>2, <3>3 DEF Op
  <2> QED
    BY <1>1, <1>2, <2>1, WithoutChain
<1>14. LosingInv'
  <2>1. tracked' \in [known : BOOLEAN, cursor : Nat, owner : Callers \cup {nobody}]
    BY <1>6 DEF TypeOK
  <2>2. ASSUME NEW d \in Callers, Losing(d), tracked.owner = c PROVE FALSE
    <3>1. PICK j \in DOMAIN chain : chain[j].op = "commit" /\ chain[j].by = d
      BY <1>1, <2>2 DEF LosingInv, Losing, Queued
    <3>2. j < 1
      BY <1>1, <1>2, <2>2, <3>1 DEF LosingInv
    <3>3. DOMAIN chain = 1 .. Len(chain) /\ Len(chain) \in Nat
      BY <1>1, ChainNats DEF TypeOK
    <3> QED
      BY <3>1, <3>2, <3>3
  <2>3. \A d \in Callers : Losing(d)' => Losing(d) /\ tracked' = tracked
    BY <1>1, <1>5, <2>2 DEF Losing
  <2>4. tracked.cursor >= tracked.cursor
    BY <1>1 DEF TypeOK
  <2> QED
    BY <1>1, <1>2, <2>1, <2>3, <2>4, WithoutLosing
<1>15. PendingInv'
  <2>1. KeepsPending /\ SameEntry
    BY <1>1, <1>4, <1>16 DEF KeepsPending, SameEntry
  <2> QED
    BY <1>1, <1>2, <2>1, WithoutPending
<1> QED
  BY <1>6, <1>7, <1>8, <1>9, <1>10, <1>11, <1>12, <1>13, <1>14, <1>15, <1>17 DEF IInv

\* The flushes that a failed append makes reject.
LEMMA FlushersRejected ==
  ASSUME Inv, NEW c \in Callers,
         calls' = [d \in Callers |-> IF At(d, "flushing") /\ calls[d].awaits = c
                                     THEN Rejected(d, calls)[d] ELSE calls[d]]
  PROVE  /\ calls' \in [Callers -> Call] /\ \A d \in Callers : Ends(d)
         /\ \A d \in Callers : calls'[d] = calls[d] \/
              (calls[d].at = "flushing" /\ calls'[d].at = "failed" /\ calls'[d].kind = calls[d].kind
                 /\ calls'[d].known = <<>>)
<1>1. calls \in [Callers -> Call]
  BY DEF Inv, TypeOK
<1>2. ASSUME NEW d \in Callers
      PROVE  /\ calls'[d] \in Call
             /\ calls'[d] = calls[d] \/
                  (calls[d].at = "flushing" /\ calls'[d].at = "failed" /\ calls'[d].kind = calls[d].kind
                     /\ calls'[d].known = <<>>)
  <2>1. CASE calls[d].at = "flushing" /\ calls[d].awaits = c
    <3>1. calls[d].kind = "load"
      BY <2>1, PlaceSays, PlacesAre DEF CallKinds
    <3>2. calls'[d] = Rejected(d, calls)[d]
      BY <2>1 DEF At
    <3>3. /\ Rejected(d, calls)[d] \in Call /\ Rejected(d, calls)[d].kind = calls[d].kind
          /\ Rejected(d, calls)[d].at = "failed" /\ Rejected(d, calls)[d].known = <<>>
      BY <1>1, <3>1, RejectedIs
    <3> QED
      BY <2>1, <3>2, <3>3
  <2>2. CASE ~(calls[d].at = "flushing" /\ calls[d].awaits = c)
    BY <1>1, <2>2 DEF At
  <2> QED
    BY <2>1, <2>2
<1>3. calls' = [d \in Callers |-> calls'[d]]
  OBVIOUS
<1>4. calls' \in [Callers -> Call]
  BY <1>2, <1>3
<1> QED
  BY <1>2, <1>4 DEF Ends

LEMMA DrainFailsKeeps ==
  ASSUME Inv, NEW c \in Callers, DrainFails(c)
  PROVE  TypeOK' /\ IInv'
<1>1. /\ TypeOK /\ ChainInv /\ LosingInv /\ PendingInv
      /\ First("drain", c) /\ UNCHANGED identity /\ live' = live
  BY DEF DrainFails, Inv, IInv
<1>2. /\ Without(1) /\ 1 \in DOMAIN chain /\ chain[1].op = "drain" /\ chain[1].by = c
  BY <1>1, WithoutFirst DEF TypeOK
<1>3. sessions[c].init = "ok"
  BY <1>1, <1>2 DEF ChainInv, OpInv
<1>4. left' \in [Kinds -> Nat]
  <2>1. left' = left \/ Spend("mishap")
    BY DEF DrainFails
  <2> QED
    BY <1>1, <2>1, SpendIs DEF Kinds, TypeOK
<1>5. calls' \in [Callers -> Call] /\ \A d \in Callers : Ends(d)
  BY FlushersRejected DEF DrainFails
<1>6. PICK s : sessions' \in [Callers -> SessionRec] /\ Stays(c, s) /\ Moves(c, s)
  <2>1. CASE sessions[c].stage = "retiring"
    <3>1. sessions' = [sessions EXCEPT ![c].stage = "stranded"] /\ Forget(c)
      BY <2>1 DEF DrainFails
    <3>2. sessions' \in [Callers -> SessionRec] /\ Stays(c, "stranded")
      BY <1>1, <3>1, StageIs DEF Stays
    <3>3. Moves(c, "stranded")
      BY <1>1, <2>1, <3>1 DEF Moves
    <3> QED
      BY <3>2, <3>3
  <2>2. CASE sessions[c].stage # "retiring"
    <3>1. sessions' = sessions /\ retiring' = retiring
      BY <2>2 DEF DrainFails
    <3>2. sessions' \in [Callers -> SessionRec] /\ Stays(c, sessions[c].stage)
      BY <1>1, <3>1 DEF Stays, TypeOK, SessionRec
    <3>3. Moves(c, sessions[c].stage)
      BY <1>1, <3>1 DEF Moves
    <3> QED
      BY <3>2, <3>3
  <2> QED
    BY <2>1, <2>2
<1>7. PlacesInv' /\ SessionInv' /\ RegistryInv' /\ OwnerInv' /\ WantedInv' /\ EntryInv' /\ HolderInv' /\ VetoInv'
  BY <1>1, <1>5, <1>6, StageMoves
<1>8. ChainInv'
  <2>1. \A o \in Op : OpInv(o) /\ ~SameOp(o, chain[1]) => ~(o.by = c /\ o.op \in {"created", "seed", "drain"})
    BY <1>2, <1>3 DEF OpInv, SameOp
  <2>2. \A o \in Op : OpInv(o) /\ ~SameOp(o, chain[1]) => OpInv(o)'
    BY <1>1, <1>5, <1>6, <2>1, StageChain
  <2> QED
    BY <1>1, <1>2, <2>2, WithoutChain
<1>9. \A d \in Callers : calls'[d].at = "committing" => calls[d].at = "committing"
  BY <1>5 DEF Ends
<1>10. LosingInv'
  <2>1. /\ tracked' = tracked /\ entry' = entry
        /\ tracked' \in [known : BOOLEAN, cursor : Nat, owner : Callers \cup {nobody}]
        /\ tracked'.cursor >= tracked.cursor
    BY <1>1 DEF TypeOK, identity
  <2>2. \A d \in Callers : Losing(d)' => Losing(d)
    BY <1>9, <2>1 DEF Losing
  <2> QED
    BY <1>1, <1>2, <1>9, <2>1, <2>2, WithoutLosing
<1>11. PendingInv'
  <2>1. KeepsPending /\ SameEntry
    <3>1. Unattached => Unattached'
      <4>1. SUFFICES ASSUME live \in Callers, sessions[live].stage = "vetoed"
                     PROVE  sessions'[live].stage = "vetoed"
        BY <1>1 DEF Unattached, TypeOK
      <4>2. c = live => s = "vetoed"
        BY <1>1, <1>6, <4>1, PreparationsAssumption DEF Moves
      <4> QED
        BY <1>6, <4>1, <4>2 DEF Stays
    <3> QED
      BY <1>1, <1>6, <3>1 DEF KeepsPending, Stays, SameEntry, identity
  <2> QED
    BY <1>1, <1>2, <2>1, WithoutPending
<1>12. TypeOK'
  <2>1. retiring' \in Callers \cup {nobody}
    BY <1>1, <1>6 DEF Moves, Forget, TypeOK
  <2>2. chain' \in Seq(Op)
    BY <1>2 DEF Without
  <2> QED
    BY <1>1, <1>4, <1>5, <1>6, <2>1, <2>2 DEF TypeOK, SessionRec, identity
<1> QED
  BY <1>7, <1>8, <1>10, <1>11, <1>12 DEF IInv
-----------------------------------------------------------------------------
(* The commit of a reservation, and the writes into a log that nobody owns *)

\* A commit that finds the log unowned still has its entry.
LEMMA CommitHolds ==
  ASSUME Inv, NEW c \in Callers, First("commit", c), tracked.owner = nobody
  PROVE  /\ calls[c].at = "committing" /\ entry.holder = c /\ entry.phase = "committing"
         /\ entry.source # <<>> /\ entry.added = <<>> /\ sessions[c].stage = "none"
         /\ live = nobody \/ Unattached
         /\ Without(1) /\ 1 \in DOMAIN chain /\ chain[1].op = "commit" /\ chain[1].by = c
         /\ calls[c].kind \in {"resume", "configured", "load"}
<1>1. TypeOK /\ ChainInv /\ LosingInv /\ HolderInv /\ EntryInv
  BY DEF Inv, IInv
<1>2. Without(1) /\ 1 \in DOMAIN chain /\ chain[1].op = "commit" /\ chain[1].by = c
  BY <1>1, WithoutFirst DEF TypeOK
<1>3. calls[c].at = "committing"
  BY <1>1, <1>2 DEF ChainInv, OpInv, At
<1>4. entry.holder = c
  BY <1>1, <1>3 DEF LosingInv, Losing
<1>5. entry.phase = "committing" /\ sessions[c].stage = "none"
  BY <1>1, <1>3, <1>4, PlaceSays DEF HolderInv, Published
<1>6. entry.source # <<>> /\ entry.added = <<>> /\ (live = nobody \/ Unattached)
  BY <1>1, <1>5 DEF EntryInv, NoEntry
<1>7. calls[c].kind \in {"resume", "configured", "load"}
  BY <1>3, PlaceSays, PlacesAre DEF CallKinds
<1> QED
  BY <1>2, <1>3, <1>4, <1>5, <1>6, <1>7

\* No operation of the chain depends on a log that is and stays unowned.
LEMMA WithoutOwner ==
  ASSUME TypeOK, tracked.owner = nobody, tracked'.owner = nobody, sessions' = sessions,
         NEW o \in Op, OpInv(o),
         o.op = "commit" => calls'[o.by].at = "committing",
         o.op = "check" => calls'[o.by].at = "checking"
  PROVE  OpInv(o)'
<1>1. \A d \in Callers : ~Owns(d) /\ ~Owns(d)'
  BY PreparationsAssumption DEF Owns
<1> QED
  BY <1>1 DEF OpInv, At, Started

LEMMA CommitKeeps ==
  ASSUME Inv, NEW c \in Callers, Commit(c)
  PROVE  TypeOK' /\ IInv'
<1>1. /\ TypeOK /\ PlacesInv /\ SessionInv /\ RegistryInv /\ OwnerInv /\ WantedInv /\ EntryInv /\ HolderInv
      /\ LosingInv /\ ChainInv /\ PendingInv
      /\ First("commit", c) /\ tracked.owner = nobody
      /\ entry.source = stored /\ ~Interrupted(entry.source)
      /\ tracked' = Tracks(Len(Balanced(entry.source)), nobody) /\ calls' = Goes(c, "committed")
      /\ stored' = stored /\ entry' = entry /\ sessions' = sessions /\ live' = live
      /\ retiring' = retiring /\ left' = left
  BY DEF Commit, SourceCurrent, Inv, IInv
<1>2. /\ calls[c].at = "committing" /\ entry.holder = c /\ entry.phase = "committing"
      /\ entry.source # <<>> /\ entry.added = <<>> /\ sessions[c].stage = "none"
      /\ live = nobody \/ Unattached
      /\ Without(1) /\ 1 \in DOMAIN chain /\ chain[1].op = "commit" /\ chain[1].by = c
      /\ calls[c].kind \in {"resume", "configured", "load"}
  BY <1>1, CommitHolds
<1>3. /\ Turn(c, calls') /\ calls'[c].at = "committed" /\ calls'[c].kind = calls[c].kind
      /\ \A d \in Callers : d # c => calls'[d] = calls[d]
  BY <1>1, GoesTo
<1>4. /\ tracked'.known /\ tracked'.cursor = Len(stored) /\ tracked'.owner = nobody
      /\ tracked' \in [known : BOOLEAN, cursor : Nat, owner : Callers \cup {nobody}]
  <2>1. Balanced(entry.source) = stored
    BY <1>1, BalancedIs DEF TypeOK
  <2>2. tracked' = [known |-> TRUE, cursor |-> Len(stored), owner |-> nobody]
    BY <1>1, <2>1 DEF Tracks
  <2>3. Len(stored) \in Nat
    BY <1>1 DEF TypeOK
  <2> QED
    BY <2>2, <2>3
<1>5. 0 < Len(stored) /\ Len(stored) <= Len(stored)
  BY <1>1, <1>2, EmptySeq DEF TypeOK
<1>6. calls'[c].at \in Places(calls[c].kind)
  BY <1>2, <1>3, PlacesAre
<1>7. PlacesInv' /\ SessionInv' /\ RegistryInv'
  BY <1>1, <1>2, <1>3, <1>6, CallsKeep
<1>8. OwnerInv'
  BY <1>1, <1>4, <1>5 DEF OwnerInv
<1>9. WantedInv'
  BY <1>1, <1>4 DEF WantedInv, Owns
<1>17. Unattached' <=> Unattached
  BY <1>1, UnattachedSame
<1>18. VetoInv'
  BY <1>1, <1>2, <1>3, VetoKept
<1>10. EntryInv'
  BY <1>1, <1>2, <1>3, <1>4, <1>17 DEF EntryInv, Exclusive
<1>11. Settled'
  BY <1>1, <1>4 DEF Settled
<1>12. HolderInv'
  BY <1>1, <1>2, <1>3, <1>11 DEF HolderInv
<1>13. ChainInv'
  <2>1. ASSUME NEW o \in Op, OpInv(o), ~SameOp(o, chain[1]) PROVE OpInv(o)'
    <3>1. /\ o.op = "commit" => calls'[o.by].at = "committing"
          /\ o.op = "check" => calls'[o.by].at = "checking"
      BY <1>2, <1>3, <2>1 DEF OpInv, At, SameOp
    <3> QED
      BY <1>1, <1>4, <2>1, <3>1, WithoutOwner
  <2> QED
    BY <1>1, <1>2, <2>1, WithoutChain
<1>14. LosingInv'
  <2>1. \A d \in Callers : ~Losing(d)'
    BY <1>1, <1>3 DEF Losing, LosingInv
  <2> QED
    BY <1>1, <1>2, <1>3, <1>4, <2>1, WithoutLosing
<1>15. PendingInv'
  <2>1. KeepsPending /\ SameEntry
    BY <1>1, <1>17 DEF KeepsPending, SameEntry
  <2> QED
    BY <1>1, <1>2, <2>1, WithoutPending
<1>16. TypeOK'
  <2>1. chain' \in Seq(Op) /\ calls' \in [Callers -> Call]
    BY <1>2, <1>3 DEF Without, Turn
  <2> QED
    BY <1>1, <1>4, <2>1 DEF TypeOK
<1> QED
  BY <1>7, <1>8, <1>9, <1>10, <1>12, <1>13, <1>14, <1>15, <1>16, <1>18 DEF IInv

\* Another process, or recovery, extends a log that nobody owns here.
LEMMA UnownedGrows ==
  ASSUME Inv, tracked.owner = nobody, tracked' = tracked, sessions' = sessions, live' = live,
         NEW e \in Event, e.by \notin Callers, stored' = Append(stored, e) \/ stored' = stored
  PROVE  OwnerInv' /\ WantedInv' /\ stored' \in Seq(Event) /\ (stored # <<>> => stored' # <<>>)
         /\ IsPrefix(stored, stored')
<1>1. TypeOK /\ OwnerInv /\ WantedInv /\ stored \in Seq(Event)
  BY DEF Inv, IInv, TypeOK
<1>2. CASE stored' = stored
  <2>1. OwnerInv' /\ WantedInv'
    BY <1>1, <1>2 DEF OwnerInv, WantedInv, Owns
  <2> QED
    BY <1>1, <1>2, <2>1, PrefixOrder
<1>3. CASE stored' = Append(stored, e)
  <2>1. /\ stored' \in Seq(Event) /\ Len(stored') = Len(stored) + 1 /\ Len(stored) \in Nat
        /\ DOMAIN stored' = 1 .. Len(stored) + 1 /\ DOMAIN stored = 1 .. Len(stored)
        /\ \A i \in 1 .. Len(stored) : stored'[i] = stored[i]
        /\ stored'[Len(stored) + 1] = e
    BY <1>1, <1>3, AppendProperties, LenProperties
  <2>2. stored' # <<>>
    BY <2>1, EmptySeq
  <2>3. \A i \in DOMAIN stored' : stored'[i].by \in Callers => sessions[stored'[i].by].init = "ok"
    <3>1. \A i \in DOMAIN stored' : i \in DOMAIN stored \/ i = Len(stored) + 1
      BY <2>1
    <3> QED
      BY <1>1, <2>1, <3>1 DEF OwnerInv
  <2>4. OwnerInv'
    <3>1. tracked.known => 0 < tracked.cursor /\ tracked.cursor <= Len(stored')
      <4>1. tracked.cursor \in Nat
        BY <1>1 DEF TypeOK
      <4> QED
        BY <1>1, <2>1, <4>1 DEF OwnerInv
    <3> QED
      BY <1>1, <2>3, <3>1 DEF OwnerInv
  <2>5. WantedInv'
    BY <1>1 DEF WantedInv, Owns
  <2>6. IsPrefix(stored, stored')
    BY <1>1, <1>3, PrefixOrder
  <2> QED
    BY <2>1, <2>2, <2>4, <2>5, <2>6
<1> QED
  BY <1>2, <1>3

LEMMA OtherWritesKeeps ==
  ASSUME Inv, OtherWrites
  PROVE  TypeOK' /\ IInv'
<1>1. /\ TypeOK /\ PlacesInv /\ SessionInv /\ RegistryInv /\ OwnerInv /\ WantedInv /\ EntryInv /\ HolderInv
      /\ LosingInv /\ ChainInv /\ PendingInv
      /\ tracked.owner = nobody /\ entry.phase # "reserved" /\ \A c \in Callers : calls[c].at # "committed"
      /\ tracked' = tracked /\ entry' = entry /\ chain' = chain /\ calls' = calls /\ sessions' = sessions
      /\ live' = live /\ retiring' = retiring
  BY DEF OtherWrites, Inv, IInv, At
<1>2. left' \in [Kinds -> Nat]
  BY <1>1, SpendIs DEF OtherWrites, Kinds
<1>3. PICK e \in Event : e.by \notin Callers /\ stored' = Append(stored, e)
  <2>1. PICK kind \in {"start", "end"} : stored' = Append(stored, [by |-> "other", kind |-> kind])
    BY DEF OtherWrites
  <2>2. [by |-> "other", kind |-> kind] \in Event /\ "other" \notin Callers
    BY PreparationsAssumption DEF Event
  <2> QED
    BY <2>1, <2>2
<1>4. OwnerInv' /\ WantedInv' /\ stored' \in Seq(Event) /\ (stored # <<>> => stored' # <<>>)
  BY <1>1, <1>3, UnownedGrows
<1>5. PlacesInv' /\ SessionInv' /\ RegistryInv'
  BY <1>1, <1>4 DEF PlacesInv, SessionInv, RegistryInv
<1>9. Unattached' <=> Unattached
  BY <1>1, UnattachedSame
<1>6. EntryInv' /\ HolderInv' /\ VetoInv'
  <2>1. VetoInv'
    BY <1>1, VetoStays
  <2> QED
    BY <1>1, <1>9, <2>1 DEF EntryInv, HolderInv, Exclusive, Settled
<1>7. ChainInv' /\ LosingInv' /\ PendingInv'
  BY <1>1, <1>9 DEF ChainInv, OpInv, At, Owns, Started, LosingInv, Losing, Queued,
              PendingInv, PendingEntry, PendingLive, PendingInit, ReadsPending
<1>8. TypeOK'
  BY <1>1, <1>2, <1>4 DEF TypeOK
<1> QED
  BY <1>4, <1>5, <1>6, <1>7, <1>8 DEF IInv

\* The call that reads again: it waits for the retirement that is under way.
LEMMA AgainIs ==
  ASSUME TypeOK, NEW c \in Callers
  PROVE  LET t == [calls EXCEPT ![c].at = "waiting", ![c].entry = 0, ![c].source = <<>>,
                                ![c].awaits = retiring] IN
         /\ t \in [Callers -> Call] /\ \A d \in Callers : d # c => t[d] = calls[d]
         /\ t[c].at = "waiting" /\ t[c].kind = calls[c].kind /\ t[c].source = <<>>
         /\ t[c].known = calls[c].known /\ t[c].awaits = retiring
         /\ t[c].aborted = calls[c].aborted /\ t[c].borrowed = calls[c].borrowed
<1> DEFINE r == [calls[c] EXCEPT !.at = "waiting", !.entry = 0, !.source = <<>>, !.awaits = retiring]
           g == [calls EXCEPT ![c] = r]
<1>1. calls \in [Callers -> Call] /\ <<>> \in Seq(Event) /\ retiring \in Callers \cup {nobody}
  BY EmptySeq DEF TypeOK
<1>2. /\ r \in Call /\ r.at = "waiting" /\ r.kind = calls[c].kind /\ r.source = <<>>
      /\ r.known = calls[c].known /\ r.awaits = retiring
      /\ r.aborted = calls[c].aborted /\ r.borrowed = calls[c].borrowed
  BY <1>1 DEF Call
<1>3. [calls EXCEPT ![c].at = "waiting", ![c].entry = 0, ![c].source = <<>>, ![c].awaits = retiring] = g
  OBVIOUS
<1> HIDE DEF r
<1>4. g \in [Callers -> Call] /\ g[c] = r /\ \A d \in Callers : d # c => g[d] = calls[d]
  BY <1>1, <1>2, UpdateIs
<1> HIDE DEF g
<1> QED
  BY <1>2, <1>3, <1>4

LEMMA CommitRestartsKeeps ==
  ASSUME Inv, NEW c \in Callers, CommitRestarts(c)
  PROVE  TypeOK' /\ IInv'
<1>1. /\ TypeOK /\ PlacesInv /\ SessionInv /\ RegistryInv /\ OwnerInv /\ WantedInv /\ EntryInv /\ HolderInv
      /\ LosingInv /\ ChainInv /\ PendingInv
      /\ First("commit", c) /\ tracked.owner = nobody
      /\ tracked' = tracked /\ sessions' = sessions /\ live' = live /\ retiring' = retiring /\ left' = left
      /\ UNCHANGED <<sessions, live, retiring>>
  BY DEF CommitRestarts, Inv, IInv
<1>2. /\ calls[c].at = "committing" /\ entry.holder = c /\ entry.phase = "committing"
      /\ entry.source # <<>> /\ entry.added = <<>> /\ sessions[c].stage = "none"
      /\ live = nobody \/ Unattached
      /\ Without(1) /\ 1 \in DOMAIN chain /\ chain[1].op = "commit" /\ chain[1].by = c
      /\ calls[c].kind \in {"resume", "configured", "load"}
  BY <1>1, CommitHolds
<1> DEFINE again == [calls EXCEPT ![c].at = "waiting", ![c].entry = 0, ![c].source = <<>>,
                                  ![c].awaits = retiring]
<1>3. /\ again \in [Callers -> Call] /\ \A d \in Callers : d # c => again[d] = calls[d]
      /\ again[c].at = "waiting" /\ again[c].kind = calls[c].kind
  BY <1>1, AgainIs
<1>4. RemovedFor(c, again)
  BY DEF CommitRestarts
<1> HIDE DEF again
<1>5. /\ Turn(c, calls') /\ calls'[c] = again[c] /\ entry' = NoEntry
  BY <1>2, <1>3, <1>4, RemovedForIs DEF Turn
<1>6. PICK e \in Event : e.by \notin Callers /\ (stored' = Append(stored, e) \/ stored' = stored)
  <2>1. Closer \in Event /\ Closer.by \notin Callers
    BY PreparationsAssumption DEF Closer, Event
  <2>2. stored' = Append(stored, Closer) \/ stored' = stored
    BY DEF CommitRestarts, Balanced
  <2> QED
    BY <2>1, <2>2
<1>7. OwnerInv' /\ WantedInv' /\ stored' \in Seq(Event) /\ (stored # <<>> => stored' # <<>>)
  BY <1>1, <1>6, UnownedGrows
<1>8. calls'[c].at \in Places(calls[c].kind)
  BY <1>2, <1>3, <1>5, PlacesAre
<1>9. PlacesInv' /\ SessionInv' /\ RegistryInv'
  BY <1>1, <1>2, <1>3, <1>5, <1>7, <1>8, CallsKeep
<1>10. \A d \in Callers : d # c =>
         /\ calls'[d].kind = calls[d].kind
         /\ calls'[d].at = calls[d].at \/ (calls[d].at = "queued" /\ calls'[d].at = "read")
  BY <1>1, <1>5, Others2 DEF Turn
<1>17. Unattached' <=> Unattached
  BY <1>1, UnattachedSame
<1>18. VetoInv'
  BY <1>1, <1>2, <1>5, VetoKept DEF NoEntry
<1>11. EntryInv'
  BY <1>1, <1>2, <1>5 DEF EntryInv, Exclusive, NoEntry
<1>12. HolderInv'
  <2>1. \A d \in Callers : d # c => calls[d].at \notin {"committed", "reserved"}
                              /\ (calls[d].at = "setup" => calls[d].kind = "create")
    BY <1>1, <1>2 DEF HolderInv
  <2>2. entry'.holder = nobody /\ entry'.phase = "none"
    BY <1>5 DEF NoEntry
  <2> QED
    BY <1>3, <1>5, <1>10, <2>1, <2>2, PreparationsAssumption DEF HolderInv
<1>13. ChainInv'
  <2>1. ASSUME NEW o \in Op, OpInv(o), ~SameOp(o, chain[1]) PROVE OpInv(o)'
    <3>1. /\ o.op = "commit" => calls'[o.by].at = "committing"
          /\ o.op = "check" => calls'[o.by].at = "checking"
      BY <1>2, <1>10, <2>1 DEF OpInv, At, SameOp
    <3> QED
      BY <1>1, <2>1, <3>1, WithoutOwner
  <2> QED
    BY <1>1, <1>2, <2>1, WithoutChain
<1>14. LosingInv'
  <2>1. \A d \in Callers : calls'[d].at = "committing" => calls[d].at = "committing" /\ d # c
    BY <1>3, <1>5, <1>10
  <2>2. \A d \in Callers : ~Losing(d)'
    BY <1>1, <1>2, <2>1 DEF Losing, LosingInv
  <2>3. tracked' \in [known : BOOLEAN, cursor : Nat, owner : Callers \cup {nobody}]
    BY <1>1 DEF TypeOK
  <2> QED
    BY <1>1, <1>2, <2>1, <2>2, <2>3, WithoutLosing
<1>15. PendingInv'
  <2>1. KeepsPending /\ NoEntryNow
    BY <1>1, <1>5, <1>17 DEF KeepsPending, NoEntryNow, NoEntry
  <2> QED
    BY <1>1, <1>2, <2>1, WithoutPending
<1>16. TypeOK'
  <2>1. chain' \in Seq(Op) /\ calls' \in [Callers -> Call]
    BY <1>2, <1>5 DEF Without, Turn
  <2> QED
    BY <1>1, <1>5, <1>7, <2>1, EntryTypes DEF TypeOK
<1> QED
  BY <1>7, <1>9, <1>11, <1>12, <1>13, <1>14, <1>15, <1>16, <1>18 DEF IInv
-----------------------------------------------------------------------------
(* What the owner of the log stores *)

LEMMA InitIs ==
  ASSUME TypeOK, NEW c \in Callers, NEW outcome \in {"none", "pending", "ok", "failed"},
         Initialised(c, outcome)
  PROVE  /\ sessions' \in [Callers -> SessionRec]
         /\ \A d \in Callers :
              /\ sessions'[d].events = sessions[d].events /\ sessions'[d].seeded = sessions[d].seeded
              /\ sessions'[d].stage = sessions[d].stage
              /\ sessions'[d].init = IF d = c THEN outcome ELSE sessions[d].init
<1>1. sessions \in [Callers -> SessionRec]
  BY DEF TypeOK, SessionRec
<1> DEFINE r == [sessions[c] EXCEPT !.init = outcome]
<1>2. /\ r \in SessionRec /\ r.events = sessions[c].events /\ r.seeded = sessions[c].seeded
      /\ r.stage = sessions[c].stage /\ r.init = outcome
  BY <1>1 DEF SessionRec
<1>3. sessions' = [sessions EXCEPT ![c] = r]
  BY DEF Initialised
<1> HIDE DEF r
<1> QED
  BY <1>2, <1>3, SessionUpdated

LEMMA LargerIs ==
  ASSUME NEW k \in Nat, NEW n \in Nat
  PROVE  LET m == IF n > k THEN n ELSE k IN
         m \in Nat /\ m >= n /\ m >= k /\ (n <= k => m = k) /\ (n > k => m = n)
OBVIOUS

\* The log with the events up to n of the Session that continues it.
LEMMA AppendedIs ==
  ASSUME TypeOK, NEW c \in Callers, NEW owner \in Callers, NEW n \in Nat, n <= Len(sessions[c].events),
         IsPrefix(stored, sessions[c].events), AppendsUpTo(c, Len(stored), n, owner)
  PROVE  /\ stored' \in Seq(Event) /\ IsPrefix(stored, stored') /\ IsPrefix(stored', sessions[c].events)
         /\ Len(stored) \in Nat /\ Len(stored') \in Nat /\ Len(stored) <= Len(stored') /\ n <= Len(stored')
         /\ tracked' \in [known : BOOLEAN, cursor : Nat, owner : Callers \cup {nobody}]
         /\ tracked'.known /\ tracked'.cursor = Len(stored') /\ tracked'.owner = owner
         /\ \A i \in DOMAIN stored' : i > Len(stored) => i \in DOMAIN sessions[c].events /\ stored'[i] = sessions[c].events[i]
         /\ \A i \in DOMAIN stored' : i <= Len(stored) => i \in DOMAIN stored /\ stored'[i] = stored[i]
         /\ \A i \in DOMAIN sessions[c].events : i \in Nat
         /\ \/ n <= Len(stored) /\ stored' = stored /\ calls' = calls /\ entry' = entry
            \/ n > Len(stored) /\ Len(stored') > 0 /\ calls' = Woken(calls) /\ entry' = NoEntry
                 /\ stored' = SubSeq(sessions[c].events, 1, n)
<1> DEFINE log == sessions[c].events
           m == IF n > Len(stored) THEN n ELSE Len(stored)
<1>1. stored \in Seq(Event) /\ log \in Seq(Event) /\ Len(stored) \in Nat /\ Len(log) \in Nat
      /\ DOMAIN log = 1 .. Len(log) /\ DOMAIN stored = 1 .. Len(stored)
  <2>1. stored \in Seq(Event) /\ log \in Seq(Event)
    BY DEF TypeOK
  <2> HIDE DEF log
  <2> QED
    BY <2>1, LenProperties
<1>14. m \in Nat /\ m >= n /\ m >= Len(stored) /\ (n <= Len(stored) => m = Len(stored)) /\ (n > Len(stored) => m = n)
  <2>1. Len(stored) \in Nat
    BY <1>1
  <2> QED
    BY <2>1, LargerIs, Zenon
<1>2. /\ stored' = stored \o SubSeq(log, Len(stored) + 1, n)
      /\ tracked' = Tracks(m, owner)
      /\ IF n > Len(stored) THEN Removed(calls) ELSE UNCHANGED <<entry, calls>>
  BY DEF AppendsUpTo, FreshBatch
<1> HIDE DEF log
<1>3. /\ stored' \in Seq(Event) /\ Len(stored') = m /\ IsPrefix(stored, stored') /\ IsPrefix(stored', log)
      /\ n <= Len(stored) => stored' = stored
      /\ n > Len(stored) => stored' = SubSeq(log, 1, n)
  <2>1. IsPrefix(stored, log) /\ n <= Len(log) /\ stored \in Seq(Event) /\ log \in Seq(Event)
    BY <1>1 DEF log
  <2>2. /\ stored \o SubSeq(log, Len(stored) + 1, n) \in Seq(Event)
        /\ Len(stored \o SubSeq(log, Len(stored) + 1, n)) = m
        /\ IsPrefix(stored, stored \o SubSeq(log, Len(stored) + 1, n))
        /\ IsPrefix(stored \o SubSeq(log, Len(stored) + 1, n), log)
        /\ n <= Len(stored) => stored \o SubSeq(log, Len(stored) + 1, n) = stored
        /\ n > Len(stored) => stored \o SubSeq(log, Len(stored) + 1, n) = SubSeq(log, 1, n)
    BY <2>1, Continued, Zenon
  <2> QED
    BY <1>2, <2>2
<1> HIDE DEF m
<1>4. DOMAIN stored' = 1 .. Len(stored') /\ Len(stored') \in Nat
  BY <1>3, LenProperties
<1>5. \A i \in 1 .. Len(stored') : stored'[i] = log[i]
  BY <1>1, <1>3, PrefixIs
<1>6. \A i \in 1 .. Len(stored) : stored'[i] = stored[i]
  BY <1>1, <1>3, PrefixIs
<1>7. Len(stored') <= Len(log)
  BY <1>1, <1>3, PrefixIs
<1>8. \A i \in DOMAIN stored' : i > Len(stored) => i \in DOMAIN log /\ stored'[i] = log[i]
  BY <1>1, <1>4, <1>5, <1>7
<1>9. \A i \in DOMAIN stored' : i <= Len(stored) => i \in DOMAIN stored /\ stored'[i] = stored[i]
  BY <1>1, <1>4, <1>6
<1>10. /\ tracked' \in [known : BOOLEAN, cursor : Nat, owner : Callers \cup {nobody}]
       /\ tracked'.known /\ tracked'.cursor = m /\ tracked'.owner = owner
  <2>1. tracked' = [known |-> TRUE, cursor |-> m, owner |-> owner]
    BY <1>2 DEF Tracks
  <2> QED
    BY <1>14, <2>1
<1>11. \/ n <= Len(stored) /\ calls' = calls /\ entry' = entry
       \/ n > Len(stored) /\ calls' = Woken(calls) /\ entry' = NoEntry
  BY <1>1, <1>2 DEF Removed
<1>12. /\ Len(stored) \in Nat /\ Len(stored') \in Nat /\ Len(stored) <= Len(stored') /\ n <= Len(stored')
       /\ n > Len(stored) => Len(stored') > 0
  <2>1. Len(stored') = m
    BY <1>3
  <2>2. Len(stored) \in Nat /\ m \in Nat /\ m >= n /\ m >= Len(stored) /\ (n > Len(stored) => m = n)
    BY <1>1, <1>14, Zenon
  <2> QED
    BY <2>1, <2>2
<1>13. \A i \in DOMAIN log : i \in Nat
  BY <1>1
<1> QED
  BY <1>3, <1>8, <1>9, <1>10, <1>11, <1>12, <1>13 DEF log

\* The entry is what it was, or it left the pool with nobody waiting for it.
LEMMA WokenAll ==
  ASSUME TypeOK, calls' = calls \/ calls' = Woken(calls)
  PROVE  /\ calls' \in [Callers -> Call]
         /\ \A d \in Callers :
              /\ calls'[d].kind = calls[d].kind /\ calls'[d].known = calls[d].known
              /\ calls'[d].awaits = calls[d].awaits /\ calls'[d].source = calls[d].source
              /\ calls'[d].aborted = calls[d].aborted /\ calls'[d].borrowed = calls[d].borrowed
              /\ calls'[d].at = calls[d].at \/ (calls[d].at = "queued" /\ calls'[d].at = "read")
<1>1. calls \in [Callers -> Call]
  BY DEF TypeOK
<1>2. CASE calls' = calls
  BY <1>1, <1>2
<1>3. CASE calls' = Woken(calls)
  <2>1. /\ calls' \in [Callers -> Call]
        /\ \A d \in Callers : calls'[d] = IF calls[d].at = "queued" THEN [calls[d] EXCEPT !.at = "read"] ELSE calls[d]
    BY <1>1, <1>3, WokenIs
  <2>2. ASSUME NEW d \in Callers
        PROVE  /\ calls'[d].kind = calls[d].kind /\ calls'[d].known = calls[d].known
               /\ calls'[d].awaits = calls[d].awaits /\ calls'[d].source = calls[d].source
               /\ calls'[d].aborted = calls[d].aborted /\ calls'[d].borrowed = calls[d].borrowed
               /\ calls'[d].at = calls[d].at \/ (calls[d].at = "queued" /\ calls'[d].at = "read")
    <3>1. calls[d] \in Call
      BY <1>1
    <3>2. CASE calls[d].at = "queued"
      <4>1. calls'[d] = [calls[d] EXCEPT !.at = "read"]
        BY <2>1, <3>2
      <4> QED
        BY <3>1, <3>2, <4>1 DEF Call
    <3>3. CASE calls[d].at # "queued"
      BY <2>1, <3>3
    <3> QED
      BY <3>2, <3>3
  <2> QED
    BY <2>1, <2>2
<1> QED
  BY <1>2, <1>3

\* Places of calls that only woke up.
LEMMA WokenPlaces ==
  ASSUME Inv, NEW d \in Callers, calls'[d].kind = calls[d].kind,
         calls'[d].at = calls[d].at \/ (calls[d].at = "queued" /\ calls'[d].at = "read")
  PROVE  calls'[d].at \in Places(calls'[d].kind)
<1>1. calls[d].at \in Places(calls[d].kind) /\ calls[d].kind \in CallKinds
  BY PlaceSays
<1>2. CASE calls'[d].at = calls[d].at
  BY <1>1, <1>2
<1>3. CASE calls[d].at = "queued" /\ calls'[d].at = "read"
  BY <1>1, <1>3, PlacesAre DEF CallKinds
<1> QED
  BY <1>2, <1>3

\* The first operation stores the events of the owner of the log up to its n.
LEMMA StoresKeep ==
  ASSUME Inv, NEW c \in Callers, Without(1), 1 \in DOMAIN chain, chain[1].op \in {"seed", "drain"}, chain[1].by = c,
         NEW n \in Nat, n <= Len(sessions[c].events), AppendsUpTo(c, tracked.cursor, n, tracked.owner),
         sessions[c].init = "ok" \/ sessions[c].seeded <= n,
         sessions' \in [Callers -> SessionRec],
         \A d \in Callers :
           /\ sessions'[d].events = sessions[d].events /\ sessions'[d].seeded = sessions[d].seeded
           /\ sessions'[d].stage = sessions[d].stage
           /\ sessions'[d].init = IF d = c THEN "ok" ELSE sessions[d].init,
         UNCHANGED <<live, retiring, left>>
  PROVE  TypeOK' /\ IInv'
<1>1. /\ TypeOK /\ PlacesInv /\ SessionInv /\ RegistryInv /\ OwnerInv /\ WantedInv /\ EntryInv /\ HolderInv
      /\ LosingInv /\ ChainInv /\ PendingInv
      /\ live' = live /\ retiring' = retiring /\ left' = left
  BY DEF Inv, IInv
<1>2. Owns(c) /\ Started(c) /\ tracked.owner = c /\ c # nobody
  BY <1>1, PreparationsAssumption DEF ChainInv, OpInv, Owns
<1>3. tracked.cursor = Len(stored) /\ IsPrefix(stored, sessions[c].events)
  BY <1>1, <1>2 DEF OwnerInv
<1>4. /\ stored' \in Seq(Event) /\ IsPrefix(stored, stored') /\ IsPrefix(stored', sessions[c].events)
      /\ Len(stored) \in Nat /\ Len(stored') \in Nat /\ Len(stored) <= Len(stored') /\ n <= Len(stored')
      /\ tracked' \in [known : BOOLEAN, cursor : Nat, owner : Callers \cup {nobody}]
      /\ tracked'.known /\ tracked'.cursor = Len(stored') /\ tracked'.owner = c
      /\ \A i \in DOMAIN stored' : i > Len(stored) => i \in DOMAIN sessions[c].events /\ stored'[i] = sessions[c].events[i]
      /\ \A i \in DOMAIN stored' : i <= Len(stored) => i \in DOMAIN stored /\ stored'[i] = stored[i]
      /\ \A i \in DOMAIN sessions[c].events : i \in Nat
      /\ \/ stored' = stored /\ calls' = calls /\ entry' = entry
         \/ Len(stored') > 0 /\ calls' = Woken(calls) /\ entry' = NoEntry
  BY <1>1, <1>2, <1>3, AppendedIs
<1>5. /\ calls' \in [Callers -> Call]
      /\ \A d \in Callers : calls'[d].kind = calls[d].kind
           /\ (calls'[d].at = calls[d].at \/ (calls[d].at = "queued" /\ calls'[d].at = "read"))
  BY <1>1, <1>4, WokenAll
<1>6. TypeOK'
  <2>1. entry' \in [no : Nat, phase : {"none", "loading", "ready", "committing", "reserved"},
                source : Seq(Event), added : Seq(Event), holder : Callers \cup {nobody}]
    BY <1>1, <1>4, EntryTypes DEF TypeOK
  <2>2. chain' \in Seq(Op)
    BY DEF Without
  <2>3. /\ stored' \in Seq(Event) /\ calls' \in [Callers -> Call]
        /\ tracked' \in [known : BOOLEAN, cursor : Nat, owner : Callers \cup {nobody}]
    BY <1>4, <1>5
  <2>4. live' \in Callers \cup {nobody} /\ retiring' \in Callers \cup {nobody} /\ left' \in [Kinds -> Nat]
    BY <1>1 DEF TypeOK
  <2> QED
    BY <2>1, <2>2, <2>3, <2>4 DEF TypeOK, SessionRec
<1>7. PlacesInv'
  BY <1>5, WokenPlaces DEF PlacesInv
<1>8. SessionInv'
  <2>1. stored # <<>> => stored' # <<>>
    <3>1. Len(stored) = 0 <=> stored = <<>>
      BY <1>1, EmptySeq DEF TypeOK
    <3>2. Len(stored') = 0 <=> stored' = <<>>
      BY <1>4, EmptySeq
    <3> QED
      BY <1>4, <3>1, <3>2
  <2>2. sessions[c].stage \notin {"none", "vetoed", "withdrawn"} /\ "ok" # "none"
    BY <1>2 DEF Started
  <2>3. ASSUME NEW d \in Callers
        PROVE  /\ sessions'[d].stage \in {"none", "vetoed", "withdrawn"} <=> sessions'[d].init = "none"
               /\ sessions'[d].stage = sessions[d].stage
    BY <1>1, <2>2 DEF SessionInv
  <2>4. ASSUME NEW d \in Callers
        PROVE  /\ calls'[d].kind = calls[d].kind
               /\ calls'[d].at \in {"live", "vetoed", "disposing", "done", "failed", "rollback", "listing"}
                    <=> calls[d].at \in {"live", "vetoed", "disposing", "done", "failed", "rollback", "listing"}
               /\ calls'[d].at \in {"vetoed", "rollback", "listing"} => calls[d].at \in {"vetoed", "rollback", "listing"}
    BY <1>5
  <2> QED
    BY <1>1, <2>1, <2>3, <2>4 DEF SessionInv
<1>9. RegistryInv'
  <2>1. (live # nobody => live \in Callers) /\ (retiring # nobody => retiring \in Callers)
    BY <1>1 DEF TypeOK
  <2> QED
    BY <1>1, <1>5, <2>1 DEF RegistryInv
<1>10. OwnerInv'
  <2>1. sessions'[c].stage \notin {"none", "vetoed", "withdrawn", "retired"}
    BY <1>2 DEF Started
  <2>2. \A i \in DOMAIN sessions[c].events : i > Len(stored') => sessions[c].events[i].by = c
    <3>1. \A i \in DOMAIN sessions[c].events : i > Len(stored) => sessions[c].events[i].by = c
      BY <1>1, <1>2 DEF OwnerInv
    <3> QED
      BY <1>4, <3>1
  <2>3. sessions[c].seeded <= Len(stored')
    <3>1. sessions[c].init = "ok" => sessions[c].seeded <= Len(stored)
      BY <1>1, <1>2, <1>3 DEF OwnerInv
    <3>2. sessions[c].seeded \in Nat
      BY <1>1 DEF TypeOK
    <3> QED
      BY <1>4, <3>1, <3>2
  <2>4. \A i \in DOMAIN stored' : stored'[i].by \in Callers => sessions'[stored'[i].by].init = "ok"
    <3> SUFFICES ASSUME NEW i \in DOMAIN stored', stored'[i].by \in Callers
                 PROVE  sessions'[stored'[i].by].init = "ok"
      OBVIOUS
    <3>1. i \in Nat
      BY <1>4
    <3>2. CASE i > Len(stored)
      <4>1. stored'[i] = sessions[c].events[i] /\ i \in DOMAIN sessions[c].events
        BY <1>4, <3>2
      <4>2. stored'[i].by = c
        BY <1>1, <1>2, <3>2, <4>1 DEF OwnerInv
      <4> QED
        BY <4>2
    <3>3. CASE i <= Len(stored)
      <4>1. stored'[i] = stored[i] /\ i \in DOMAIN stored
        BY <1>4, <3>3
      <4>2. sessions[stored[i].by].init = "ok"
        BY <1>1, <4>1 DEF OwnerInv
      <4> QED
        BY <4>1, <4>2
    <3> QED
      BY <1>4, <3>1, <3>2, <3>3
  <2> QED
    BY <1>2, <1>4, <2>1, <2>2, <2>3, <2>4 DEF OwnerInv
<1>11. WantedInv'
  <2>1. live # nobody => live \in Callers
    BY <1>1 DEF TypeOK
  <2> QED
    BY <1>1, <1>2, <1>4, <2>1 DEF WantedInv, Owns
<1>12. ~Settled
  BY <1>2 DEF Settled
<1>18. Unattached' <=> Unattached
  BY <1>1, UnattachedSame
<1>19. VetoInv'
  <2>1. ASSUME NEW d \in Callers, sessions[d].stage = "vetoed"
        PROVE  /\ calls[d].at \in {"vetoed", "failed"} /\ calls'[d].at = calls[d].at
               /\ entry' = entry \/ (entry.holder # d /\ entry'.holder # d)
    <3>1. calls[d].at \in {"vetoed", "failed"}
      BY <2>1 DEF Inv, IInv, VetoInv
    <3>2. entry.holder # d
      BY <1>1, <1>12, <3>1 DEF HolderInv
    <3>3. entry' = NoEntry => entry'.holder # d
      BY PreparationsAssumption DEF NoEntry
    <3> QED
      BY <1>4, <1>5, <3>1, <3>2, <3>3
  <2> QED
    BY <1>5, <2>1, VetoStays
<1>13. EntryInv'
  <2>1. CASE entry' = NoEntry
    BY <1>1, <2>1 DEF EntryInv, NoEntry, Exclusive
  <2>2. CASE entry' = entry /\ stored' = stored
    <3>1. entry.added = <<>>
      BY <1>1, <1>12 DEF EntryInv, HolderInv
    <3> QED
      BY <1>1, <1>2, <1>18, <2>2, <3>1 DEF EntryInv, Exclusive
  <2> QED
    BY <1>4, <2>1, <2>2
<1>14. HolderInv'
  <2>1. entry.phase # "reserved" /\ \A d \in Callers : calls[d].at \notin {"committed", "reserved"}
    BY <1>1, <1>12 DEF HolderInv
  <2>2. \A d \in Callers : calls[d].at = "setup" => calls[d].kind = "create"
    BY <1>1, <2>1 DEF HolderInv
  <2>3. CASE entry' = NoEntry
    <3>1. entry'.holder = nobody /\ entry'.phase = "none"
      BY <2>3 DEF NoEntry
    <3> QED
      BY <1>5, <2>1, <2>2, <3>1, PreparationsAssumption DEF HolderInv
  <2>4. CASE entry' = entry
    BY <1>1, <1>5, <2>1, <2>2, <2>4 DEF HolderInv
  <2> QED
    BY <1>4, <2>3, <2>4
<1>15. ChainInv'
  <2>1. ASSUME NEW o \in Op, OpInv(o), ~SameOp(o, chain[1]) PROVE OpInv(o)'
    <3>1. \A d \in Callers : Owns(d)' <=> Owns(d)
      BY <1>2, <1>4 DEF Owns
    <3>2. \A d \in Callers : Started(d)' <=> Started(d)
      BY DEF Started
    <3>3. CASE o.op \in {"read", "commit", "check"}
      BY <1>5, <2>1, <3>3 DEF OpInv, At
    <3>4. CASE o.op = "created"
      <4>1. o.by \in Callers /\ o.by # c
        BY <1>2, <2>1, <3>4 DEF OpInv
      <4> QED
        BY <2>1, <3>1, <3>2, <3>4, <4>1 DEF OpInv
    <3>5. CASE o.op = "seed"
      <4>1. o.by = c /\ sessions[c].init = "pending"
        BY <1>2, <2>1, <3>5 DEF OpInv, Owns
      <4>2. chain[1].op = "drain"
        BY <2>1, <3>5, <4>1 DEF SameOp
      <4> QED
        BY <1>1, <4>1, <4>2 DEF ChainInv, OpInv
    <3>6. CASE o.op = "drain"
      BY <2>1, <3>1, <3>2, <3>6 DEF OpInv
    <3>7. CASE o.op = "retire"
      <4>1. o.by \in Callers /\ o.by # c
        BY <1>2, <2>1, <3>7 DEF OpInv, Started
      <4> QED
        BY <1>2, <2>1, <3>1, <3>7, <4>1 DEF OpInv, Owns
    <3> QED
      BY <3>3, <3>4, <3>5, <3>6, <3>7 DEF Op
  <2> QED
    BY <1>1, <2>1, WithoutChain
<1>16. LosingInv'
  <2>1. \A d \in Callers : calls'[d].at = "committing" => calls[d].at = "committing"
    BY <1>5
  <2>2. ~Queued("retire", tracked'.owner)
    BY <1>1, <1>2, <1>4 DEF Queued, ChainInv, OpInv, Started
  <2>3. ASSUME NEW d \in Callers, Losing(d)'
        PROVE  \/ Losing(d) /\ tracked'.owner = tracked.owner /\ tracked'.cursor >= tracked.cursor
               \/ tracked'.owner # nobody /\ tracked'.cursor > 0 /\ ~Queued("retire", tracked'.owner)
    <3>1. CASE Len(stored') > 0
      BY <1>2, <1>4, <2>2, <3>1
    <3>2. CASE ~(Len(stored') > 0)
      BY <1>2, <1>3, <1>4, <2>1, <2>3, <3>2 DEF Losing
    <3> QED
      BY <3>1, <3>2
  <2> QED
    BY <1>1, <1>4, <2>1, <2>3, WithoutLosing
<1>17. PendingInv'
  <2>1. KeepsPending
    BY <1>18 DEF KeepsPending
  <2>2. NoEntryNow \/ SameEntry
    BY <1>4 DEF NoEntryNow, NoEntry, SameEntry
  <2> QED
    BY <1>1, <2>1, <2>2, WithoutPending
<1> QED
  BY <1>6, <1>7, <1>8, <1>9, <1>10, <1>11, <1>13, <1>14, <1>15, <1>16, <1>17, <1>19 DEF IInv

LEMMA DrainKeeps ==
  ASSUME Inv, NEW c \in Callers, Drain(c)
  PROVE  TypeOK' /\ IInv'
<1>1. /\ TypeOK /\ ChainInv /\ First("drain", c)
      /\ AppendsUpTo(c, tracked.cursor, Head(chain).n, tracked.owner)
      /\ sessions' = sessions /\ UNCHANGED <<live, retiring, left>>
  BY DEF Drain, Inv, IInv
<1>2. /\ Without(1) /\ 1 \in DOMAIN chain /\ Head(chain) = chain[1] /\ chain[1].op = "drain" /\ chain[1].by = c
  BY <1>1, WithoutFirst DEF TypeOK
<1>3. sessions[c].init = "ok" /\ chain[1].n <= Len(sessions[c].events)
  BY <1>1, <1>2 DEF ChainInv, OpInv
<1>4. PICK n \in Nat : n = chain[1].n
  <2>1. chain[1] \in Op
    BY <1>1, <1>2, ChainNats DEF TypeOK
  <2> QED
    BY <2>1 DEF Op
<1>5. AppendsUpTo(c, tracked.cursor, n, tracked.owner) /\ n <= Len(sessions[c].events)
  BY <1>1, <1>2, <1>3, <1>4
<1>6. /\ sessions' \in [Callers -> SessionRec]
      /\ \A d \in Callers :
           /\ sessions'[d].events = sessions[d].events /\ sessions'[d].seeded = sessions[d].seeded
           /\ sessions'[d].stage = sessions[d].stage
           /\ sessions'[d].init = IF d = c THEN "ok" ELSE sessions[d].init
  BY <1>1, <1>3 DEF TypeOK, SessionRec
<1>7. chain[1].op \in {"seed", "drain"}
  BY <1>2
<1> QED
  BY <1>1, <1>2, <1>3, <1>5, <1>6, <1>7, StoresKeep

\* The first operation is the initialisation of c, and it fails.
LEMMA InitFails ==
  ASSUME Inv, NEW c \in Callers, Without(1), 1 \in DOMAIN chain, chain[1].op \in {"seed", "created"}, chain[1].by = c,
         Initialised(c, "failed"), UNCHANGED <<identity, calls, live, retiring>>, left' \in [Kinds -> Nat]
  PROVE  TypeOK' /\ IInv'
<1>1. /\ TypeOK /\ PlacesInv /\ SessionInv /\ RegistryInv /\ OwnerInv /\ WantedInv /\ EntryInv /\ HolderInv
      /\ LosingInv /\ ChainInv /\ PendingInv
      /\ live' = live /\ retiring' = retiring /\ calls' = calls
      /\ stored' = stored /\ tracked' = tracked /\ entry' = entry
  BY DEF Inv, IInv, identity
<1>2. sessions[c].init = "pending" /\ Started(c)
  BY <1>1 DEF ChainInv, OpInv
<1>3. /\ sessions' \in [Callers -> SessionRec]
      /\ \A d \in Callers :
           /\ sessions'[d].events = sessions[d].events /\ sessions'[d].seeded = sessions[d].seeded
           /\ sessions'[d].stage = sessions[d].stage
           /\ sessions'[d].init = IF d = c THEN "failed" ELSE sessions[d].init
  <2>1. "failed" \in {"none", "pending", "ok", "failed"}
    OBVIOUS
  <2> QED
    BY <1>1, <2>1, InitIs
<1>4. /\ live # nobody => live \in Callers
      /\ retiring # nobody => retiring \in Callers
      /\ tracked.owner # nobody => tracked.owner \in Callers
  BY <1>1 DEF TypeOK
<1>5. TypeOK'
  <2>1. chain' \in Seq(Op)
    BY DEF Without
  <2> QED
    BY <1>1, <1>3, <2>1 DEF TypeOK, SessionRec
<1>6. PlacesInv'
  BY <1>1 DEF PlacesInv
<1>7. SessionInv'
  BY <1>1, <1>2, <1>3 DEF SessionInv, Started
<1>8. RegistryInv'
  BY <1>1, <1>3, <1>4 DEF RegistryInv
<1>9. OwnerInv'
  <2>1. \A i \in DOMAIN stored : stored[i].by \in Callers => sessions'[stored[i].by].init = "ok"
    BY <1>1, <1>2, <1>3 DEF OwnerInv
  <2> QED
    BY <1>1, <1>3, <1>4, <2>1 DEF OwnerInv
<1>10. WantedInv'
  BY <1>1, <1>3, <1>4 DEF WantedInv, Owns
<1>16. Unattached' <=> Unattached
  BY <1>1, <1>3, UnattachedSame
<1>17. VetoInv'
  BY <1>1, <1>3, VetoStays
<1>11. EntryInv'
  BY <1>1, <1>16 DEF EntryInv, Exclusive
<1>12. HolderInv'
  BY <1>1, <1>3 DEF HolderInv, Settled
<1>13. ChainInv'
  <2>1. ASSUME NEW o \in Op, OpInv(o), ~SameOp(o, chain[1]) PROVE OpInv(o)'
    <3>1. Owns(c) <=> chain[1].op = "seed"
      BY <1>1 DEF ChainInv, OpInv
    <3>2. CASE o.op \in {"read", "commit", "check"}
      BY <1>1, <2>1, <3>2 DEF OpInv, At
    <3>3. CASE o.op \in {"created", "seed", "drain", "retire"}
      <4>1. o.by \in Callers /\ o.by # c
        BY <1>2, <2>1, <3>1, <3>3 DEF OpInv, SameOp
      <4> QED
        BY <1>1, <1>3, <2>1, <3>3, <4>1 DEF OpInv, Owns, Started
    <3> QED
      BY <3>2, <3>3 DEF Op
  <2> QED
    BY <1>1, <2>1, WithoutChain
<1>14. LosingInv'
  <2>1. \A d \in Callers : Losing(d)' => Losing(d)
    BY <1>1 DEF Losing
  <2>2. /\ tracked' \in [known : BOOLEAN, cursor : Nat, owner : Callers \cup {nobody}]
        /\ tracked'.cursor >= tracked.cursor
    BY <1>1 DEF TypeOK
  <2> QED
    BY <1>1, <2>1, <2>2, WithoutLosing
<1>15. PendingInv'
  <2>1. KeepsPending /\ SameEntry
    BY <1>1, <1>3, <1>16 DEF KeepsPending, SameEntry
  <2> QED
    BY <1>1, <1>3, <2>1, WithoutPending
<1> QED
  BY <1>5, <1>6, <1>7, <1>8, <1>9, <1>10, <1>11, <1>12, <1>13, <1>14, <1>15, <1>17 DEF IInv

LEMMA SeedStoredKeeps ==
  ASSUME Inv, NEW c \in Callers, SeedStored(c)
  PROVE  TypeOK' /\ IInv'
<1>1. TypeOK /\ ChainInv /\ SessionInv /\ First("seed", c) /\ live' = live /\ retiring' = retiring
  BY DEF SeedStored, Inv, IInv
<1>2. /\ Without(1) /\ 1 \in DOMAIN chain /\ chain[1].op = "seed" /\ chain[1].by = c
      /\ chain[1].op \in {"seed", "drain"} /\ chain[1].op \in {"seed", "created"}
  BY <1>1, WithoutFirst DEF TypeOK
<1>3. CASE /\ AppendsUpTo(c, tracked.cursor, sessions[c].seeded, tracked.owner)
           /\ Initialised(c, "ok") /\ UNCHANGED left
  <2>1. PICK n \in Nat : n = sessions[c].seeded
    BY <1>1 DEF TypeOK
  <2>2. n <= Len(sessions[c].events) /\ sessions[c].seeded <= n
    BY <1>1, <2>1 DEF SessionInv
  <2>3. "ok" \in {"none", "pending", "ok", "failed"}
    OBVIOUS
  <2>4. /\ sessions' \in [Callers -> SessionRec]
        /\ \A d \in Callers :
             /\ sessions'[d].events = sessions[d].events /\ sessions'[d].seeded = sessions[d].seeded
             /\ sessions'[d].stage = sessions[d].stage
             /\ sessions'[d].init = IF d = c THEN "ok" ELSE sessions[d].init
    BY <1>1, <1>3, <2>3, InitIs
  <2>5. AppendsUpTo(c, tracked.cursor, n, tracked.owner) /\ UNCHANGED <<live, retiring, left>>
    BY <1>1, <1>3, <2>1
  <2> QED
    BY <1>2, <2>2, <2>4, <2>5, StoresKeep
<1>4. CASE /\ Spend("mishap") /\ Initialised(c, "failed") /\ UNCHANGED <<identity, calls>>
  <2>1. left' \in [Kinds -> Nat]
    BY <1>1, <1>4, SpendIs DEF Kinds
  <2>2. UNCHANGED <<identity, calls, live, retiring>>
    BY <1>1, <1>4 DEF identity
  <2> QED
    BY <1>2, <1>4, <2>1, <2>2, InitFails
<1> QED
  BY <1>3, <1>4 DEF SeedStored
-----------------------------------------------------------------------------
(* onCreated, for a Session that nothing prepared *)

\* What a Session that is created may take over: an identity nobody tracks, or
\* one whose owner never stored an event.
Loose == ~tracked.known \/ Abandoned

LEMMA LooseIs ==
  ASSUME Inv, Loose
  PROVE  /\ \A d \in Callers : tracked.owner = d /\ sessions[d].init = "ok" => sessions[d].events = <<>>
         /\ \A o \in Op : OpInv(o) => o.op \notin {"seed", "drain"}
         /\ \A d \in Callers : ~Losing(d)
         /\ entry.phase # "reserved" /\ \A d \in Callers : calls[d].at \notin {"committed", "reserved"}
         /\ tracked.owner # nobody => stored = <<>>
<1>1. /\ TypeOK /\ OwnerInv /\ HolderInv /\ LosingInv
  BY DEF Inv, IInv
<1>2. tracked.owner = nobody \/ (tracked.owner # nobody /\ tracked.owner \in Callers /\ tracked.cursor = 0 /\ ~HasWork(tracked.owner))
  BY <1>1 DEF Loose, Abandoned, OwnerInv, TypeOK
<1>3. ASSUME NEW d \in Callers, tracked.owner = d PROVE tracked.cursor = 0 /\ (sessions[d].init = "ok" => Len(sessions[d].events) = 0)
  <2>1. tracked.cursor = 0 /\ ~HasWork(d) /\ d # nobody
    BY <1>2, <1>3, PreparationsAssumption
  <2>2. sessions[d].stage # "retired" /\ (sessions[d].init = "ok" => sessions[d].seeded <= 0)
    BY <1>1, <1>3, <2>1 DEF OwnerInv
  <2>3. Len(sessions[d].events) \in Nat /\ sessions[d].seeded \in Nat
    BY <1>1 DEF TypeOK
  <2> QED
    BY <2>1, <2>2, <2>3 DEF HasWork
<1>4. \A d \in Callers : sessions[d].events \in Seq(Event)
  BY <1>1 DEF TypeOK
<1>5. \A d \in Callers : tracked.owner = d /\ sessions[d].init = "ok" => sessions[d].events = <<>>
  BY <1>3, <1>4, EmptySeq
<1>6. \A o \in Op : OpInv(o) => o.op \notin {"seed", "drain"}
  <2> SUFFICES ASSUME NEW o \in Op, OpInv(o), o.op \in {"seed", "drain"} PROVE FALSE
    OBVIOUS
  <2>1. o.by \in Callers /\ tracked.owner = o.by
    BY DEF OpInv, Owns
  <2>2. tracked.cursor = 0 /\ (sessions[o.by].init = "ok" => Len(sessions[o.by].events) = 0)
    BY <1>3, <2>1
  <2>3. CASE o.op = "seed"
    BY <2>2, <2>3 DEF OpInv
  <2>4. CASE o.op = "drain"
    <3>1. 0 < o.n /\ o.n <= 0 /\ o.n \in Nat
      BY <2>2, <2>4 DEF OpInv, Op
    <3> QED
      BY <3>1
  <2> QED
    BY <2>3, <2>4
<1>7. \A d \in Callers : ~Losing(d)
  BY <1>1, <1>2, <1>3 DEF LosingInv
<1>8. ~Settled
  BY <1>2, <1>1 DEF Loose, Settled, Abandoned
<1>9. entry.phase # "reserved" /\ \A d \in Callers : calls[d].at \notin {"committed", "reserved"}
  BY <1>1, <1>8 DEF HolderInv
<1>10. tracked.owner # nobody => stored = <<>>
  BY <1>1, <1>2, EmptySeq DEF OwnerInv, TypeOK
<1> QED
  BY <1>5, <1>6, <1>7, <1>9, <1>10

\* The log that it does not continue has no event of it.
LEMMA CreatedFirst ==
  ASSUME Inv, NEW c \in Callers, First("created", c)
  PROVE  /\ Without(1) /\ 1 \in DOMAIN chain /\ chain[1].op = "created" /\ chain[1].by = c
         /\ sessions[c].init = "pending" /\ Started(c) /\ ~Owns(c)
         /\ \A i \in DOMAIN sessions[c].events : sessions[c].events[i].by = c
         /\ LET seed == SubSeq(sessions[c].events, 1, sessions[c].seeded) IN
            /\ seed \in Seq(Event) /\ Len(seed) = sessions[c].seeded /\ IsPrefix(seed, sessions[c].events)
            /\ ~Claims(seed)
            /\ Registers(seed) => Loose /\ stored = <<>> /\ entry = NoEntry
<1>1. TypeOK /\ SessionInv /\ OwnerInv /\ EntryInv /\ ChainInv
  BY DEF Inv, IInv
<1>2. Without(1) /\ 1 \in DOMAIN chain /\ chain[1].op = "created" /\ chain[1].by = c
  BY <1>1, WithoutFirst DEF TypeOK
<1>3. /\ sessions[c].init = "pending" /\ Started(c) /\ ~Owns(c)
      /\ \A i \in DOMAIN sessions[c].events : sessions[c].events[i].by = c
  BY <1>1, <1>2 DEF ChainInv, OpInv
<1> DEFINE log == sessions[c].events
           n == sessions[c].seeded
           seed == SubSeq(log, 1, n)
<1>4. log \in Seq(Event) /\ n \in Nat /\ n <= Len(log) /\ stored \in Seq(Event) /\ tracked.cursor \in Nat
  BY <1>1 DEF TypeOK, SessionInv
<1>5. \A i \in DOMAIN log : log[i].by = c
  BY <1>3
<1> HIDE DEF log, n
<1>6. seed \in Seq(Event) /\ Len(seed) = n /\ IsPrefix(seed, log) /\ \A i \in 1 .. n : seed[i] = log[i]
  BY <1>4, BeginningOf
<1> HIDE DEF seed
<1>7. \A i \in 1 .. n : seed[i].by = c
  <2>1. DOMAIN log = 1 .. Len(log) /\ Len(log) \in Nat
    BY <1>4, LenProperties
  <2> QED
    BY <1>4, <1>5, <1>6, <2>1
<1>8. \A i \in DOMAIN stored : stored[i].by # c
  BY <1>1, <1>3 DEF OwnerInv
<1>9. DOMAIN stored = 1 .. Len(stored) /\ Len(stored) \in Nat
  BY <1>4, LenProperties
<1>10. ASSUME NEW m \in Nat, 0 < m, m <= Len(stored), IsPrefix(SubSeq(stored, 1, m), seed) PROVE FALSE
  <2> DEFINE t == SubSeq(stored, 1, m)
  <2>1. t \in Seq(Event) /\ Len(t) = m /\ \A i \in 1 .. m : t[i] = stored[i]
    BY <1>4, <1>10, BeginningOf
  <2>2. IsPrefix(t, seed)
    BY <1>10
  <2> HIDE DEF t
  <2>3. m <= n /\ \A i \in 1 .. m : t[i] = seed[i]
    BY <1>6, <2>1, <2>2, PrefixIs
  <2>4. 1 \in 1 .. m /\ 1 \in 1 .. n /\ 1 \in DOMAIN stored
    BY <1>4, <1>9, <1>10, <2>3
  <2>5. stored[1] = seed[1]
    BY <2>1, <2>3, <2>4
  <2> QED
    BY <1>7, <1>8, <2>4, <2>5
<1>11. ~Claims(seed)
  <2> SUFFICES ASSUME Claims(seed) PROVE FALSE
    OBVIOUS
  <2>1. 0 < tracked.cursor /\ tracked.cursor <= Len(stored)
    BY <1>1 DEF OwnerInv, Claims
  <2>2. IsPrefix(SubSeq(stored, 1, tracked.cursor), seed)
    BY <2>1, <1>4 DEF Claims
  <2> QED
    BY <1>4, <1>10, <2>1, <2>2
<1>12. ASSUME Registers(seed) PROVE Loose /\ stored = <<>> /\ entry = NoEntry
  <2>1. Loose
    BY <1>12 DEF Registers, Loose
  <2>2. stored = <<>>
    <3> SUFFICES ASSUME stored # <<>> PROVE FALSE
      OBVIOUS
    <3>1. Len(stored) > 0
      BY <1>4, <1>9, EmptySeq
    <3>2. IsPrefix(stored, seed)
      BY <1>12 DEF Registers
    <3>3. SubSeq(stored, 1, Len(stored)) = stored
      BY <1>4, SubSeqFull
    <3>4. PICK m \in Nat : m = Len(stored)
      BY <1>9
    <3>5. 0 < m /\ m <= Len(stored)
      BY <3>1, <3>4
    <3>6. IsPrefix(SubSeq(stored, 1, m), seed)
      BY <3>2, <3>3, <3>4, Zenon
    <3> QED
      BY <1>10, <3>5, <3>6
  <2>3. entry.no = 0
    BY <1>12, <2>2 DEF Registers
  <2>4. entry = NoEntry
    BY <1>1, <2>3 DEF EntryInv
  <2> QED
    BY <2>1, <2>2, <2>4
<1> QED
  BY <1>2, <1>3, <1>6, <1>11, <1>12 DEF log, n, seed

\* What every outcome of onCreated keeps.
LEMMA CreatedTail ==
  ASSUME Inv, NEW c \in Callers, First("created", c), Loose,
         NEW outcome \in {"ok", "failed"}, Initialised(c, outcome),
         calls' = calls \/ calls' = Woken(calls),
         entry' = entry,
         tracked' \in [known : BOOLEAN, cursor : Nat, owner : Callers \cup {nobody}],
         tracked'.owner = c \/ (tracked'.owner = nobody /\ outcome = "failed"),
         tracked'.owner = c => entry = NoEntry,
         stored' \in Seq(Event), stored # <<>> => stored' # <<>>,
         UNCHANGED <<live, retiring>>, left' \in [Kinds -> Nat]
  PROVE  /\ TypeOK' /\ PlacesInv' /\ SessionInv' /\ RegistryInv' /\ WantedInv'
         /\ EntryInv' /\ HolderInv' /\ VetoInv' /\ ChainInv' /\ LosingInv' /\ PendingInv'
<1>1. /\ TypeOK /\ PlacesInv /\ SessionInv /\ RegistryInv /\ OwnerInv /\ WantedInv /\ EntryInv /\ HolderInv
      /\ LosingInv /\ ChainInv /\ PendingInv
      /\ live' = live /\ retiring' = retiring
  BY DEF Inv, IInv
<1>2. /\ Without(1) /\ 1 \in DOMAIN chain /\ chain[1].op = "created" /\ chain[1].by = c
      /\ sessions[c].init = "pending" /\ Started(c) /\ ~Owns(c)
  BY CreatedFirst
<1>3. /\ sessions' \in [Callers -> SessionRec]
      /\ \A d \in Callers :
           /\ sessions'[d].events = sessions[d].events /\ sessions'[d].seeded = sessions[d].seeded
           /\ sessions'[d].stage = sessions[d].stage
           /\ sessions'[d].init = IF d = c THEN outcome ELSE sessions[d].init
  <2>1. outcome \in {"none", "pending", "ok", "failed"}
    OBVIOUS
  <2> QED
    BY <1>1, <2>1, InitIs
<1>4. /\ live # nobody => live \in Callers
      /\ retiring # nobody => retiring \in Callers
      /\ tracked.owner # nobody => tracked.owner \in Callers
      /\ c # nobody
  BY <1>1, PreparationsAssumption DEF TypeOK
<1>5. /\ calls' \in [Callers -> Call]
      /\ \A d \in Callers : calls'[d].kind = calls[d].kind
           /\ (calls'[d].at = calls[d].at \/ (calls[d].at = "queued" /\ calls'[d].at = "read"))
  BY <1>1, WokenAll
<1>6. /\ \A d \in Callers : tracked.owner = d /\ sessions[d].init = "ok" => sessions[d].events = <<>>
      /\ \A o \in Op : OpInv(o) => o.op \notin {"seed", "drain"}
      /\ \A d \in Callers : ~Losing(d)
      /\ entry.phase # "reserved" /\ \A d \in Callers : calls[d].at \notin {"committed", "reserved"}
  BY LooseIs
<1>8. TypeOK'
  <2>1. chain' \in Seq(Op)
    BY <1>2 DEF Without
  <2> QED
    BY <1>1, <1>3, <1>5, <2>1 DEF TypeOK, SessionRec
<1>9. PlacesInv'
  BY <1>5, WokenPlaces DEF PlacesInv
<1>10. SessionInv'
  <2>1. sessions[c].stage \notin {"none", "vetoed", "withdrawn"} /\ outcome # "none"
    BY <1>2 DEF Started
  <2>2. stored # <<>> => stored' # <<>>
    OBVIOUS
  <2>3. ASSUME NEW d \in Callers
        PROVE  /\ sessions'[d].stage \in {"none", "vetoed", "withdrawn"} <=> sessions'[d].init = "none"
               /\ sessions'[d].stage = sessions[d].stage
    BY <1>1, <1>2, <1>3, <2>1 DEF SessionInv
  <2>4. ASSUME NEW d \in Callers
        PROVE  /\ calls'[d].kind = calls[d].kind
               /\ calls'[d].at \in {"live", "vetoed", "disposing", "done", "failed", "rollback", "listing"}
                    <=> calls[d].at \in {"live", "vetoed", "disposing", "done", "failed", "rollback", "listing"}
               /\ calls'[d].at \in {"vetoed", "rollback", "listing"} => calls[d].at \in {"vetoed", "rollback", "listing"}
    BY <1>5
  <2> QED
    BY <1>1, <1>3, <2>2, <2>3, <2>4 DEF SessionInv
<1>11. RegistryInv'
  BY <1>1, <1>3, <1>4, <1>5 DEF RegistryInv
<1>18. Unattached' <=> Unattached
  BY <1>1, <1>3, UnattachedSame
<1>19. VetoInv'
  <2>1. ASSUME NEW d \in Callers, sessions[d].stage = "vetoed"
        PROVE  calls'[d].at = calls[d].at
    <3>1. calls[d].at \in {"vetoed", "failed"}
      BY <2>1 DEF Inv, IInv, VetoInv
    <3> QED
      BY <1>5, <3>1
  <2> QED
    BY <1>3, <1>5, <2>1, VetoStays
<1>12. WantedInv'
  <2>1. ASSUME NEW d \in Callers, sessions'[d].init = "ok", sessions'[d].stage \in {"live", "retiring"},
               sessions'[d].events # <<>>
        PROVE  Owns(d)'
    <3>1. CASE d = c
      BY <1>3, <2>1, <3>1 DEF Owns
    <3>2. CASE d # c
      <4>1. sessions[d].init = "ok" /\ sessions[d].stage \in {"live", "retiring"} /\ sessions[d].events # <<>>
        BY <1>3, <2>1, <3>2
      <4>2. tracked.owner = d
        BY <1>1, <4>1 DEF WantedInv, Owns
      <4> QED
        BY <1>6, <4>1, <4>2
    <3> QED
      BY <3>1, <3>2
  <2>2. ASSUME live # nobody, sessions'[live].init = "ok" PROVE Owns(live)'
    <3>0. ~Unattached
      <4>1. sessions[live].init # "none"
        BY <1>2, <1>3, <1>4, <2>2
      <4> QED
        BY <1>1, <1>4, <2>2, <4>1 DEF SessionInv, Unattached
    <3>1. PICK j \in DOMAIN chain : chain[j].op = "created" /\ chain[j].by = live
      BY <1>1, <1>2, <2>2, <3>0 DEF PendingInv, PendingLive
    <3>2. sessions[live].init = "pending"
      BY <1>1, <3>1 DEF ChainInv, OpInv
    <3>3. live = c
      BY <1>3, <1>4, <2>2, <3>2
    <3> QED
      BY <1>3, <2>2, <3>3 DEF Owns
  <2> QED
    BY <1>1, <2>1, <2>2 DEF WantedInv
<1>13. EntryInv'
  <2>1. CASE entry = NoEntry
    BY <1>1, <2>1 DEF EntryInv, NoEntry, Exclusive
  <2>2. CASE entry # NoEntry
    <3>1. entry.added = <<>> /\ tracked'.owner = nobody
      BY <1>1, <1>6, <2>2 DEF EntryInv
    <3>2. \A i \in DOMAIN entry.added : entry.added[i].by = entry.holder
      BY <1>1 DEF EntryInv
    <3> QED
      BY <1>1, <1>18, <2>2, <3>1, <3>2 DEF EntryInv, Exclusive
  <2> QED
    BY <2>1, <2>2
<1>14. HolderInv'
  <2>2. \A d \in Callers : calls[d].at = "setup" => calls[d].kind = "create"
    BY <1>1, <1>6 DEF HolderInv
  <2>3. \A d \in Callers : entry.holder = d =>
           entry.phase = "committing" /\ calls[d].at = "committing"
             /\ sessions[d].stage \in {"none", "vetoed", "withdrawn"}
    BY <1>1, <1>6 DEF HolderInv
  <2>4. entry' = entry
    OBVIOUS
  <2>5. ASSUME NEW d \in Callers
        PROVE  /\ calls'[d].at \notin {"committed", "reserved"}
               /\ calls'[d].at = "setup" => calls'[d].kind = "create"
               /\ calls[d].at = "committing" => calls'[d].at = "committing"
    BY <1>5, <1>6, <2>2
  <2>6. \A d \in Callers : sessions'[d].stage = sessions[d].stage
    BY <1>3
  <2>7. entry.phase # "reserved"
    BY <1>6
  <2> QED
    BY <2>3, <2>4, <2>5, <2>6, <2>7 DEF HolderInv
<1>15. ChainInv'
  <2>1. ASSUME NEW o \in Op, OpInv(o), ~SameOp(o, chain[1]) PROVE OpInv(o)'
    <3>1. o.op \notin {"seed", "drain"}
      BY <1>6, <2>1
    <3>2. CASE o.op \in {"read", "commit", "check"}
      BY <1>5, <2>1, <3>2 DEF OpInv, At
    <3>3. CASE o.op = "created"
      <4>1. o.by \in Callers /\ o.by # c
        BY <1>2, <2>1, <3>3 DEF OpInv, SameOp
      <4>2. ~Owns(o.by)'
        BY <1>4, <4>1, PreparationsAssumption DEF Owns
      <4> QED
        BY <1>3, <2>1, <3>3, <4>1, <4>2 DEF OpInv, Started
    <3>4. CASE o.op = "retire"
      <4>1. o.by \in Callers /\ o.by # c
        BY <1>2, <2>1, <3>4 DEF OpInv
      <4>2. ~Owns(o.by)'
        BY <1>4, <4>1, PreparationsAssumption DEF Owns
      <4> QED
        BY <1>3, <2>1, <3>4, <4>1, <4>2 DEF OpInv
    <3> QED
      BY <3>1, <3>2, <3>3, <3>4 DEF Op
  <2> QED
    BY <1>1, <1>2, <2>1, WithoutChain
<1>16. LosingInv'
  <2>1. \A d \in Callers : calls'[d].at = "committing" => calls[d].at = "committing"
    BY <1>5
  <2>2. \A d \in Callers : ~Losing(d)'
    BY <1>6, <2>1 DEF Losing
  <2> QED
    BY <1>1, <1>2, <2>1, <2>2, WithoutLosing
<1>17. PendingInv'
  <2>1. KeepsPending
    BY <1>3, <1>18 DEF KeepsPending
  <2>2. SameEntry
    BY DEF SameEntry
  <2>3. outcome # "pending"
    OBVIOUS
  <2> QED
    BY <1>1, <1>2, <1>3, <2>1, <2>2, <2>3, WithoutPending
<1> QED
  BY <1>8, <1>9, <1>10, <1>11, <1>12, <1>13, <1>14, <1>15, <1>16, <1>17, <1>19

LEMMA CreatedKeeps ==
  ASSUME Inv, NEW c \in Callers, Created(c)
  PROVE  TypeOK' /\ IInv'
<1> DEFINE seed == SubSeq(sessions[c].events, 1, sessions[c].seeded)
           from == IF Claims(seed) THEN tracked.cursor ELSE Len(stored)
           accepted == Claims(seed) \/ Registers(seed)
<1>1. /\ TypeOK /\ SessionInv /\ OwnerInv /\ First("created", c)
      /\ UNCHANGED <<live, retiring>>
      /\ \/ /\ accepted
            /\ AppendsUpTo(c, from, Len(seed), c)
            /\ Initialised(c, "ok") /\ UNCHANGED left
         \/ /\ accepted /\ Len(seed) > from /\ Spend("mishap")
            /\ tracked' = Tracks(from, c)
            /\ Initialised(c, "failed") /\ UNCHANGED <<stored, entry, calls>>
         \/ /\ IF accepted THEN Spend("mishap") ELSE UNCHANGED left
            /\ tracked' = IF Abandoned THEN Untracked ELSE tracked
            /\ Initialised(c, "failed") /\ UNCHANGED <<stored, entry, calls>>
  BY DEF Created, Inv, IInv
<1>2. /\ Without(1) /\ 1 \in DOMAIN chain /\ chain[1].op = "created" /\ chain[1].by = c
      /\ sessions[c].init = "pending" /\ Started(c) /\ ~Owns(c)
      /\ \A i \in DOMAIN sessions[c].events : sessions[c].events[i].by = c
      /\ seed \in Seq(Event) /\ Len(seed) = sessions[c].seeded /\ IsPrefix(seed, sessions[c].events)
      /\ ~Claims(seed)
      /\ Registers(seed) => Loose /\ stored = <<>> /\ entry = NoEntry
  BY <1>1, CreatedFirst
<1> HIDE DEF seed
<1>3. /\ from = Len(stored)
      /\ accepted => Loose /\ stored = <<>> /\ entry = NoEntry /\ from = 0
  <2>1. Len(<<>>) = 0
    BY EmptySeq
  <2> QED
    BY <1>2, <2>1
<1> HIDE DEF from, accepted
<1>4. /\ sessions[c].stage \notin {"none", "vetoed", "withdrawn", "retired"} /\ c # nobody
      /\ sessions[c].seeded \in Nat /\ sessions[c].seeded <= Len(sessions[c].events)
      /\ sessions[c].events \in Seq(Event)
  BY <1>1, <1>2, PreparationsAssumption DEF Started, TypeOK, SessionInv
<1>5. CASE accepted /\ AppendsUpTo(c, from, Len(seed), c) /\ Initialised(c, "ok") /\ UNCHANGED left
  <2>1. Loose /\ stored = <<>> /\ entry = NoEntry /\ Len(stored) = 0 /\ IsPrefix(stored, sessions[c].events)
    BY <1>3, <1>4, <1>5, EmptySeq, PrefixOrder
  <2>2. AppendsUpTo(c, Len(stored), sessions[c].seeded, c)
    BY <1>2, <1>3, <1>5
  <2>3. /\ stored' \in Seq(Event) /\ IsPrefix(stored', sessions[c].events)
        /\ Len(stored') \in Nat /\ sessions[c].seeded <= Len(stored')
        /\ tracked' \in [known : BOOLEAN, cursor : Nat, owner : Callers \cup {nobody}]
        /\ tracked'.known /\ tracked'.cursor = Len(stored') /\ tracked'.owner = c
        /\ \A i \in DOMAIN stored' : i > Len(stored) => i \in DOMAIN sessions[c].events /\ stored'[i] = sessions[c].events[i]
        /\ (calls' = calls /\ entry' = entry) \/ (calls' = Woken(calls) /\ entry' = NoEntry)
    BY <1>1, <1>4, <2>1, <2>2, AppendedIs
  <2>4. calls' = calls \/ calls' = Woken(calls)
    BY <2>3
  <2>5. entry' = entry
    BY <2>1, <2>3
  <2>6. left' \in [Kinds -> Nat]
    BY <1>1, <1>5 DEF TypeOK
  <2>7. /\ TypeOK' /\ PlacesInv' /\ SessionInv' /\ RegistryInv' /\ WantedInv'
        /\ EntryInv' /\ HolderInv' /\ VetoInv' /\ ChainInv' /\ LosingInv' /\ PendingInv'
    <3>1. "ok" \in {"ok", "failed"}
      OBVIOUS
    <3>2. stored # <<>> => stored' # <<>>
      BY <2>1
    <3>3. tracked'.owner = c
      BY <2>3
    <3>4. Initialised(c, "ok")
      BY <1>5
    <3>5. stored' \in Seq(Event) /\ tracked' \in [known : BOOLEAN, cursor : Nat, owner : Callers \cup {nobody}]
      BY <2>3
    <3> QED
      BY <1>1, <2>1, <2>4, <2>5, <2>6, <3>1, <3>2, <3>3, <3>4, <3>5, CreatedTail
  <2>8. OwnerInv'
    <3>1. /\ sessions'[c].events = sessions[c].events /\ sessions'[c].seeded = sessions[c].seeded
          /\ sessions'[c].stage = sessions[c].stage /\ sessions'[c].init = "ok"
      <4>1. "ok" \in {"none", "pending", "ok", "failed"} /\ Initialised(c, "ok")
        BY <1>5
      <4> QED
        BY <1>1, <4>1, InitIs
    <3>2. \A i \in DOMAIN stored' : stored'[i].by = c
      <4>1. DOMAIN stored' = 1 .. Len(stored')
        BY <2>3, LenProperties
      <4>2. \A i \in DOMAIN stored' : i > Len(stored)
        BY <2>1, <2>3, <4>1
      <4> QED
        BY <1>2, <2>3, <4>2
    <3> QED
      BY <1>2, <1>4, <2>3, <3>1, <3>2 DEF OwnerInv
  <2> QED
    BY <2>7, <2>8 DEF IInv
<1>6. CASE /\ accepted /\ Len(seed) > from /\ Spend("mishap")
           /\ tracked' = Tracks(from, c)
           /\ Initialised(c, "failed") /\ UNCHANGED <<stored, entry, calls>>
  <2>1. /\ Loose /\ stored = <<>> /\ entry = NoEntry /\ Len(stored) = 0 /\ IsPrefix(stored, sessions[c].events)
        /\ stored' = stored /\ entry' = entry /\ calls' = calls /\ DOMAIN stored = {}
    BY <1>3, <1>4, <1>6, EmptySeq, PrefixOrder
  <2>2. /\ tracked' \in [known : BOOLEAN, cursor : Nat, owner : Callers \cup {nobody}]
        /\ tracked'.known /\ tracked'.cursor = 0 /\ tracked'.owner = c
    <3>1. tracked' = [known |-> TRUE, cursor |-> 0, owner |-> c]
      BY <1>3, <1>6 DEF Tracks
    <3> QED
      BY <3>1
  <2>6. left' \in [Kinds -> Nat]
    BY <1>1, <1>6, SpendIs DEF Kinds
  <2>7. /\ TypeOK' /\ PlacesInv' /\ SessionInv' /\ RegistryInv' /\ WantedInv'
        /\ EntryInv' /\ HolderInv' /\ VetoInv' /\ ChainInv' /\ LosingInv' /\ PendingInv'
    <3>1. "failed" \in {"ok", "failed"}
      OBVIOUS
    <3>2. Initialised(c, "failed")
      BY <1>6
    <3>3. stored' \in Seq(Event)
      BY <1>1, <2>1 DEF TypeOK
    <3> QED
      BY <1>1, <2>1, <2>2, <2>6, <3>1, <3>2, <3>3, CreatedTail
  <2>8. OwnerInv'
    <3>1. /\ sessions'[c].events = sessions[c].events /\ sessions'[c].seeded = sessions[c].seeded
          /\ sessions'[c].stage = sessions[c].stage /\ sessions'[c].init = "failed"
      <4>1. "failed" \in {"none", "pending", "ok", "failed"} /\ Initialised(c, "failed")
        BY <1>6
      <4> QED
        BY <1>1, <4>1, InitIs
    <3> QED
      BY <1>2, <1>4, <2>1, <2>2, <3>1 DEF OwnerInv
  <2> QED
    BY <2>7, <2>8 DEF IInv
<1>7. CASE /\ IF accepted THEN Spend("mishap") ELSE UNCHANGED left
           /\ tracked' = IF Abandoned THEN Untracked ELSE tracked
           /\ Initialised(c, "failed") /\ UNCHANGED <<stored, entry, calls>>
  <2>1. left' \in [Kinds -> Nat]
    <3>1. left' = left \/ Spend("mishap")
      BY <1>7
    <3> QED
      BY <1>1, <3>1, SpendIs DEF Kinds, TypeOK
  <2>2. stored' = stored /\ entry' = entry /\ calls' = calls
    BY <1>7
  <2>3. CASE ~Abandoned
    <3>1. UNCHANGED <<identity, calls, live, retiring>>
      BY <1>1, <1>7, <2>3 DEF identity
    <3>2. chain[1].op \in {"seed", "created"} /\ Initialised(c, "failed")
      BY <1>2, <1>7
    <3> QED
      BY <1>2, <2>1, <3>1, <3>2, InitFails
  <2>4. CASE Abandoned
    <3>1. Loose
      BY <2>4 DEF Loose
    <3>2. /\ tracked' \in [known : BOOLEAN, cursor : Nat, owner : Callers \cup {nobody}]
          /\ ~tracked'.known /\ tracked'.owner = nobody
      BY <1>7, <2>4 DEF Untracked
    <3>3. stored = <<>> /\ DOMAIN stored = {} /\ stored' \in Seq(Event)
      <4>1. stored = <<>> /\ stored' \in Seq(Event)
        BY <1>1, <2>2, <2>4, <3>1, LooseIs DEF Abandoned, TypeOK
      <4> QED
        BY <4>1, EmptySeq
    <3>4. Initialised(c, "failed") /\ "failed" \in {"ok", "failed"}
      BY <1>7
    <3>5. tracked'.owner # c
      BY <1>4, <3>2
    <3>6. /\ TypeOK' /\ PlacesInv' /\ SessionInv' /\ RegistryInv' /\ WantedInv'
          /\ EntryInv' /\ HolderInv' /\ VetoInv' /\ ChainInv' /\ LosingInv' /\ PendingInv'
      BY <1>1, <2>1, <2>2, <3>1, <3>2, <3>3, <3>4, <3>5, CreatedTail
    <3>7. OwnerInv'
      BY <2>2, <3>2, <3>3 DEF OwnerInv
    <3> QED
      BY <3>6, <3>7 DEF IInv
  <2> QED
    BY <2>3, <2>4
<1> QED
  BY <1>1, <1>5, <1>6, <1>7
-----------------------------------------------------------------------------
(* Publication: a Session enters the registries, and the coordinator attaches *)

\* A call whose Session has not been attached: it may still be published, or its
\* publication was vetoed and it is live all the same.
Standing(d) ==
  \/ sessions[d].stage = "none" /\ live = nobody /\ calls[d].at \in {"setup", "creating"}
  \/ sessions[d].stage = "vetoed" /\ live = d /\ calls[d].at \in {"vetoed", "failed"}

LEMMA PublishableStands ==
  ASSUME Inv, NEW c \in Callers, Publishable(c), live = nobody
  PROVE  Standing(c)
<1>1. SessionInv /\ calls[c].at \in {"setup", "creating"}
  BY DEF Inv, IInv, Publishable, At
<1> QED
  BY <1>1 DEF SessionInv, Standing

LEMMA VetoedStands ==
  ASSUME Inv, Unattached
  PROVE  live \in Callers /\ Standing(live)
<1>1. TypeOK /\ VetoInv
  BY DEF Inv, IInv
<1>2. live \in Callers /\ sessions[live].stage = "vetoed"
  BY <1>1 DEF Unattached, TypeOK
<1> QED
  BY <1>1, <1>2 DEF VetoInv, Standing

\* Such a Session has nothing in the log or in the chain.
LEMMA StandingIs ==
  ASSUME Inv, NEW c \in Callers, Standing(c)
  PROVE  /\ calls[c].at \in {"setup", "creating", "vetoed", "failed"}
         /\ sessions[c].stage \in {"none", "vetoed"} /\ sessions[c].init = "none"
         /\ calls[c].at \in {"setup", "creating"} => calls[c].kind \in {"resume", "create", "configured"}
         /\ calls[c].at = "creating" => calls[c].kind = "configured"
         /\ tracked.owner # c /\ retiring # c /\ c # nobody /\ live \in {c, nobody}
         /\ \A d \in Callers : d # c => sessions[d].stage \notin {"live", "vetoed"}
                                        /\ calls[d].at \notin {"live", "vetoed", "disposing"}
         /\ \A o \in Op : OpInv(o) => o.by # c
         /\ \A i \in DOMAIN stored : stored[i].by # c
         /\ \A op \in {"read", "commit", "check", "created", "seed", "drain", "retire"} : ~Queued(op, c)
<1>1. /\ TypeOK /\ PlacesInv /\ SessionInv /\ RegistryInv /\ OwnerInv /\ ChainInv
  BY DEF Inv, IInv
<1>2. /\ calls[c].at \in {"setup", "creating", "vetoed", "failed"} /\ c # nobody
      /\ sessions[c].stage \in {"none", "vetoed"} /\ live \in {c, nobody}
  BY PreparationsAssumption DEF Standing
<1>3. sessions[c].init = "none"
  BY <1>1, <1>2 DEF SessionInv
<1>4. /\ calls[c].at \in {"setup", "creating"} => calls[c].kind \in {"resume", "create", "configured"}
      /\ calls[c].at = "creating" => calls[c].kind = "configured"
  BY PlaceSays, PlacesAre DEF CallKinds
<1>5. \A d \in Callers : d # c => sessions[d].stage \notin {"live", "vetoed"}
                                  /\ calls[d].at \notin {"live", "vetoed", "disposing"}
  BY <1>1, <1>2, PreparationsAssumption DEF RegistryInv
<1>6. tracked.owner # c /\ retiring # c
  BY <1>1, <1>2, PreparationsAssumption DEF OwnerInv, RegistryInv
<1>7. ASSUME NEW o \in Op, OpInv(o) PROVE o.by # c
  <2>1. CASE o.op = "read"
    BY <1>2, <1>7, <2>1 DEF OpInv
  <2>2. CASE o.op \in {"commit", "check"}
    BY <1>2, <1>7, <2>2 DEF OpInv, At
  <2>3. CASE o.op \in {"created", "seed", "drain", "retire"}
    BY <1>2, <1>3, <1>7, <2>3 DEF OpInv, Started
  <2> QED
    BY <2>1, <2>2, <2>3 DEF Op
<1>8. \A i \in DOMAIN stored : stored[i].by # c
  BY <1>1, <1>3 DEF OwnerInv
<1>9. \A op \in {"read", "commit", "check", "created", "seed", "drain", "retire"} : ~Queued(op, c)
  <2>1. \A i \in DOMAIN chain : chain[i] \in Op /\ OpInv(chain[i])
    BY <1>1, ChainNats DEF ChainInv, TypeOK
  <2>2. ASSUME NEW i \in DOMAIN chain PROVE chain[i].by # c
    <3>1. PICK o \in Op : o = chain[i]
      BY <2>1
    <3>2. OpInv(o)
      BY <2>1, <3>1
    <3> QED
      BY <1>7, <3>1, <3>2
  <2> QED
    BY <2>2 DEF Queued
<1> QED
  BY <1>2, <1>3, <1>4, <1>5, <1>6, <1>7, <1>8, <1>9

LEMMA EnteredIs ==
  ASSUME TypeOK, NEW c \in Callers, NEW init \in {"none", "pending", "ok"},
         NEW stage \in {"live", "vetoed"}, sessions' = Entered(c, init, stage),
         NEW log \in Seq(Event), SessionOf(c) = log
  PROVE  /\ sessions' \in [Callers -> SessionRec]
         /\ \A d \in Callers : d # c => sessions'[d] = sessions[d]
         /\ sessions'[c].events = log /\ sessions'[c].seeded = Len(log)
         /\ sessions'[c].init = init /\ sessions'[c].stage = stage
<1> DEFINE r == [events |-> SessionOf(c), seeded |-> Len(SessionOf(c)), init |-> init, stage |-> stage]
<1>1. sessions \in [Callers -> SessionRec] /\ Len(log) \in Nat
  BY DEF TypeOK, SessionRec
<1>2. /\ r \in SessionRec /\ r.events = log /\ r.seeded = Len(log)
      /\ r.init = init /\ r.stage = stage
  BY <1>1 DEF SessionRec
<1>3. sessions' = [sessions EXCEPT ![c] = r]
  BY DEF Entered
<1> HIDE DEF r
<1> QED
  BY <1>2, <1>3, SessionUpdated

LEMMA AttachedNowIs ==
  ASSUME TypeOK, NEW c \in Callers, NEW init \in {"pending", "ok"}, sessions' = AttachedNow(c, init)
  PROVE  /\ sessions' \in [Callers -> SessionRec]
         /\ \A d \in Callers : d # c => sessions'[d] = sessions[d]
         /\ sessions'[c].events = sessions[c].events /\ sessions'[c].seeded = sessions[c].seeded
         /\ sessions'[c].init = init /\ sessions'[c].stage = "live"
<1> DEFINE r == [sessions[c] EXCEPT !.init = init, !.stage = "live"]
<1>1. sessions \in [Callers -> SessionRec]
  BY DEF TypeOK, SessionRec
<1>2. /\ r \in SessionRec /\ r.events = sessions[c].events /\ r.seeded = sessions[c].seeded
      /\ r.init = init /\ r.stage = "live"
  BY <1>1 DEF SessionRec
<1>3. sessions' = [sessions EXCEPT ![c] = r]
  BY DEF AttachedNow
<1> HIDE DEF r
<1> QED
  BY <1>2, <1>3, SessionUpdated

\* What an attachment does to the calls and to the registries: the publication
\* of c, or a load that flushes the Session of c.
Enters(c) ==
  /\ calls' \in [Callers -> Call] /\ calls'[c].kind = calls[c].kind
  /\ \A d \in Callers : d # c =>
       /\ calls'[d].kind = calls[d].kind
       /\ \/ calls'[d].at = calls[d].at
          \/ calls[d].at = "queued" /\ calls'[d].at = "read"
          \/ calls[d].kind = "load" /\ calls[d].at \in {"waiting", "committed"} /\ calls'[d].at = "flushing"
  /\ calls'[c].at \in {"live", "vetoed", "failed"}
  /\ calls'[c].at = calls[c].at \/ calls[c].at \in {"setup", "creating"}
  /\ calls'[c].at = "vetoed" => calls[c].at # "creating"
  /\ live' = c /\ retiring' = retiring /\ stored' = stored /\ left' \in [Kinds -> Nat]

\* The parts that do not depend on how the coordinator attaches.
LEMMA EntersRest ==
  ASSUME Inv, NEW c \in Callers, Standing(c), Enters(c),
         sessions' \in [Callers -> SessionRec], \A d \in Callers : d # c => sessions'[d] = sessions[d],
         sessions'[c].stage = "live", sessions'[c].init \in {"ok", "pending"},
         sessions'[c].seeded = Len(sessions'[c].events), entry' = NoEntry,
         calls[c].at = "setup" /\ calls[c].kind = "configured" => stored # <<>>,
         \A d \in Callers : d # c => calls'[d].at \notin {"committed", "reserved"}
                                     /\ (calls'[d].at = "setup" => calls[d].kind = "create")
  PROVE  PlacesInv' /\ SessionInv' /\ RegistryInv' /\ EntryInv' /\ HolderInv' /\ VetoInv'
<1>1. /\ TypeOK /\ PlacesInv /\ SessionInv /\ RegistryInv
      /\ live' = c /\ retiring' = retiring /\ stored' = stored
  BY DEF Inv, IInv, Enters
<1>2. /\ calls[c].at \in {"setup", "creating", "vetoed", "failed"}
      /\ sessions[c].stage \in {"none", "vetoed"} /\ sessions[c].init = "none"
      /\ calls[c].at \in {"setup", "creating"} => calls[c].kind \in {"resume", "create", "configured"}
      /\ calls[c].at = "creating" => calls[c].kind = "configured"
      /\ retiring # c
      /\ \A d \in Callers : d # c => sessions[d].stage \notin {"live", "vetoed"}
                                     /\ calls[d].at \notin {"live", "vetoed", "disposing"}
  BY StandingIs
<1>3. /\ calls'[c].at \in {"live", "vetoed", "failed"}
      /\ calls'[c].at = calls[c].at \/ calls[c].at \in {"setup", "creating"}
      /\ calls'[c].at = "vetoed" => calls[c].at # "creating"
  BY DEF Enters
<1>4. \A d \in Callers : d # c =>
       /\ calls'[d].kind = calls[d].kind
       /\ \/ calls'[d].at = calls[d].at
          \/ calls[d].at = "queued" /\ calls'[d].at = "read"
          \/ calls[d].kind = "load" /\ calls[d].at \in {"waiting", "committed"} /\ calls'[d].at = "flushing"
  BY DEF Enters
<1>5. calls'[c].kind = calls[c].kind
  BY DEF Enters
<1>6. PlacesInv'
  <2>1. ASSUME NEW d \in Callers, d # c PROVE calls'[d].at \in Places(calls'[d].kind)
    <3>1. CASE calls'[d].at = calls[d].at \/ (calls[d].at = "queued" /\ calls'[d].at = "read")
      BY <1>4, <2>1, <3>1, WokenPlaces
    <3>2. CASE calls[d].kind = "load" /\ calls'[d].at = "flushing"
      BY <1>4, <2>1, <3>2, PlacesAre
    <3> QED
      BY <1>4, <2>1, <3>1, <3>2
  <2>2. calls'[c].at \in Places(calls'[c].kind)
    <3>1. CASE calls'[c].at = calls[c].at
      BY <1>5, <3>1, WokenPlaces
    <3>2. CASE calls[c].kind \in {"resume", "create", "configured"}
      BY <1>3, <1>5, <3>2, PlacesAre
    <3> QED
      BY <1>2, <1>3, <3>1, <3>2
  <2> QED
    BY <2>1, <2>2 DEF PlacesInv
<1>7. SessionInv'
  <2>1. ASSUME NEW d \in Callers, d # c
        PROVE  /\ calls'[d].kind = calls[d].kind
               /\ calls[d].at \in {"live", "vetoed", "disposing", "done", "failed", "rollback", "listing"} =>
                    calls'[d].at \in {"live", "vetoed", "disposing", "done", "failed", "rollback", "listing"}
               /\ calls'[d].at \in {"vetoed", "rollback", "listing"} => calls[d].at \in {"vetoed", "rollback", "listing"}
               /\ sessions'[d] = sessions[d]
    BY <1>4, <2>1
  <2>2. sessions'[c].seeded <= Len(sessions'[c].events)
    <3>1. sessions'[c].seeded \in Nat
      BY DEF SessionRec
    <3> QED
      BY <3>1
  <2>3. sessions'[c].stage \notin {"none", "vetoed", "withdrawn"} /\ sessions'[c].init # "none"
    OBVIOUS
  <2>4. calls[c].kind = "configured" /\ calls'[c].at = "vetoed" => stored # <<>>
    <3> SUFFICES ASSUME calls[c].kind = "configured", calls'[c].at = "vetoed" PROVE stored # <<>>
      OBVIOUS
    <3>1. CASE calls[c].at = "setup"
      BY <3>1
    <3>2. CASE calls[c].at = "vetoed"
      <4>1. sessions[c].stage # "none"
        BY <3>2 DEF Standing
      <4> QED
        BY <1>1, <3>2, <4>1 DEF SessionInv
    <3> QED
      BY <1>3, <3>1, <3>2
  <2>5. ASSUME NEW d \in Callers, d # c
        PROVE  /\ sessions'[d].stage \in {"none", "vetoed", "withdrawn"} <=> sessions'[d].init = "none"
               /\ sessions'[d].stage = "none" => \A i \in DOMAIN sessions'[d].events : sessions'[d].events[i].by = d
               /\ sessions'[d].stage # "none" =>
                    calls'[d].at \in {"live", "vetoed", "disposing", "done", "failed", "rollback", "listing"}
               /\ calls'[d].kind = "configured" /\ calls'[d].at \in {"vetoed", "rollback", "listing"}
                    /\ sessions'[d].stage # "none" => stored # <<>>
               /\ sessions'[d].seeded <= Len(sessions'[d].events)
    BY <1>1, <2>1, <2>5 DEF SessionInv
  <2>6. /\ sessions'[c].stage \in {"none", "vetoed", "withdrawn"} <=> sessions'[c].init = "none"
        /\ sessions'[c].stage = "none" => \A i \in DOMAIN sessions'[c].events : sessions'[c].events[i].by = c
        /\ sessions'[c].stage # "none" =>
             calls'[c].at \in {"live", "vetoed", "disposing", "done", "failed", "rollback", "listing"}
        /\ calls'[c].kind = "configured" /\ calls'[c].at \in {"vetoed", "rollback", "listing"}
             /\ sessions'[c].stage # "none" => stored # <<>>
        /\ sessions'[c].seeded <= Len(sessions'[c].events)
    BY <1>3, <1>5, <2>2, <2>3, <2>4
  <2> QED
    BY <1>1, <2>5, <2>6 DEF SessionInv
<1>8. RegistryInv'
  <2>1. retiring # nobody => retiring \in Callers /\ retiring # c /\ sessions[retiring].stage \in {"retiring", "leaving"}
    BY <1>1, <1>2 DEF RegistryInv, TypeOK
  <2> QED
    BY <1>1, <1>2, <1>4, <2>1 DEF RegistryInv
<1>9. EntryInv'
  BY DEF EntryInv, NoEntry, Exclusive
<1>10. HolderInv'
  <2>1. entry'.holder = nobody /\ entry'.phase = "none"
    BY DEF NoEntry
  <2> QED
    BY <1>3, <1>4, <2>1, PreparationsAssumption DEF HolderInv
<1>11. VetoInv'
  BY <1>2 DEF VetoInv
<1> QED
  BY <1>6, <1>7, <1>8, <1>9, <1>10, <1>11

\* The Session of a preparation, over the log s: the mark is its own.
LEMMA MarkedIs ==
  ASSUME NEW s \in Seq(Event), s # <<>>, NEW c \in Callers
  PROVE  /\ Marked(s, c) \in Seq(Event) /\ IsPrefix(s, Marked(s, c))
         /\ Len(s) \in Nat /\ Len(Marked(s, c)) \in Nat /\ Len(s) > 0
         /\ \A i \in DOMAIN Marked(s, c) : i > Len(s) => Marked(s, c)[i].by = c
<1>1. Own(c, "mark") \in Event /\ Own(c, "mark").by = c
  BY DEF Own, Event
<1>2. Len(s) \in Nat /\ Len(s) > 0 /\ DOMAIN s = 1 .. Len(s)
  BY EmptySeq, LenProperties
<1>3. IsPrefix(s, s) /\ IsPrefix(s, Append(s, Own(c, "mark")))
  BY <1>1, PrefixOrder
<1> DEFINE t == Append(s, Own(c, "mark"))
<1>4. /\ t \in Seq(Event) /\ Len(t) = Len(s) + 1 /\ t[Len(s) + 1] = Own(c, "mark")
  BY <1>1, AppendProperties
<1>5. DOMAIN t = 1 .. Len(t)
  BY <1>4, LenProperties
<1>6. Marked(s, c) \in {s, t}
  BY DEF Marked
<1> HIDE DEF t
<1>7. \A i \in DOMAIN t : i > Len(s) => t[i].by = c
  BY <1>1, <1>2, <1>4, <1>5
<1>8. \A i \in DOMAIN s : ~(i > Len(s))
  BY <1>2
<1>9. CASE Marked(s, c) = s
  BY <1>2, <1>3, <1>8, <1>9
<1>10. CASE Marked(s, c) = t
  BY <1>2, <1>3, <1>4, <1>7, <1>10 DEF t
<1> QED
  BY <1>6, <1>9, <1>10

LEMMA PreparedIs ==
  ASSUME Inv, NEW c \in Callers, entry.holder = c, entry.phase = "reserved"
  PROVE  /\ tracked.known /\ tracked.owner = nobody /\ tracked.cursor = Len(stored)
         /\ entry.source = stored /\ stored \in Seq(Event) /\ Len(stored) \in Nat /\ Len(stored) > 0
         /\ Balanced(entry.source) = stored
         /\ Prepared \in Seq(Event) /\ IsPrefix(stored, Prepared) /\ Len(Prepared) \in Nat
         /\ \A i \in DOMAIN Prepared : i > Len(stored) => Prepared[i].by = c
<1>1. TypeOK /\ EntryInv /\ HolderInv
  BY DEF Inv, IInv
<1>2. /\ tracked.known /\ tracked.owner = nobody /\ tracked.cursor = Len(stored)
      /\ entry.source = stored /\ ~Interrupted(stored) /\ entry.source # <<>>
  BY <1>1 DEF HolderInv, Settled, EntryInv
<1>3. stored \in Seq(Event) /\ entry.added \in Seq(Event) /\ stored # <<>>
  BY <1>1, <1>2 DEF TypeOK
<1>4. Balanced(entry.source) = stored
  BY <1>2, <1>3, BalancedIs
<1> DEFINE added == entry.added
           head == Marked(stored, c)
           log == head \o added
<1>5. Prepared = log
  BY <1>4 DEF Prepared
<1>6. /\ head \in Seq(Event) /\ IsPrefix(stored, head) /\ Len(stored) \in Nat /\ Len(head) \in Nat /\ Len(stored) > 0
      /\ \A i \in DOMAIN head : i > Len(stored) => head[i].by = c
  BY <1>3, MarkedIs
<1>7. \A i \in DOMAIN added : added[i].by = c
  BY <1>1 DEF EntryInv
<1>8. added \in Seq(Event)
  BY <1>3
<1> HIDE DEF head, added
<1>9. DOMAIN head = 1 .. Len(head) /\ DOMAIN added = 1 .. Len(added) /\ Len(added) \in Nat
  BY <1>6, <1>8, LenProperties
<1>10. /\ log \in Seq(Event) /\ Len(log) = Len(head) + Len(added)
       /\ \A i \in 1 .. Len(head) + Len(added) : log[i] = IF i <= Len(head) THEN head[i] ELSE added[i - Len(head)]
  BY <1>6, <1>8, ConcatProperties
<1>11. IsPrefix(head, log)
  BY <1>6, <1>8, PrefixOrder
<1> HIDE DEF log
<1>12. IsPrefix(stored, log)
  BY <1>3, <1>6, <1>10, <1>11, PrefixOrder
<1>13. DOMAIN log = 1 .. Len(log) /\ Len(log) \in Nat
  BY <1>10, LenProperties
<1>14. ASSUME NEW i \in DOMAIN log, i > Len(stored) PROVE log[i].by = c
  <2>1. CASE i <= Len(head)
    <3>1. i \in DOMAIN head /\ log[i] = head[i]
      BY <1>6, <1>9, <1>10, <1>13, <2>1
    <3> QED
      BY <1>6, <1>14, <3>1
  <2>2. CASE ~(i <= Len(head))
    <3>1. i - Len(head) \in DOMAIN added /\ log[i] = added[i - Len(head)]
      BY <1>6, <1>9, <1>10, <1>13, <2>2
    <3> QED
      BY <1>7, <3>1
  <2> QED
    BY <2>1, <2>2
<1> QED
  BY <1>2, <1>3, <1>4, <1>5, <1>6, <1>10, <1>12, <1>13, <1>14

\* The Session of a preparation: the coordinator gives it the log.
LEMMA HolderEnters ==
  ASSUME Inv, NEW c \in Callers, Standing(c), entry.holder = c, entry.phase = "reserved",
         Enters(c), Attaches(c),
         sessions' \in [Callers -> SessionRec], \A d \in Callers : d # c => sessions'[d] = sessions[d],
         sessions'[c].events = Prepared, sessions'[c].seeded = Len(Prepared),
         sessions'[c].init = InitBy(c), sessions'[c].stage = "live"
  PROVE  TypeOK' /\ IInv'
<1>1. /\ TypeOK /\ OwnerInv /\ WantedInv /\ EntryInv /\ HolderInv
      /\ LosingInv /\ ChainInv /\ PendingInv /\ stored' = stored
  BY DEF Inv, IInv, Enters
<1>2. /\ sessions[c].init = "none"
      /\ \A o \in Op : OpInv(o) => o.by # c
      /\ \A i \in DOMAIN stored : stored[i].by # c
      /\ ~Queued("seed", c) /\ c # nobody
  BY StandingIs
<1> DEFINE log == Prepared
<1>4. /\ tracked.known /\ tracked.owner = nobody /\ tracked.cursor = Len(stored)
      /\ entry.source = stored /\ stored \in Seq(Event) /\ Len(stored) \in Nat /\ Len(stored) > 0
      /\ log \in Seq(Event) /\ IsPrefix(stored, log) /\ Len(log) \in Nat
      /\ \A i \in DOMAIN log : i > Len(stored) => log[i].by = c
  BY PreparedIs
<1>5. stored # <<>>
  BY <1>4, EmptySeq
<1>9. sessions'[c].init = (IF Complete THEN "ok" ELSE "pending") /\ (Complete <=> Len(log) = tracked.cursor)
  BY DEF InitBy, Complete
<1>8. /\ sessions'[c].events = log /\ sessions'[c].seeded = Len(log) /\ sessions'[c].stage = "live"
      /\ \A d \in Callers : d # c => sessions'[d] = sessions[d]
  OBVIOUS
<1> HIDE DEF log
<1>10. /\ tracked' \in [known : BOOLEAN, cursor : Nat, owner : Callers \cup {nobody}]
       /\ tracked'.known /\ tracked'.cursor = Len(stored) /\ tracked'.owner = c
  <2>1. tracked' = [tracked EXCEPT !.owner = c]
    BY DEF Attaches
  <2> QED
    BY <1>1, <1>4, <2>1 DEF TypeOK
<1>11. entry' = NoEntry
  BY DEF Attaches
<1>12. (Complete /\ chain' = chain) \/ (~Complete /\ Enqueued("seed", c, 0))
  BY DEF Attaches
<1>13. /\ calls' \in [Callers -> Call] /\ left' \in [Kinds -> Nat]
       /\ calls'[c].at \notin {"queued", "committing", "checking", "committed", "reserved", "setup"}
       /\ \A d \in Callers : calls'[d].at \in {"committing", "checking", "committed", "reserved", "setup"} =>
            d # c /\ calls'[d].at = calls[d].at /\ calls'[d].kind = calls[d].kind
       /\ \A d \in Callers : calls[d].at \in {"committing", "checking"} => calls'[d].at = calls[d].at
       /\ live' = c /\ retiring' = retiring
  BY StandingIs DEF Enters
<1>14. PlacesInv' /\ SessionInv' /\ RegistryInv' /\ EntryInv' /\ HolderInv' /\ VetoInv'
  <2>1. ASSUME NEW d \in Callers, d # c
        PROVE  calls'[d].at \notin {"committed", "reserved"} /\ (calls'[d].at = "setup" => calls[d].kind = "create")
    <3>1. calls[d].at \notin {"committed", "reserved"} /\ (calls[d].at = "setup" => calls[d].kind = "create")
      BY <1>1, <2>1 DEF HolderInv
    <3> QED
      BY <1>13, <3>1
  <2>2. sessions'[c].init \in {"ok", "pending"} /\ sessions'[c].seeded = Len(sessions'[c].events)
    BY <1>8, <1>9
  <2> QED
    BY <1>5, <1>8, <1>11, <2>1, <2>2, EntersRest
<1>15. OwnerInv'
  <2>1. sessions'[c].init = "ok" => sessions'[c].seeded <= Len(stored)
    BY <1>4, <1>8, <1>9
  <2>2. \A i \in DOMAIN stored : stored[i].by \in Callers => sessions'[stored[i].by].init = "ok"
    BY <1>1, <1>2, <1>8 DEF OwnerInv
  <2>3. sessions'[c].stage \notin {"none", "vetoed", "withdrawn", "retired"}
    BY <1>8
  <2>4. IsPrefix(stored', sessions'[c].events)
    BY <1>1, <1>4, <1>8
  <2>5. \A i \in DOMAIN sessions'[c].events : i > Len(stored') => sessions'[c].events[i].by = c
    BY <1>1, <1>4, <1>8
  <2> QED
    BY <1>1, <1>2, <1>10, <2>1, <2>2, <2>3, <2>4, <2>5 DEF OwnerInv
<1>16. WantedInv'
  <2>1. \A d \in Callers : d # c => ~(sessions'[d].init = "ok" /\ sessions'[d].stage \in {"live", "retiring"} /\ sessions'[d].events # <<>>)
    BY <1>1, <1>4, <1>8, PreparationsAssumption DEF WantedInv, Owns
  <2> QED
    BY <1>10, <1>13, <2>1 DEF WantedInv, Owns
<1>17. \A i \in DOMAIN chain : chain[i].op \notin {"created", "seed"}
  BY <1>1 DEF PendingInv, PendingEntry
<1>18. ASSUME NEW o \in Op, OpInv(o) PROVE OpInv(o)'
  <2>1. o.by # c
    BY <1>2, <1>18
  <2>2. o.op \notin {"seed", "drain"}
    BY <1>4, <1>18, PreparationsAssumption DEF OpInv, Owns
  <2>3. CASE o.op \in {"read", "commit", "check"}
    BY <1>13, <1>18, <2>1, <2>3 DEF OpInv, At
  <2>4. CASE o.op \in {"created", "retire"}
    <3>1. o.by \in Callers /\ sessions'[o.by] = sessions[o.by]
      BY <1>8, <1>18, <2>1, <2>4 DEF OpInv
    <3>2. ~Owns(o.by)'
      BY <1>10, <2>1 DEF Owns
    <3> QED
      BY <1>18, <2>4, <3>1, <3>2 DEF OpInv, Started
  <2> QED
    BY <2>2, <2>3, <2>4 DEF Op
<1>19. \A d \in Callers : calls'[d].at # "committing"
  <2>1. ASSUME NEW d \in Callers, calls[d].at = "committing" PROVE FALSE
    <3>1. entry.holder # d
      BY <1>1, <2>1 DEF HolderInv
    <3> QED
      BY <1>1, <1>4, <2>1, <3>1 DEF LosingInv, Losing
  <2> QED
    BY <1>13, <2>1
<1>20. /\ entry'.no = 0 /\ entry'.phase = "none"
  BY <1>11 DEF NoEntry
<1>21. CASE Complete
  <2>1. chain' = chain /\ chain \in Seq(Op)
    BY <1>1, <1>12, <1>21 DEF TypeOK
  <2>2. \A i \in DOMAIN chain : chain[i] \in Op
    BY <2>1, ChainNats
  <2>3. Without(Len(chain) + 1) /\ Len(chain) + 1 \notin DOMAIN chain
    BY <2>1, WithoutNone
  <2>4. ChainInv'
    BY <1>1, <1>18, <2>3, WithoutChain
  <2>5. LosingInv'
    BY <1>19 DEF LosingInv, Losing
  <2>6. PendingInv'
    <3>1. PendingEntry'
      BY <1>17, <2>1 DEF PendingEntry
    <3>2. PendingLive'
      BY <1>17, <2>1 DEF PendingLive
    <3>3. PendingInit'
      <4>1. ASSUME NEW d \in Callers, sessions'[d].init = "pending" PROVE FALSE
        <5>1. d # c /\ sessions[d].init = "pending"
          BY <1>8, <1>9, <1>21, <4>1
        <5> QED
          BY <1>1, <1>17, <5>1 DEF PendingInv, PendingInit, Queued
      <4> QED
        BY <4>1 DEF PendingInit
    <3>4. ReadsPending'
      BY <1>1, <1>20, <2>1 DEF ReadsPending, ChainInv, OpInv
    <3> QED
      BY <3>1, <3>2, <3>3, <3>4 DEF PendingInv
  <2>7. TypeOK'
    BY <1>1, <1>10, <1>11, <1>13, <2>1, EntryTypes DEF TypeOK, SessionRec
  <2> QED
    BY <1>14, <1>15, <1>16, <2>4, <2>5, <2>6, <2>7 DEF IInv
<1>22. CASE ~Complete
  <2>1. Enqueued("seed", c, 0) /\ chain \in Seq(Op) /\ 0 \in Nat /\ c \in Callers \cup {nobody}
        /\ "seed" \in {"read", "commit", "check", "created", "seed", "drain", "retire"}
    BY <1>1, <1>12, <1>22 DEF TypeOK
  <2>2. /\ chain' \in Seq(Op) /\ Len(chain) \in Nat /\ Len(chain') = Len(chain) + 1
        /\ DOMAIN chain = 1 .. Len(chain) /\ DOMAIN chain' = 1 .. Len(chain) + 1
        /\ \A i \in DOMAIN chain : chain'[i] = chain[i]
        /\ chain'[Len(chain) + 1] = [op |-> "seed", by |-> c, n |-> 0]
    BY <2>1, EnqueuedIs, Zenon
  <2>3. /\ Len(chain) + 1 \in DOMAIN chain'
        /\ \A i \in DOMAIN chain' : i \in DOMAIN chain \/ i = Len(chain) + 1
    BY <2>2
  <2>4. ChainInv'
    <3>1. OpInv([op |-> "seed", by |-> c, n |-> 0])'
      BY <1>4, <1>8, <1>9, <1>10, <1>22 DEF OpInv, Started, Owns
    <3> QED
      BY <1>1, <1>2, <1>18, <2>1, <3>1, EnqueuedChain
  <2>5. LosingInv'
    BY <1>19 DEF LosingInv, Losing
  <2>6. PendingInv'
    <3>1. PendingEntry'
      BY <1>20 DEF PendingEntry
    <3>2. PendingLive'
      BY <1>17, <2>2, <2>3 DEF PendingLive
    <3>3. PendingInit'
      <4>1. ASSUME NEW d \in Callers, sessions'[d].init = "pending" PROVE d = c
        <5>1. d # c => sessions[d].init = "pending"
          BY <1>8, <4>1
        <5> QED
          BY <1>1, <1>17, <5>1 DEF PendingInv, PendingInit, Queued
      <4>2. Queued("seed", c)'
        BY <2>2, <2>3 DEF Queued
      <4> QED
        BY <4>1, <4>2 DEF PendingInit
    <3>4. ReadsPending'
      BY <1>1, <1>20, <2>2, <2>3 DEF ReadsPending, ChainInv, OpInv
    <3> QED
      BY <3>1, <3>2, <3>3, <3>4 DEF PendingInv
  <2>7. TypeOK'
    BY <1>1, <1>10, <1>11, <1>13, <2>2, EntryTypes DEF TypeOK, SessionRec
  <2> QED
    BY <1>14, <1>15, <1>16, <2>4, <2>5, <2>6, <2>7 DEF IInv
<1> QED
  BY <1>21, <1>22

\* The Session of a create, and one whose preparation was given up: onCreated
\* will look at the log.
LEMMA CreatedEnters ==
  ASSUME Inv, NEW c \in Callers, Standing(c), Enters(c),
         entry' = NoEntry, tracked' = tracked, Enqueued("created", c, 0),
         \A d \in Callers : calls[d].at = "committing" => entry.holder # d,
         calls[c].at = "setup" /\ calls[c].kind = "configured" => stored # <<>>,
         \A d \in Callers : d # c => calls'[d].at \notin {"committed", "reserved"}
                                     /\ (calls'[d].at = "setup" => calls[d].kind = "create"),
         \A i \in DOMAIN sessions[c].events : sessions[c].events[i].by = c,
         sessions' \in [Callers -> SessionRec], \A d \in Callers : d # c => sessions'[d] = sessions[d],
         sessions'[c].events = sessions[c].events, sessions'[c].seeded = Len(sessions[c].events),
         sessions'[c].init = "pending", sessions'[c].stage = "live"
  PROVE  TypeOK' /\ IInv'
<1>1. /\ TypeOK /\ SessionInv /\ OwnerInv /\ WantedInv
      /\ LosingInv /\ ChainInv /\ PendingInv /\ stored' = stored
  BY DEF Inv, IInv, Enters
<1>2. /\ sessions[c].init = "none" /\ tracked.owner # c
      /\ \A o \in Op : OpInv(o) => o.by # c
      /\ \A i \in DOMAIN stored : stored[i].by # c
      /\ ~Queued("created", c) /\ c # nobody
  BY StandingIs
<1>4. tracked' = tracked /\ Enqueued("created", c, 0) /\ entry' = NoEntry
  OBVIOUS
<1>5. /\ sessions' \in [Callers -> SessionRec]
      /\ \A d \in Callers : d # c => sessions'[d] = sessions[d]
      /\ sessions'[c].events = sessions[c].events /\ sessions'[c].seeded = Len(sessions[c].events)
      /\ sessions'[c].init = "pending" /\ sessions'[c].stage = "live"
  OBVIOUS
<1>6. /\ calls' \in [Callers -> Call] /\ left' \in [Kinds -> Nat]
      /\ \A d \in Callers : calls'[d].at = "committing" => calls[d].at = "committing"
      /\ \A d \in Callers : calls[d].at \in {"committing", "checking"} => calls'[d].at = calls[d].at
      /\ live' = c /\ retiring' = retiring
  BY StandingIs DEF Enters
<1>7. entry'.holder = nobody /\ entry'.phase = "none" /\ entry'.no = 0
  BY <1>4 DEF NoEntry
<1>9. PlacesInv' /\ SessionInv' /\ RegistryInv' /\ EntryInv' /\ HolderInv' /\ VetoInv'
  <2>1. sessions'[c].init \in {"ok", "pending"} /\ sessions'[c].seeded = Len(sessions'[c].events)
    BY <1>5
  <2> QED
    BY <1>4, <1>5, <2>1, EntersRest
<1>10. OwnerInv'
  <2>1. \A i \in DOMAIN stored : stored[i].by \in Callers => sessions'[stored[i].by].init = "ok"
    BY <1>1, <1>2, <1>5 DEF OwnerInv
  <2>2. tracked.owner # nobody => tracked.owner \in Callers /\ sessions'[tracked.owner] = sessions[tracked.owner]
    BY <1>1, <1>2, <1>5 DEF TypeOK
  <2> QED
    BY <1>1, <1>4, <2>1, <2>2 DEF OwnerInv
<1>11. WantedInv'
  BY <1>1, <1>2, <1>4, <1>5, <1>6 DEF WantedInv, Owns
<1>12. ASSUME NEW o \in Op, OpInv(o) PROVE OpInv(o)'
  <2>1. o.by # c
    BY <1>2, <1>12
  <2>3. CASE o.op \in {"read", "commit", "check"}
    BY <1>6, <1>12, <2>3 DEF OpInv, At
  <2>4. CASE o.op \in {"created", "seed", "drain", "retire"}
    <3>1. o.by \in Callers /\ sessions'[o.by] = sessions[o.by]
      BY <1>5, <1>12, <2>1, <2>4 DEF OpInv
    <3> QED
      BY <1>4, <1>12, <2>4, <3>1 DEF OpInv, Started, Owns
  <2> QED
    BY <2>3, <2>4 DEF Op
<1>13. /\ chain \in Seq(Op) /\ 0 \in Nat /\ c \in Callers \cup {nobody}
       /\ "created" \in {"read", "commit", "check", "created", "seed", "drain", "retire"}
  BY <1>1 DEF TypeOK
<1>14. /\ chain' \in Seq(Op) /\ Len(chain) \in Nat /\ Len(chain') = Len(chain) + 1
       /\ DOMAIN chain = 1 .. Len(chain) /\ DOMAIN chain' = 1 .. Len(chain) + 1
       /\ \A i \in DOMAIN chain : chain'[i] = chain[i]
       /\ chain'[Len(chain) + 1] = [op |-> "created", by |-> c, n |-> 0]
  BY <1>4, <1>13, EnqueuedIs, Zenon
<1>15. /\ Len(chain) + 1 \in DOMAIN chain'
       /\ \A i \in DOMAIN chain' : (i \in DOMAIN chain \/ i = Len(chain) + 1) /\ Len(chain) + 1 >= i
  BY <1>14
<1>16. ChainInv'
  <2>1. OpInv([op |-> "created", by |-> c, n |-> 0])'
    <3>1. \A i \in DOMAIN sessions'[c].events : sessions'[c].events[i].by = c
      BY <1>5
    <3> QED
      BY <1>2, <1>4, <1>5, <3>1 DEF OpInv, Started, Owns
  <2> QED
    BY <1>1, <1>2, <1>4, <1>12, <1>13, <2>1, EnqueuedChain
<1>17. LosingInv'
  <2>1. \A d \in Callers : calls'[d].at = "committing" => calls[d].at = "committing"
    BY <1>6
  <2>2. \A d \in Callers : Losing(d)' => Losing(d)
    BY <2>1 DEF Losing
  <2> QED
    BY <1>1, <1>4, <1>13, <2>1, <2>2, EnqueuedLosing
<1>18. PendingInv'
  <2>1. PendingEntry'
    BY <1>7 DEF PendingEntry
  <2>2. PendingLive'
    <3>1. ASSUME NEW i \in DOMAIN chain', live' # nobody
          PROVE \E j \in DOMAIN chain' : j >= i /\ chain'[j].op = "created" /\ chain'[j].by = live'
      <4>1. live' = c
        BY <1>6, <3>1
      <4> QED
        BY <1>14, <1>15, <4>1
    <3> QED
      BY <3>1 DEF PendingLive
  <2>3. PendingInit'
    <3>1. ASSUME NEW d \in Callers, sessions'[d].init = "pending"
          PROVE  Queued("seed", d)' \/ Queued("created", d)'
      <4>1. CASE d = c
        BY <1>14, <1>15, <4>1 DEF Queued
      <4>2. CASE d # c
        <5>1. Queued("seed", d) \/ Queued("created", d)
          BY <1>1, <1>5, <3>1, <4>2 DEF PendingInv, PendingInit
        <5> QED
          BY <1>14, <5>1 DEF Queued
      <4> QED
        BY <4>1, <4>2
    <3> QED
      BY <3>1 DEF PendingInit
  <2>4. ReadsPending'
    <3>1. ASSUME NEW i \in DOMAIN chain', chain'[i].op = "read", chain'[i].n = 0 PROVE FALSE
      <4>1. i \in DOMAIN chain /\ chain[i].op = "read" /\ chain[i].n = 0
        BY <1>14, <1>15, <3>1
      <4>2. chain[i].n > 0
        BY <1>1, <4>1 DEF ChainInv, OpInv
      <4> QED
        BY <4>1, <4>2
    <3> QED
      BY <1>7, <3>1 DEF ReadsPending
  <2> QED
    BY <2>1, <2>2, <2>3, <2>4 DEF PendingInv
<1>19. TypeOK'
  BY <1>1, <1>4, <1>5, <1>6, <1>14, EntryTypes DEF TypeOK, SessionRec
<1> QED
  BY <1>9, <1>10, <1>11, <1>16, <1>17, <1>18, <1>19 DEF IInv

\* The calls when c goes on, and whoever waited for its preparation is woken.
LEMMA EntersBy ==
  ASSUME TypeOK, NEW c \in Callers, NEW cs \in [Callers -> Call], \A d \in Callers : d # c => cs[d] = calls[d],
         cs[c].kind = calls[c].kind, cs[c].at \in {"live", "vetoed", "failed"}, calls' = Woken(cs) \/ calls' = cs,
         cs[c].at = calls[c].at \/ calls[c].at \in {"setup", "creating"},
         cs[c].at = "vetoed" => calls[c].at # "creating",
         live' = c, retiring' = retiring, stored' = stored, left' \in [Kinds -> Nat]
  PROVE  Enters(c)
<1>1. cs[c].at # "queued"
  OBVIOUS
<1>2. /\ Others(c, cs) /\ Others(c, Woken(cs))
      /\ Woken(cs) \in [Callers -> Call] /\ Woken(cs)[c] = cs[c]
  BY <1>1, WakesOthers
<1>3. calls' \in [Callers -> Call] /\ Others(c, calls') /\ calls'[c] = cs[c]
  BY <1>2
<1>4. \A d \in Callers : d # c =>
        /\ calls'[d].kind = calls[d].kind
        /\ calls'[d].at = calls[d].at \/ (calls[d].at = "queued" /\ calls'[d].at = "read")
  BY <1>3, Others2
<1> QED
  BY <1>3, <1>4 DEF Enters

LEMMA AttachmentKeeps ==
  ASSUME Inv, NEW c \in Callers, Publishable(c), live = nobody, Attachable(c), Attaches(c),
         sessions' = Entered(c, InitBy(c), "live"), Enters(c)
  PROVE  TypeOK' /\ IInv'
<1>1. TypeOK /\ EntryInv /\ HolderInv /\ SessionInv /\ Standing(c) /\ calls[c].at \in {"setup", "creating"}
  BY PublishableStands DEF Inv, IInv, Publishable, At
<1>2. MayPublish(c) /\ InitBy(c) \in {"none", "pending", "ok"} /\ "live" \in {"live", "vetoed"}
  BY DEF Attachable, InitBy
<1>3. CASE entry.holder = c
  <2>1. entry.phase = "reserved"
    BY <1>1, <1>2, <1>3, PreparationsAssumption DEF MayPublish, EntryInv, NoEntry
  <2>2. SessionOf(c) = Prepared /\ Prepared \in Seq(Event)
    BY <1>3, <2>1, PreparedIs DEF SessionOf
  <2> HIDE DEF Prepared
  <2>3. PICK init \in {"none", "pending", "ok"} : init = InitBy(c)
    BY <1>2
  <2>4. /\ sessions' \in [Callers -> SessionRec]
        /\ \A d \in Callers : d # c => sessions'[d] = sessions[d]
        /\ sessions'[c].events = Prepared /\ sessions'[c].seeded = Len(Prepared)
        /\ sessions'[c].init = init /\ sessions'[c].stage = "live"
    <3>1. sessions' = Entered(c, init, "live")
      BY <2>3
    <3> QED
      BY <1>1, <1>2, <2>2, <3>1, EnteredIs
  <2> QED
    BY <1>1, <1>3, <2>1, <2>3, <2>4, HolderEnters
<1>4. CASE entry.holder # c
  <2>1. entry = NoEntry /\ entry' = NoEntry /\ tracked' = tracked /\ Enqueued("created", c, 0)
    BY <1>1, <1>2, <1>4 DEF MayPublish, EntryInv, Attaches
  <2>2. entry.holder = nobody
    BY <2>1 DEF NoEntry
  <2>3. \A d \in Callers : calls[d].at \notin {"committed", "reserved"} /\ (calls[d].at = "setup" => calls[d].kind = "create")
    BY <1>1, <2>2, PreparationsAssumption DEF HolderInv
  <2>4. ASSUME NEW d \in Callers, d # c
        PROVE  calls'[d].at \notin {"committed", "reserved"} /\ (calls'[d].at = "setup" => calls[d].kind = "create")
    BY <2>3, <2>4 DEF Enters
  <2>5. \A d \in Callers : entry.holder # d
    BY <2>2, PreparationsAssumption
  <2>6. SessionOf(c) = sessions[c].events /\ InitBy(c) = "pending" /\ sessions[c].events \in Seq(Event)
    BY <1>1, <1>4 DEF SessionOf, InitBy, TypeOK
  <2>7. \A i \in DOMAIN sessions[c].events : sessions[c].events[i].by = c
    BY <1>1 DEF SessionInv, Standing
  <2>8. /\ sessions' \in [Callers -> SessionRec]
        /\ \A d \in Callers : d # c => sessions'[d] = sessions[d]
        /\ sessions'[c].events = sessions[c].events /\ sessions'[c].seeded = Len(sessions[c].events)
        /\ sessions'[c].init = "pending" /\ sessions'[c].stage = "live"
    <3>1. sessions' = Entered(c, "pending", "live") /\ "pending" \in {"none", "pending", "ok"}
      BY <2>6
    <3> QED
      BY <1>1, <1>2, <2>6, <3>1, EnteredIs
  <2>9. ~(calls[c].at = "setup" /\ calls[c].kind = "configured")
    BY <2>3
  <2> QED
    BY <1>1, <2>1, <2>4, <2>5, <2>7, <2>8, <2>9, CreatedEnters
<1> QED
  BY <1>3, <1>4

LEMMA PublishesKeeps ==
  ASSUME Inv, NEW c \in Callers, Publishes(c)
  PROVE  TypeOK' /\ IInv'
<1>1. /\ TypeOK /\ Publishable(c) /\ live = nobody /\ Attachable(c)
      /\ Attaches(c) /\ sessions' = Entered(c, InitBy(c), "live") /\ stored' = stored
      /\ live' = c /\ retiring' = retiring /\ left' \in [Kinds -> Nat] /\ calls' = Woken(Live(c))
  BY DEF Publishes, Inv, TypeOK
<1>2. calls[c].at \in {"setup", "creating"}
  BY <1>1 DEF Publishable, At
<1> DEFINE r == [calls[c] EXCEPT !.at = "live", !.entry = 0, !.source = <<>>, !.awaits = nobody]
           g == [calls EXCEPT ![c] = r]
<1>3. calls \in [Callers -> Call] /\ <<>> \in Seq(Event)
  BY <1>1, EmptySeq DEF TypeOK
<1>4. r \in Call /\ r.at = "live" /\ r.kind = calls[c].kind
  BY <1>3 DEF Call
<1>5. calls' = Woken(g)
  BY <1>1 DEF Live
<1> HIDE DEF r
<1>6. g \in [Callers -> Call] /\ g[c] = r /\ \A d \in Callers : d # c => g[d] = calls[d]
  BY <1>3, <1>4, UpdateIs
<1> HIDE DEF g
<1>7. Enters(c)
  BY <1>1, <1>2, <1>4, <1>5, <1>6, EntersBy
<1> QED
  BY <1>1, <1>7, AttachmentKeeps

LEMMA LostIs ==
  ASSUME TypeOK, NEW c \in Callers, NEW place \in {"vetoed", "rollback"}
  PROVE  /\ Lost(c, place) \in [Callers -> Call] /\ \A d \in Callers : d # c => Lost(c, place)[d] = calls[d]
         /\ Lost(c, place)[c].kind = calls[c].kind /\ Lost(c, place)[c].known = calls[c].known
         /\ Lost(c, place)[c].at = IF calls[c].at = "creating" THEN "failed" ELSE place
<1> DEFINE p == IF calls[c].at = "creating" THEN "failed" ELSE place
           r == [calls[c] EXCEPT !.at = p]
           g == [calls EXCEPT ![c] = r]
<1>1. Lost(c, place) = g /\ calls \in [Callers -> Call] /\ calls[c] \in Call
  BY DEF Lost, Goes, At, TypeOK
<1>2. p \in {"failed", "vetoed", "rollback"}
  OBVIOUS
<1> HIDE DEF p
<1>3. r \in Call /\ r.at = p /\ r.kind = calls[c].kind /\ r.known = calls[c].known
  BY <1>1, <1>2 DEF Call
<1> HIDE DEF r
<1>4. g \in [Callers -> Call] /\ g[c] = r /\ \A d \in Callers : d # c => g[d] = calls[d]
  BY <1>1, <1>3, UpdateIs
<1> HIDE DEF g
<1> QED
  BY <1>1, <1>3, <1>4, Zenon DEF p

LEMMA PublishVetoedKeeps ==
  ASSUME Inv, NEW c \in Callers, PublishVetoed(c)
  PROVE  TypeOK' /\ IInv'
<1>1. /\ TypeOK /\ Publishable(c) /\ live = nobody /\ Attachable(c) /\ Spend("mishap")
      /\ Attaches(c) /\ sessions' = Entered(c, InitBy(c), "live") /\ stored' = stored
      /\ live' = c /\ retiring' = retiring /\ calls' = Woken(Lost(c, "vetoed"))
  BY DEF PublishVetoed, Inv
<1>2. calls[c].at \in {"setup", "creating"} /\ left' \in [Kinds -> Nat]
  BY <1>1, SpendIs DEF Publishable, At, Kinds
<1> DEFINE cs == Lost(c, "vetoed")
<1>3. /\ cs \in [Callers -> Call] /\ \A d \in Callers : d # c => cs[d] = calls[d]
      /\ cs[c].kind = calls[c].kind
      /\ cs[c].at = IF calls[c].at = "creating" THEN "failed" ELSE "vetoed"
  BY <1>1, LostIs
<1>4. calls' = Woken(cs)
  BY <1>1
<1> HIDE DEF cs
<1>5. Enters(c)
  BY <1>1, <1>2, <1>3, <1>4, EntersBy
<1> QED
  BY <1>1, <1>5, AttachmentKeeps

\* The Session is live, and the coordinator does not know it.
LEMMA PublishRefusedKeeps ==
  ASSUME Inv, NEW c \in Callers, PublishRefused(c)
  PROVE  TypeOK' /\ IInv'
<1>1. /\ TypeOK /\ PlacesInv /\ SessionInv /\ RegistryInv /\ OwnerInv /\ WantedInv /\ EntryInv /\ HolderInv
      /\ LosingInv /\ ChainInv /\ PendingInv
      /\ Publishable(c) /\ live = nobody /\ live' = c /\ retiring' = retiring /\ chain' = chain
      /\ stored' = stored /\ tracked' = tracked /\ entry' = entry
      /\ sessions' = Entered(c, "none", "vetoed") /\ calls' = Lost(c, "vetoed")
  BY DEF PublishRefused, Inv, IInv, identity
<1>2. left' \in [Kinds -> Nat]
  <2>1. left' = left \/ Spend("mishap")
    BY DEF PublishRefused
  <2> QED
    BY <1>1, <2>1, SpendIs DEF Kinds, TypeOK
<1>3. Standing(c) /\ calls[c].at \in {"setup", "creating"} /\ sessions[c].stage = "none"
  BY <1>1, PublishableStands DEF Publishable, At, Standing
<1>4. /\ sessions[c].init = "none" /\ tracked.owner # c /\ retiring # c /\ c # nobody
      /\ calls[c].kind \in {"resume", "create", "configured"}
      /\ calls[c].at = "creating" => calls[c].kind = "configured"
      /\ \A d \in Callers : d # c => sessions[d].stage \notin {"live", "vetoed"}
                                     /\ calls[d].at \notin {"live", "vetoed", "disposing"}
      /\ \A o \in Op : OpInv(o) => o.by # c
      /\ \A i \in DOMAIN stored : stored[i].by # c
  BY <1>3, StandingIs
<1>5. /\ calls' \in [Callers -> Call] /\ \A d \in Callers : d # c => calls'[d] = calls[d]
      /\ calls'[c].kind = calls[c].kind
      /\ calls'[c].at = IF calls[c].at = "creating" THEN "failed" ELSE "vetoed"
  BY <1>1, LostIs
<1>6. \A i \in DOMAIN sessions[c].events : sessions[c].events[i].by = c
  BY <1>1, <1>3 DEF SessionInv
<1>7. entry.holder = c => entry.phase = "reserved" /\ calls[c].at = "setup" /\ Prepared \in Seq(Event)
  <2>1. entry.holder = c => entry.phase = "reserved" /\ calls[c].at = "setup"
    BY <1>1, <1>3 DEF HolderInv
  <2> QED
    BY <2>1, PreparedIs
<1>8. PICK log \in Seq(Event) : SessionOf(c) = log
  BY <1>1, <1>7 DEF SessionOf, TypeOK
<1>9. /\ sessions' \in [Callers -> SessionRec]
      /\ \A d \in Callers : d # c => sessions'[d] = sessions[d]
      /\ sessions'[c].events = log /\ sessions'[c].seeded = Len(log)
      /\ sessions'[c].init = "none" /\ sessions'[c].stage = "vetoed"
  <2>1. "none" \in {"none", "pending", "ok"} /\ "vetoed" \in {"live", "vetoed"}
    OBVIOUS
  <2> QED
    BY <1>1, <1>8, <2>1, EnteredIs
<1>10. calls[c].at = "setup" /\ calls[c].kind # "create" => entry.holder = c
  BY <1>1 DEF HolderInv
<1>11. TypeOK'
  BY <1>1, <1>2, <1>5, <1>9 DEF TypeOK, SessionRec
<1>12. PlacesInv'
  <2>1. calls'[c].at \in Places(calls'[c].kind)
    BY <1>4, <1>5, PlacesAre
  <2> QED
    BY <1>1, <1>5, <2>1 DEF PlacesInv
<1>13. SessionInv'
  <2>1. Len(log) \in Nat
    OBVIOUS
  <2>2. calls[c].kind = "configured" /\ calls'[c].at = "vetoed" => stored # <<>>
    <3> SUFFICES ASSUME calls[c].kind = "configured", calls'[c].at = "vetoed" PROVE stored # <<>>
      OBVIOUS
    <3>1. entry.holder = c
      BY <1>3, <1>5, <1>10
    <3>2. Len(stored) > 0
      BY <1>7, <3>1, PreparedIs
    <3> QED
      BY <3>2, EmptySeq
  <2> QED
    BY <1>1, <1>3, <1>5, <1>9, <2>1, <2>2 DEF SessionInv
<1>14. RegistryInv'
  <2>1. retiring # nobody => retiring \in Callers
    BY <1>1 DEF TypeOK
  <2> QED
    BY <1>1, <1>4, <1>5, <1>9, <2>1 DEF RegistryInv
<1>15. VetoInv'
  <2>1. ASSUME NEW d \in Callers, sessions'[d].stage = "vetoed" PROVE d = c
    BY <1>4, <1>9, <2>1
  <2>2. calls'[c].at \in {"vetoed", "failed"} /\ sessions'[c].seeded = Len(sessions'[c].events)
    BY <1>5, <1>9
  <2>3. ASSUME entry'.holder = c PROVE sessions'[c].events = Prepared'
    <3>1. Prepared' = Prepared
      BY <1>1 DEF Prepared, Balanced, Interrupted, Closer, Marked, Own
    <3>2. log = Prepared
      BY <1>1, <1>8, <2>3 DEF SessionOf
    <3> QED
      BY <1>9, <3>1, <3>2
  <2>4. ASSUME entry'.holder # c
        PROVE  calls'[c].kind # "resume" /\ \A i \in DOMAIN sessions'[c].events : sessions'[c].events[i].by = c
    <3>1. log = sessions[c].events
      BY <1>1, <1>8, <2>4 DEF SessionOf
    <3>2. calls[c].kind # "resume"
      BY <1>1, <1>3, <1>4, <1>10, <2>4
    <3> QED
      BY <1>5, <1>6, <1>9, <3>1, <3>2
  <2> QED
    BY <2>1, <2>2, <2>3, <2>4 DEF VetoInv
<1>16. OwnerInv'
  <2>1. tracked.owner # nobody => tracked.owner \in Callers /\ sessions'[tracked.owner] = sessions[tracked.owner]
    BY <1>1, <1>4, <1>9 DEF TypeOK
  <2>2. \A i \in DOMAIN stored : stored[i].by \in Callers => sessions'[stored[i].by].init = "ok"
    BY <1>1, <1>4, <1>9 DEF OwnerInv
  <2> QED
    BY <1>1, <2>1, <2>2 DEF OwnerInv
<1>17. WantedInv'
  BY <1>1, <1>9 DEF WantedInv, Owns
<1>18. Unattached'
  BY <1>1, <1>4, <1>9 DEF Unattached
<1>19. EntryInv'
  <2>1. entry.added # <<>> => entry.holder \in Callers /\ calls'[entry.holder].at \in {"setup", "vetoed", "rollback"}
    <3>1. entry.added # <<>> => entry.holder \in Callers /\ calls[entry.holder].at \in {"setup", "vetoed", "rollback"}
      BY <1>1 DEF TypeOK, EntryInv, Exclusive
    <3> QED
      BY <1>5, <1>7, <3>1
  <2> QED
    BY <1>1, <1>18, <2>1 DEF EntryInv, Exclusive
<1>20. HolderInv'
  <2>1. ASSUME NEW d \in Callers, d # c
        PROVE  calls'[d] = calls[d] /\ sessions'[d] = sessions[d]
    BY <1>5, <1>9, <2>1
  <2>2. /\ calls'[c].at \notin {"committed", "reserved", "setup"}
        /\ sessions'[c].stage = "vetoed"
        /\ entry.holder = c => entry.phase = "reserved" /\ calls'[c].at = "vetoed"
    BY <1>5, <1>7, <1>9
  <2>3. Settled' = Settled
    BY <1>1 DEF Settled
  <2> QED
    BY <1>1, <2>1, <2>2, <2>3 DEF HolderInv
<1>21. ChainInv'
  <2>1. ASSUME NEW o \in Op, OpInv(o) PROVE OpInv(o)'
    <3>1. o.by # c
      BY <1>4, <2>1
    <3>2. CASE o.op = "read"
      BY <2>1, <3>2 DEF OpInv
    <3>3. CASE o.op # "read"
      <4>1. o.by \in Callers /\ calls'[o.by] = calls[o.by] /\ sessions'[o.by] = sessions[o.by]
        BY <1>5, <1>9, <2>1, <3>1, <3>3 DEF OpInv
      <4> QED
        BY <1>1, <2>1, <3>3, <4>1 DEF OpInv, At, Owns, Started
    <3> QED
      BY <3>2, <3>3
  <2>2. Without(Len(chain) + 1) /\ Len(chain) + 1 \notin DOMAIN chain
    BY <1>1, WithoutNone DEF TypeOK
  <2> QED
    BY <1>1, <2>1, <2>2, WithoutChain
<1>22. LosingInv'
  <2>1. \A d \in Callers : calls'[d].at = "committing" => calls[d].at = "committing"
    BY <1>5
  <2> QED
    BY <1>1, <2>1 DEF LosingInv, Losing, Queued
<1>23. PendingInv'
  <2>1. \A d \in Callers : sessions'[d].init = "pending" => sessions[d].init = "pending"
    BY <1>9
  <2> QED
    BY <1>1, <1>18, <2>1 DEF PendingInv, PendingEntry, PendingLive, PendingInit, ReadsPending, Queued
<1> QED
  BY <1>11, <1>12, <1>13, <1>14, <1>15, <1>16, <1>17, <1>19, <1>20, <1>21, <1>22, <1>23 DEF IInv

LEMMA VetoOverKeeps ==
  ASSUME Inv, NEW c \in Callers, VetoOver(c)
  PROVE  TypeOK' /\ IInv'
<1>1. /\ TypeOK /\ ChainInv /\ LosingInv /\ PendingInv /\ calls[c].at \in {"vetoed", "failed"} /\ live = c
      /\ sessions[c].stage \in {"live", "vetoed"}
      /\ UNCHANGED identity /\ chain' = chain /\ left' = left /\ live' = nobody
  BY PreparationsAssumption DEF VetoOver, At, Inv, IInv, RegistryInv
<1>2. PICK s \in {"withdrawn", "retiring"} :
        /\ sessions' = [sessions EXCEPT ![c].stage = s]
        /\ s = "withdrawn" => sessions[c].stage = "vetoed" /\ retiring' = retiring
        /\ s = "retiring" => sessions[c].stage = "live" /\ retiring' = c
  BY <1>1 DEF VetoOver
<1>3. sessions' \in [Callers -> SessionRec] /\ Stays(c, s)
  <2>1. s \in {"none", "live", "vetoed", "withdrawn", "retiring", "leaving", "retired", "stranded"}
    BY <1>2
  <2>2. sessions' = [sessions EXCEPT ![c].stage = s]
    BY <1>2
  <2>3. /\ sessions' \in [Callers -> SessionRec]
        /\ \A d \in Callers :
             /\ sessions'[d].events = sessions[d].events /\ sessions'[d].seeded = sessions[d].seeded
             /\ sessions'[d].init = sessions[d].init
             /\ sessions'[d].stage = IF d = c THEN s ELSE sessions[d].stage
    <3>1. TypeOK
      BY <1>1
    <3>2. CASE s = "withdrawn"
      <4>1. sessions' = [sessions EXCEPT ![c].stage = "withdrawn"]
        BY <2>2, <3>2
      <4>2. sessions' \in [Callers -> SessionRec]
        BY <3>1, <4>1, StageIs
      <4>3. \A d \in Callers :
              /\ sessions'[d].events = sessions[d].events /\ sessions'[d].seeded = sessions[d].seeded
              /\ sessions'[d].init = sessions[d].init
              /\ sessions'[d].stage = IF d = c THEN "withdrawn" ELSE sessions[d].stage
        BY <3>1, <4>1, StageIs
      <4> QED
        BY <3>2, <4>2, <4>3
    <3>3. CASE s = "retiring"
      <4>1. sessions' = [sessions EXCEPT ![c].stage = "retiring"]
        BY <2>2, <3>3
      <4>2. sessions' \in [Callers -> SessionRec]
        BY <3>1, <4>1, StageIs
      <4>3. \A d \in Callers :
              /\ sessions'[d].events = sessions[d].events /\ sessions'[d].seeded = sessions[d].seeded
              /\ sessions'[d].init = sessions[d].init
              /\ sessions'[d].stage = IF d = c THEN "retiring" ELSE sessions[d].stage
        BY <3>1, <4>1, StageIs
      <4> QED
        BY <3>3, <4>2, <4>3
    <3> QED
      BY <1>2, <3>2, <3>3
  <2> QED
    BY <2>3 DEF Stays
<1>4. /\ calls' \in [Callers -> Call] /\ calls'[c].at \in {"rollback", "failed"} /\ \A d \in Callers : Ends(d)
      /\ \A d \in Callers : calls'[d].at = "committing" <=> calls[d].at = "committing"
  <2>1. CASE calls[c].at = "vetoed"
    <3>1. calls' = Goes(c, "rollback")
      BY <2>1 DEF VetoOver, At
    <3>2. /\ Turn(c, calls') /\ calls'[c].at = "rollback" /\ calls'[c].kind = calls[c].kind
          /\ \A d \in Callers : d # c => calls'[d] = calls[d]
      BY <1>1, <3>1, GoesTo
    <3> QED
      BY <1>1, <2>1, <3>2 DEF Turn, Ends
  <2>2. CASE calls[c].at = "failed"
    <3>1. calls' = calls /\ calls \in [Callers -> Call]
      BY <1>1, <2>2 DEF VetoOver, At, TypeOK
    <3> QED
      BY <2>2, <3>1 DEF Ends
  <2> QED
    BY <1>1, <2>1, <2>2
<1>5. Moves(c, s)
  BY <1>1, <1>2, <1>4 DEF Moves
<1>6. PlacesInv' /\ SessionInv' /\ RegistryInv' /\ OwnerInv' /\ WantedInv' /\ EntryInv' /\ HolderInv' /\ VetoInv'
  BY <1>1, <1>3, <1>4, <1>5, StageMoves
<1>7. ChainInv'
  <2>1. ASSUME NEW o \in Op, OpInv(o) PROVE OpInv(o)'
    <3>1. s = "withdrawn" => ~(o.by = c /\ o.op \in {"created", "seed", "drain"})
      BY <1>2, <2>1 DEF OpInv, Started
    <3> QED
      BY <1>1, <1>3, <1>4, <1>5, <2>1, <3>1, StageChain
  <2>2. Without(Len(chain) + 1) /\ Len(chain) + 1 \notin DOMAIN chain
    BY <1>1, WithoutNone DEF TypeOK
  <2> QED
    BY <1>1, <2>1, <2>2, WithoutChain
<1>8. LosingInv'
  BY <1>1, <1>4 DEF LosingInv, Losing, Queued, identity
<1>9. PendingInv'
  BY <1>1, <1>3 DEF PendingInv, PendingEntry, PendingLive, PendingInit, ReadsPending, Queued, identity, Stays
<1>10. TypeOK'
  BY <1>1, <1>2, <1>3, <1>4 DEF TypeOK, SessionRec, identity
<1> QED
  BY <1>6, <1>7, <1>8, <1>9, <1>10 DEF IInv

\* A waiting call that rejects.
LEMMA WaiterRejectedKeeps ==
  ASSUME Inv, SameLog, NEW c \in Callers, calls[c].at = "waiting", calls' = Rejected(c, calls),
         entry' = entry, chain' = chain, left' \in [Kinds -> Nat]
  PROVE  TypeOK' /\ IInv'
<1>1. TypeOK /\ HolderInv
  BY DEF Inv, IInv
<1>2. sessions[c].stage = "none" /\ calls[c].kind \in {"resume", "configured", "load", "inspect"}
  BY PlaceSays, PlacesAre DEF CallKinds, Published
<1>3. /\ Turn(c, calls') /\ calls'[c].at \in {"listing", "failed"}
      /\ calls'[c].at = "listing" => calls[c].kind = "configured"
  BY <1>1, RejectedTo
<1>4. calls'[c].at \in Places(calls[c].kind)
  BY <1>2, <1>3, PlacesAre
<1>5. entry.holder # c
  BY <1>1 DEF HolderInv
<1> QED
  BY <1>2, <1>3, <1>4, <1>5, TurnStays

LEMMA WaitRejectedKeeps ==
  ASSUME Inv, NEW c \in Callers, WaitRejected(c)
  PROVE  TypeOK' /\ IInv'
<1>1. SameLog /\ calls[c].at = "waiting" /\ calls' = Rejected(c, calls) /\ entry' = entry /\ chain' = chain
      /\ left' \in [Kinds -> Nat]
  BY DEF WaitRejected, At, SameLog, identity, Inv, TypeOK
<1> QED
  BY <1>1, WaiterRejectedKeeps

LEMMA FlushesIs ==
  ASSUME TypeOK, NEW c \in Callers, live # nobody
  PROVE  LET cs == Flushes(c, calls) IN
         /\ cs \in [Callers -> Call] /\ \A d \in Callers : d # c => cs[d] = calls[d]
         /\ cs[c].kind = calls[c].kind /\ cs[c].at = "flushing" /\ cs[c].awaits = live
         /\ cs[c].source = sessions[live].events /\ cs[c].known = calls[c].known
         /\ cs[c].aborted = calls[c].aborted /\ cs[c].borrowed = calls[c].borrowed
<1> DEFINE r == [calls[c] EXCEPT !.at = "flushing", !.awaits = live, !.source = sessions[live].events]
           g == [calls EXCEPT ![c] = r]
<1>1. Flushes(c, calls) = g
  BY DEF Flushes
<1>2. calls \in [Callers -> Call] /\ live \in Callers /\ sessions[live].events \in Seq(Event)
  BY DEF TypeOK
<1>3. /\ r \in Call /\ r.at = "flushing" /\ r.awaits = live /\ r.source = sessions[live].events
      /\ r.kind = calls[c].kind /\ r.known = calls[c].known
      /\ r.aborted = calls[c].aborted /\ r.borrowed = calls[c].borrowed
  BY <1>2 DEF Call
<1> HIDE DEF r
<1>4. g \in [Callers -> Call] /\ g[c] = r /\ \A d \in Callers : d # c => g[d] = calls[d]
  BY <1>2, <1>3, UpdateIs
<1> HIDE DEF g
<1> QED
  BY <1>1, <1>3, <1>4

\* The load c flushes the Session of d: the calls are as an attachment leaves them.
LEMMA FlushEnters ==
  ASSUME Inv, NEW c \in Callers, NEW d \in Callers, live = d, Standing(d),
         calls[c].at \in {"waiting", "committed"}, calls[c].kind = "load", calls' = Woken(Flushes(c, calls)),
         live' = live, retiring' = retiring, stored' = stored, left' = left
  PROVE  /\ Enters(d) /\ d # c /\ d # nobody
         /\ \A e \in Callers : calls'[e].at \in {"committed", "reserved", "setup"} =>
              e # c /\ calls'[e].at = calls[e].at /\ calls'[e].kind = calls[e].kind
<1>1. TypeOK /\ d # nobody
  BY PreparationsAssumption DEF Inv
<1>2. sessions[d].stage = "vetoed" /\ calls[d].at \in {"vetoed", "failed"} /\ d # c
  BY <1>1 DEF Standing
<1> DEFINE cs == Flushes(c, calls)
<1>3. /\ cs \in [Callers -> Call] /\ \A e \in Callers : e # c => cs[e] = calls[e]
      /\ cs[c].kind = calls[c].kind /\ cs[c].at = "flushing"
  BY <1>1, FlushesIs
<1> HIDE DEF cs
<1>4. /\ calls' \in [Callers -> Call] /\ Others(c, calls') /\ calls'[c] = cs[c]
  BY <1>3, WakesOthers DEF cs
<1>5. \A e \in Callers : e # c =>
        /\ calls'[e].kind = calls[e].kind
        /\ calls'[e].at = calls[e].at \/ (calls[e].at = "queued" /\ calls'[e].at = "read")
  BY <1>1, <1>4, Others2
<1>6. calls'[d].at = calls[d].at /\ calls'[d].kind = calls[d].kind
  BY <1>2, <1>5
<1>7. left' \in [Kinds -> Nat]
  BY <1>1 DEF TypeOK
<1>8. Enters(d)
  BY <1>2, <1>3, <1>4, <1>5, <1>6, <1>7 DEF Enters
<1> QED
  BY <1>1, <1>2, <1>3, <1>4, <1>5, <1>8

LEMMA LoadAttachesKeeps ==
  ASSUME Inv, NEW c \in Callers, LoadAttaches(c)
  PROVE  TypeOK' /\ IInv'
<1>1. /\ TypeOK /\ EntryInv /\ HolderInv /\ VetoInv
      /\ calls[c].at = "waiting" /\ calls[c].kind = "load" /\ Unattached
      /\ stored' = stored /\ live' = live /\ retiring' = retiring /\ left' = left
  BY DEF LoadAttaches, At, Inv, IInv
<1>2. PICK d \in Callers : d = live /\ Standing(d) /\ sessions[d].stage = "vetoed"
  BY <1>1, VetoedStands DEF Unattached
<1>3. CASE ~Attachable(live)
  <2>1. SameLog /\ calls' = Rejected(c, calls) /\ entry' = entry /\ chain' = chain
    BY <1>1, <1>3 DEF LoadAttaches, SameLog
  <2> QED
    BY <1>1, <2>1, WaiterRejectedKeeps DEF TypeOK
<1>4. CASE Attachable(live)
  <2>1. /\ Attaches(d) /\ sessions' = AttachedNow(d, InitBy(d)) /\ MayPublish(d)
        /\ calls' = Woken(Flushes(c, calls))
    BY <1>2, <1>4 DEF LoadAttaches, Attachable
  <2>2. Enters(d) /\ d # c /\ d # nobody
        /\ \A e \in Callers : calls'[e].at \in {"committed", "reserved", "setup"} =>
             e # c /\ calls'[e].at = calls[e].at /\ calls'[e].kind = calls[e].kind
    BY <1>1, <1>2, <2>1, FlushEnters
  <2>3. sessions[d].seeded = Len(sessions[d].events)
    BY <1>1, <1>2 DEF VetoInv
  <2>4. CASE entry.holder = d
    <3>1. entry.phase = "reserved"
      BY <1>1, <2>1, <2>2, <2>4 DEF MayPublish, EntryInv, NoEntry
    <3>2. sessions[d].events = Prepared
      BY <1>1, <1>2, <2>4 DEF VetoInv
    <3>3. PICK init \in {"pending", "ok"} : init = InitBy(d)
      BY DEF InitBy
    <3> HIDE DEF Prepared
    <3>4. /\ sessions' \in [Callers -> SessionRec]
          /\ \A e \in Callers : e # d => sessions'[e] = sessions[e]
          /\ sessions'[d].events = Prepared /\ sessions'[d].seeded = Len(Prepared)
          /\ sessions'[d].init = init /\ sessions'[d].stage = "live"
      <4>1. sessions' = AttachedNow(d, init)
        BY <2>1, <3>3
      <4>2. /\ sessions' \in [Callers -> SessionRec]
            /\ \A e \in Callers : e # d => sessions'[e] = sessions[e]
            /\ sessions'[d].events = sessions[d].events /\ sessions'[d].seeded = sessions[d].seeded
            /\ sessions'[d].init = init /\ sessions'[d].stage = "live"
        BY <1>1, <4>1, AttachedNowIs
      <4> QED
        BY <2>3, <3>2, <4>2
    <3> QED
      BY <1>2, <2>1, <2>2, <2>4, <3>1, <3>3, <3>4, HolderEnters
  <2>5. CASE entry.holder # d
    <3>1. entry = NoEntry /\ entry' = NoEntry /\ tracked' = tracked /\ Enqueued("created", d, 0)
      BY <1>1, <2>1, <2>5 DEF MayPublish, EntryInv, Attaches
    <3>2. entry.holder = nobody
      BY <3>1 DEF NoEntry
    <3>3. \A e \in Callers : calls[e].at \notin {"committed", "reserved"} /\ (calls[e].at = "setup" => calls[e].kind = "create")
      BY <1>1, <3>2, PreparationsAssumption DEF HolderInv
    <3>4. \A e \in Callers : entry.holder # e
      BY <3>2, PreparationsAssumption
    <3>5. \A i \in DOMAIN sessions[d].events : sessions[d].events[i].by = d
      BY <1>1, <1>2, <2>5 DEF VetoInv
    <3>6. InitBy(d) = "pending"
      BY <2>5 DEF InitBy
    <3>7. /\ sessions' \in [Callers -> SessionRec]
          /\ \A e \in Callers : e # d => sessions'[e] = sessions[e]
          /\ sessions'[d].events = sessions[d].events /\ sessions'[d].seeded = sessions[d].seeded
          /\ sessions'[d].init = "pending" /\ sessions'[d].stage = "live"
      <4>1. sessions' = AttachedNow(d, "pending") /\ "pending" \in {"pending", "ok"}
        BY <2>1, <3>6
      <4> QED
        BY <1>1, <4>1, AttachedNowIs
    <3>8. ASSUME NEW e \in Callers, e # d
          PROVE  calls'[e].at \notin {"committed", "reserved"} /\ (calls'[e].at = "setup" => calls[e].kind = "create")
      BY <2>2, <3>3, <3>8
    <3>9. ~(calls[d].at = "setup" /\ calls[d].kind = "configured")
      BY <3>3
    <3> QED
      BY <1>2, <2>2, <2>3, <3>1, <3>4, <3>5, <3>7, <3>8, <3>9, CreatedEnters
  <2> QED
    BY <2>4, <2>5
<1> QED
  BY <1>3, <1>4

LEMMA ReserveGivesUpKeeps ==
  ASSUME Inv, NEW c \in Callers, ReserveGivesUp(c)
  PROVE  TypeOK' /\ IInv'
<1>1. /\ TypeOK /\ EntryInv /\ HolderInv /\ VetoInv /\ calls \in [Callers -> Call]
      /\ calls[c].at = "committed" /\ live # nobody
      /\ stored' = stored /\ tracked' = tracked /\ live' = live /\ retiring' = retiring /\ left' = left
  BY DEF ReserveGivesUp, At, Inv, IInv, TypeOK
<1>2. /\ sessions[c].stage = "none" /\ entry.holder = c /\ entry.phase = "committing"
      /\ calls[c].kind \in {"resume", "configured", "load"} /\ c # nobody
      /\ \A d \in Callers : d # c => calls[d].at \notin {"committed", "reserved"}
                                     /\ (calls[d].at = "setup" => calls[d].kind = "create")
  BY <1>1, PlaceSays, PlacesAre, PreparationsAssumption DEF CallKinds, Published, HolderInv
<1>3. Unattached
  BY <1>1, <1>2 DEF EntryInv, NoEntry
<1>4. PICK d \in Callers : d = live /\ Standing(d) /\ sessions[d].stage = "vetoed"
  BY <1>3, VetoedStands DEF Unattached
<1>5. CASE calls[c].kind = "load"
  <2>1. /\ entry' = NoEntry /\ calls' = Woken(Flushes(c, calls)) /\ Enqueued("created", d, 0)
        /\ sessions' = AttachedNow(d, "pending") /\ "pending" \in {"pending", "ok"}
    BY <1>4, <1>5 DEF ReserveGivesUp, Removed
  <2>2. Enters(d) /\ d # c /\ d # nobody
        /\ \A e \in Callers : calls'[e].at \in {"committed", "reserved", "setup"} =>
             e # c /\ calls'[e].at = calls[e].at /\ calls'[e].kind = calls[e].kind
    BY <1>1, <1>4, <1>5, <2>1, FlushEnters
  <2>3. sessions[d].seeded = Len(sessions[d].events)
        /\ \A i \in DOMAIN sessions[d].events : sessions[d].events[i].by = d
    BY <1>1, <1>2, <1>4, <2>2 DEF VetoInv
  <2>4. /\ sessions' \in [Callers -> SessionRec]
        /\ \A e \in Callers : e # d => sessions'[e] = sessions[e]
        /\ sessions'[d].events = sessions[d].events /\ sessions'[d].seeded = sessions[d].seeded
        /\ sessions'[d].init = "pending" /\ sessions'[d].stage = "live"
    BY <1>1, <2>1, AttachedNowIs
  <2>5. ASSUME NEW e \in Callers, e # d
        PROVE  calls'[e].at \notin {"committed", "reserved"} /\ (calls'[e].at = "setup" => calls[e].kind = "create")
    BY <1>2, <2>2, <2>5
  <2>6. \A e \in Callers : calls[e].at = "committing" => entry.holder # e
    BY <1>1, <1>2
  <2>7. ~(calls[d].at = "setup" /\ calls[d].kind = "configured")
    BY <1>4 DEF Standing
  <2> QED
    BY <1>1, <1>4, <2>1, <2>2, <2>3, <2>4, <2>5, <2>6, <2>7, CreatedEnters
<1>6. CASE calls[c].kind # "load"
  <2> DEFINE cs == Rejected(c, calls)
  <2>1. /\ cs \in [Callers -> Call] /\ \A e \in Callers : e # c => cs[e] = calls[e]
        /\ cs[c].at \in {"listing", "failed"} /\ cs[c].kind = calls[c].kind
        /\ (cs[c].at = "listing" => calls[c].kind = "configured")
    BY <1>1, RejectedIs
  <2>2. entry' = NoEntry /\ calls' = Woken(cs) /\ chain' = chain /\ SameLog
    BY <1>1, <1>6 DEF ReserveGivesUp, Removed, SameLog
  <2> HIDE DEF cs
  <2>3. Turn(c, calls') /\ calls'[c] = cs[c]
    BY <2>1, <2>2, WakesOthers DEF Turn
  <2>4. EntryInv' /\ HolderInv' /\ VetoInv'
    BY <1>1, <1>2, <2>1, <2>2, <2>3, EntryUnheld
  <2>5. NoEntryNow
    BY <2>2 DEF NoEntryNow, NoEntry
  <2>6. calls'[c].at \in Places(calls[c].kind)
    BY <1>2, <2>1, <2>3, PlacesAre
  <2>7. Without(Len(chain) + 1) /\ Len(chain) + 1 \notin DOMAIN chain
    BY <1>1, <2>2, WithoutNone DEF TypeOK
  <2>8. left' \in [Kinds -> Nat]
    BY <1>1 DEF TypeOK
  <2> QED
    BY <1>1, <1>2, <2>1, <2>2, <2>3, <2>4, <2>5, <2>6, <2>7, <2>8, EntryTypes, HolderTurn
<1> QED
  BY <1>5, <1>6
-----------------------------------------------------------------------------
(* The inductive invariant holds *)

LEMMA InitKeeps ==
  ASSUME Init
  PROVE  TypeOK /\ IInv
<1>1. PICK play \in Plays : calls = [c \in Callers |-> Uncalled(play.calls[c])] /\ left = play.budget
  BY DEF Init
<1>2. play.calls \in [Callers -> CallKinds] /\ play.budget \in [Kinds -> Nat]
  BY PreparationsAssumption
<1>3. /\ stored \in {<<>>, <<[by |-> "other", kind |-> "start"]>>}
      /\ tracked = Untracked /\ entry = NoEntry /\ chain = <<>>
      /\ sessions = [c \in Callers |-> NoSession]
      /\ live = nobody /\ retiring = nobody
  BY DEF Init
<1>4. <<>> \in Seq(Event) /\ <<>> \in Seq(Op) /\ DOMAIN <<>> = {} /\ Len(<<>>) = 0
  BY EmptySeq
<1>5. stored \in Seq(Event) /\ \A i \in DOMAIN stored : stored[i].by \notin Callers
  <2>1. [by |-> "other", kind |-> "start"] \in Event /\ "other" \notin Callers
    BY PreparationsAssumption DEF Event
  <2>2. ASSUME NEW e \in Event, stored = <<e>>, e.by \notin Callers
        PROVE  stored \in Seq(Event) /\ \A i \in DOMAIN stored : stored[i].by \notin Callers
    BY <2>2
  <2>3. stored = <<>> \/ \E e \in Event : stored = <<e>> /\ e.by \notin Callers
    BY <1>3, <2>1
  <2> QED
    BY <1>4, <2>2, <2>3
<1>6. ASSUME NEW c \in Callers
      PROVE  /\ calls[c] \in Call /\ calls[c].at = "idle" /\ calls[c].kind \in CallKinds
  <2>1. play.calls[c] \in CallKinds
    BY <1>2
  <2>2. calls[c] = Uncalled(play.calls[c])
    BY <1>1
  <2> QED
    BY <1>4, <2>1, <2>2 DEF Uncalled, Call
<1>7. calls \in [Callers -> Call]
  <2>1. calls = [c \in Callers |-> calls[c]]
    BY <1>1
  <2> QED
    BY <1>6, <2>1
<1>8. /\ tracked.known = FALSE /\ tracked.owner = nobody /\ tracked.cursor = 0
      /\ tracked \in [known : BOOLEAN, cursor : Nat, owner : Callers \cup {nobody}]
  BY <1>3 DEF Untracked
<1>9. /\ entry.no = 0 /\ entry.phase = "none" /\ entry.source = <<>> /\ entry.added = <<>> /\ entry.holder = nobody
      /\ entry \in [no : Nat, phase : {"none", "loading", "ready", "committing", "reserved"},
                    source : Seq(Event), added : Seq(Event), holder : Callers \cup {nobody}]
  BY <1>3, <1>4 DEF NoEntry
<1>10. ASSUME NEW c \in Callers
       PROVE  /\ sessions[c].events = <<>> /\ sessions[c].seeded = 0
              /\ sessions[c].init = "none" /\ sessions[c].stage = "none"
  BY <1>3 DEF NoSession
<1>11. sessions \in [Callers -> SessionRec]
  <2>1. NoSession \in SessionRec
    BY <1>4 DEF NoSession, SessionRec
  <2> QED
    BY <1>3, <2>1
<1>12. TypeOK
  BY <1>1, <1>2, <1>3, <1>4, <1>5, <1>7, <1>8, <1>9, <1>11 DEF TypeOK, SessionRec
<1>13. PlacesInv
  BY <1>6, PlacesAre DEF PlacesInv, CallKinds
<1>14. SessionInv
  BY <1>4, <1>6, <1>10 DEF SessionInv
<1>15. RegistryInv
  BY <1>3, <1>6, <1>10 DEF RegistryInv
<1>16. OwnerInv /\ WantedInv
  BY <1>3, <1>5, <1>8, <1>10 DEF OwnerInv, WantedInv
<1>17. EntryInv
  BY <1>3, <1>4, <1>9 DEF EntryInv, Exclusive
<1>18. HolderInv
  BY <1>6, <1>9, PreparationsAssumption DEF HolderInv
<1>19. LosingInv /\ ChainInv /\ PendingInv
  BY <1>3, <1>4, <1>6, <1>10 DEF LosingInv, Losing, ChainInv, PendingInv, PendingEntry, PendingLive,
                                 PendingInit, ReadsPending
<1>20. VetoInv
  BY <1>10 DEF VetoInv
<1> QED
  BY <1>12, <1>13, <1>14, <1>15, <1>16, <1>17, <1>18, <1>19, <1>20 DEF IInv

LEMMA StutterKeeps ==
  ASSUME Inv, UNCHANGED vars
  PROVE  TypeOK' /\ IInv'
<1>1. /\ TypeOK /\ PlacesInv /\ SessionInv /\ RegistryInv /\ OwnerInv /\ WantedInv /\ EntryInv /\ HolderInv
      /\ LosingInv /\ ChainInv /\ PendingInv
      /\ stored' = stored /\ tracked' = tracked /\ entry' = entry /\ chain' = chain /\ calls' = calls
      /\ sessions' = sessions /\ live' = live /\ retiring' = retiring /\ left' = left
  BY DEF Inv, IInv, vars, identity
<1>2. TypeOK' /\ PlacesInv' /\ SessionInv' /\ RegistryInv'
  BY <1>1 DEF TypeOK, PlacesInv, SessionInv, RegistryInv
<1>3. OwnerInv' /\ WantedInv' /\ EntryInv' /\ HolderInv'
  BY <1>1 DEF OwnerInv, WantedInv, Owns, EntryInv, Exclusive, HolderInv, Settled, Unattached
<1>4. ChainInv' /\ LosingInv' /\ PendingInv'
  BY <1>1 DEF ChainInv, OpInv, At, Owns, Started, LosingInv, Losing, Queued,
              PendingInv, PendingEntry, PendingLive, PendingInit, ReadsPending, Unattached
<1>5. VetoInv'
  BY <1>1, VetoStays
<1> QED
  BY <1>1, <1>2, <1>3, <1>4, <1>5 DEF IInv

LEMMA NextKeeps ==
  ASSUME Inv, Next
  PROVE  TypeOK' /\ IInv'
<1>1. CASE Read \/ Evicted \/ OtherWrites
  BY <1>1, ReadKeeps, EvictedKeeps, OtherWritesKeeps
<1>2. ASSUME NEW c \in Callers, Continues(c) PROVE TypeOK' /\ IInv'
  <2>1. CASE Looks(c) \/ ReserveRestarts(c) \/ ReserveWaits(c) \/ ReserveCommits(c) \/ ReserveEnds(c)
    BY <2>1, LooksKeeps, TopsKeep, ReserveWaitsKeeps, ReserveCommitsKeeps, ReserveEndsKeeps
  <2>2. CASE InspectChecks(c) \/ InspectEnds(c) \/ LoadFlushed(c)
    BY <2>2, InspectChecksKeeps, InspectEndsKeeps, LoadFlushedKeeps
  <2>3. CASE ConfiguredResumes(c) \/ ConfiguredLists(c) \/ SetupBegins(c) \/ RollsBack(c)
    BY <2>3, TopsKeep, ConfiguredListsKeeps, SetupBeginsKeeps, RollsBackKeeps
  <2>4. CASE WaitRejected(c) \/ LoadAttaches(c) \/ ReserveGivesUp(c)
    BY <2>4, WaitRejectedKeeps, LoadAttachesKeeps, ReserveGivesUpKeeps
  <2> QED
    BY <1>2, <2>1, <2>2, <2>3, <2>4 DEF Continues
<1>3. ASSUME NEW c \in Callers, Settles(c) PROVE TypeOK' /\ IInv'
  BY <1>3, SetupFailsKeeps, PublishesKeeps, PublishCollidesKeeps, PublishVetoedKeeps, PublishRefusedKeeps DEF Settles
<1>4. ASSUME NEW c \in Callers, Serialized(c) PROVE TypeOK' /\ IInv'
  <2>1. CASE Commit(c) \/ CommitRestarts(c) \/ CommitRefused(c) \/ Check(c)
    BY <2>1, CommitKeeps, CommitRestartsKeeps, CommitRefusedKeeps, CheckKeeps
  <2>2. CASE SeedStored(c) \/ Created(c) \/ Drain(c) \/ DrainFails(c) \/ Retire(c)
    BY <2>2, SeedStoredKeeps, CreatedKeeps, DrainKeeps, DrainFailsKeeps, RetireKeeps
  <2> QED
    BY <1>4, <2>1, <2>2 DEF Serialized
<1>5. ASSUME NEW c \in Callers, Retires(c) PROVE TypeOK' /\ IInv'
  BY <1>5, DrainQueuedKeeps, RetireQueuedKeeps, RetireFailsKeeps DEF Retires
<1>6. ASSUME NEW c \in Callers, Environment(c) PROVE TypeOK' /\ IInv'
  <2>1. CASE Begins(c) \/ CreateBegins(c) \/ ConfiguredBegins(c)
    BY <2>1, BeginsKeeps, CallBeginsKeeps
  <2>2. CASE SetupAppends(c) \/ TurnStarts(c) \/ DisposeBegins(c) \/ Abort(c)
    BY <2>2, SetupAppendsKeeps, TurnEventKeeps, DisposeBeginsKeeps, AbortKeeps
  <2> QED
    BY <1>6, <2>1, <2>2 DEF Environment
<1>7. ASSUME NEW c \in Callers, TurnEnds(c) \/ Detaches(c) \/ VetoOver(c) PROVE TypeOK' /\ IInv'
  BY <1>7, TurnEventKeeps, DetachesKeeps, VetoOverKeeps
<1> QED
  BY <1>1, <1>2, <1>3, <1>4, <1>5, <1>6, <1>7 DEF Next

LEMMA InvHolds == Spec => []Inv
<1>1. Init => Inv
  BY InitKeeps DEF Inv
<1>2. Inv /\ [Next]_vars => Inv'
  BY NextKeeps, StutterKeeps DEF Inv
<1> QED
  BY <1>1, <1>2, PTL DEF Spec

\* The state of an identity is well typed: places, phases, stages, entry numbers
\* and the cursor of the log stay in range, whoever calls.
THEOREM TypeCorrect == Spec => []TypeOK
<1>1. Inv => TypeOK
  BY DEF Inv
<1> QED
  BY <1>1, InvHolds, PTL

\* attachPrepared, onCreated, appendCore: the log on disk stays, event for event,
\* the beginning of the Session that owns it, the durable cursor is its length,
\* and an initialised Session that is still wanted owns it, for any calls.
THEOREM OwnerCorrect == Spec => []OwnerContinuesLog
<1>1. Inv => OwnerContinuesLog
  BY DEF Inv, IInv, OwnerContinuesLog, OwnerInv, WantedInv
<1> QED
  BY <1>1, InvHolds, PTL

\* preparations.ts: at most one call holds an identity, which is then not cached
\* for another, nor live but for a Session the coordinator did not attach, and
\* what a reservation is handed is what the log says and the mark of its end.
THEOREM ReservationsCorrect == Spec => []Reservations
<1>1. ASSUME Inv PROVE Reservations
  <2>1. TypeOK /\ EntryInv /\ HolderInv
    BY <1>1 DEF Inv, IInv
  <2>2. entry.holder # nobody => entry.holder \in Callers
    BY <2>1 DEF TypeOK
  <2>3. ASSUME NEW c \in Callers, calls[c].at = "reserved"
        PROVE  entry.holder = c /\ entry.phase = "reserved" /\ Prepared = Marked(stored, c)
    <3>1. entry.holder = c /\ entry.phase = "reserved"
      BY <2>1, <2>3 DEF HolderInv
    <3>2. entry.added = <<>>
      BY <2>1, <2>3, <3>1 DEF EntryInv
    <3>3. Balanced(entry.source) = stored /\ stored \in Seq(Event) /\ stored # <<>>
      <4>1. Balanced(entry.source) = stored /\ stored \in Seq(Event) /\ Len(stored) > 0
        BY <1>1, <3>1, PreparedIs
      <4> QED
        BY <4>1, EmptySeq
    <3>4. Marked(stored, c) \in Seq(Event)
      BY <3>3, MarkedIs
    <3>5. Marked(stored, c) \o <<>> = Marked(stored, c)
      BY <3>4, ConcatEmptySeq
    <3> QED
      BY <3>1, <3>2, <3>3, <3>5 DEF Prepared
  <2>4. Exclusive => calls[entry.holder].at \in Holding
    BY <2>1, <2>2 DEF EntryInv, HolderInv, Holding
  <2>5. (Exclusive <=> entry.holder # nobody) /\ (live # nobody => entry = NoEntry \/ Unattached)
    BY <2>1 DEF EntryInv
  <2> QED
    BY <2>3, <2>4, <2>5 DEF Reservations, At
<1> QED
  BY <1>1, InvHolds, PTL
-----------------------------------------------------------------------------
(* What a step writes to the log *)

Writes ==
  /\ IsPrefix(stored, stored')
  /\ \A i \in (Len(stored) + 1)..Len(stored') :
       CASE stored'[i].by = "repair" -> tracked.owner = nobody /\ (live = nobody \/ Unattached)
         [] stored'[i].by = "other" -> TRUE
         [] OTHER -> tracked'.owner # nobody /\ sessions[tracked'.owner].events[i] = stored'[i]

LEMMA WritesNothing ==
  ASSUME TypeOK, stored' = stored
  PROVE  Writes
<1>1. stored \in Seq(Event) /\ IsPrefix(stored, stored) /\ Len(stored) \in Nat
  BY PrefixOrder DEF TypeOK
<1>2. (Len(stored) + 1) .. Len(stored') = {}
  BY <1>1
<1> QED
  BY <1>1, <1>2 DEF Writes

\* Events of the owner, behind those that are stored.
LEMMA WritesOwn ==
  ASSUME stored \in Seq(Event), stored' \in Seq(Event), IsPrefix(stored, stored'), NEW c \in Callers, tracked'.owner = c,
         \A i \in DOMAIN stored' : i > Len(stored) => i \in DOMAIN sessions[c].events /\ stored'[i] = sessions[c].events[i],
         \A i \in DOMAIN sessions[c].events : i > Len(stored) => sessions[c].events[i].by = c
  PROVE  Writes
<1>1. DOMAIN stored' = 1 .. Len(stored') /\ Len(stored) \in Nat /\ Len(stored') \in Nat
  BY LenProperties
<1>2. c # nobody /\ c # "repair" /\ c # "other"
  BY PreparationsAssumption
<1>3. ASSUME NEW i \in (Len(stored) + 1) .. Len(stored')
      PROVE  stored'[i].by = c /\ sessions[c].events[i] = stored'[i]
  <2>1. i \in DOMAIN stored' /\ i > Len(stored)
    BY <1>1
  <2> QED
    BY <2>1
<1> QED
  BY <1>2, <1>3 DEF Writes

LEMMA WritesEvent ==
  ASSUME stored \in Seq(Event), NEW e \in Event, stored' = Append(stored, e),
         \/ e.by = "other"
         \/ e.by = "repair" /\ tracked.owner = nobody /\ (live = nobody \/ Unattached)
  PROVE  Writes
<1>1. /\ Len(stored') = Len(stored) + 1 /\ Len(stored) \in Nat /\ stored'[Len(stored) + 1] = e
      /\ IsPrefix(stored, stored')
  BY AppendProperties, PrefixOrder
<1>2. \A i \in (Len(stored) + 1) .. Len(stored') : stored'[i] = e
  BY <1>1
<1> QED
  BY <1>1, <1>2 DEF Writes

LEMMA StoresWrite ==
  ASSUME Inv, NEW c \in Callers, First("seed", c) \/ First("drain", c),
         NEW n \in Nat, n <= Len(sessions[c].events), AppendsUpTo(c, tracked.cursor, n, tracked.owner)
  PROVE  Writes
<1>1. TypeOK /\ OwnerInv /\ ChainInv
  BY DEF Inv, IInv
<1>2. Without(1) /\ 1 \in DOMAIN chain /\ chain[1].op \in {"seed", "drain"} /\ chain[1].by = c
  BY <1>1, WithoutFirst DEF TypeOK
<1>3. tracked.owner = c /\ c # nobody
  BY <1>1, <1>2, PreparationsAssumption DEF ChainInv, OpInv, Owns
<1>4. tracked.cursor = Len(stored) /\ IsPrefix(stored, sessions[c].events) /\ stored \in Seq(Event)
      /\ \A i \in DOMAIN sessions[c].events : i > Len(stored) => sessions[c].events[i].by = c
  BY <1>1, <1>3 DEF OwnerInv, TypeOK
<1>5. /\ stored' \in Seq(Event) /\ IsPrefix(stored, stored') /\ tracked'.owner = c
      /\ \A i \in DOMAIN stored' : i > Len(stored) => i \in DOMAIN sessions[c].events /\ stored'[i] = sessions[c].events[i]
  BY <1>1, <1>3, <1>4, AppendedIs
<1> QED
  BY <1>4, <1>5, WritesOwn

LEMMA CreatedWrites ==
  ASSUME Inv, NEW c \in Callers, Created(c)
  PROVE  Writes
<1> DEFINE seed == SubSeq(sessions[c].events, 1, sessions[c].seeded)
           from == IF Claims(seed) THEN tracked.cursor ELSE Len(stored)
           accepted == Claims(seed) \/ Registers(seed)
<1>1. /\ TypeOK /\ SessionInv /\ First("created", c)
      /\ (accepted /\ AppendsUpTo(c, from, Len(seed), c)) \/ stored' = stored
  BY DEF Created, Inv, IInv
<1>2. /\ \A i \in DOMAIN sessions[c].events : sessions[c].events[i].by = c
      /\ Len(seed) = sessions[c].seeded /\ ~Claims(seed)
      /\ Registers(seed) => stored = <<>>
  BY <1>1, CreatedFirst
<1>3. sessions[c].seeded \in Nat /\ sessions[c].seeded <= Len(sessions[c].events)
      /\ sessions[c].events \in Seq(Event) /\ stored \in Seq(Event)
  BY <1>1 DEF TypeOK, SessionInv
<1> HIDE DEF seed
<1>4. CASE accepted /\ AppendsUpTo(c, from, Len(seed), c)
  <2>1. AppendsUpTo(c, Len(stored), sessions[c].seeded, c) /\ stored = <<>>
    BY <1>2, <1>4
  <2>2. IsPrefix(stored, sessions[c].events)
    BY <1>3, <2>1, PrefixOrder
  <2>3. /\ stored' \in Seq(Event) /\ IsPrefix(stored, stored') /\ tracked'.owner = c
        /\ \A i \in DOMAIN stored' : i > Len(stored) => i \in DOMAIN sessions[c].events /\ stored'[i] = sessions[c].events[i]
    BY <1>1, <1>3, <2>1, <2>2, AppendedIs
  <2> QED
    BY <1>2, <1>3, <2>3, WritesOwn
<1>5. CASE stored' = stored
  BY <1>1, <1>5, WritesNothing
<1> QED
  BY <1>1, <1>4, <1>5

LEMMA NextWrites ==
  ASSUME Inv, [Next]_vars
  PROVE  Writes
<1>1. TypeOK /\ stored \in Seq(Event)
  BY DEF Inv, TypeOK
<1>2. CASE stored' = stored
  BY <1>1, <1>2, WritesNothing
<1>3. CASE OtherWrites
  <2>1. PICK kind \in {"start", "end"} : stored' = Append(stored, [by |-> "other", kind |-> kind])
    BY <1>3 DEF OtherWrites
  <2>2. [by |-> "other", kind |-> kind] \in Event
    BY DEF Event
  <2> QED
    BY <1>1, <2>1, <2>2, WritesEvent
<1>4. ASSUME NEW c \in Callers, CommitRestarts(c) PROVE Writes
  <2>1. First("commit", c) /\ tracked.owner = nobody
    BY <1>4 DEF CommitRestarts
  <2>2. live = nobody \/ Unattached
    BY <2>1, CommitHolds
  <2>3. Closer \in Event /\ Closer.by = "repair"
    BY DEF Closer, Event
  <2>4. stored' = Append(stored, Closer) \/ stored' = stored
    BY <1>4 DEF CommitRestarts, Balanced
  <2> QED
    BY <1>1, <1>2, <2>1, <2>2, <2>3, <2>4, WritesEvent
<1>5. ASSUME NEW c \in Callers, SeedStored(c), stored' # stored PROVE Writes
  <2>1. First("seed", c) /\ AppendsUpTo(c, tracked.cursor, sessions[c].seeded, tracked.owner)
    BY <1>5 DEF SeedStored, identity
  <2>2. sessions[c].seeded \in Nat /\ sessions[c].seeded <= Len(sessions[c].events)
    BY <1>1 DEF Inv, IInv, SessionInv, TypeOK
  <2> QED
    BY <2>1, <2>2, StoresWrite
<1>6. ASSUME NEW c \in Callers, Drain(c) PROVE Writes
  <2>1. First("drain", c) /\ AppendsUpTo(c, tracked.cursor, Head(chain).n, tracked.owner)
    BY <1>6 DEF Drain
  <2>2. 1 \in DOMAIN chain /\ Head(chain) = chain[1] /\ chain[1] \in Op /\ chain[1].op = "drain" /\ chain[1].by = c
    BY <1>1, <2>1, FirstIs DEF TypeOK
  <2>3. chain[1].n \in Nat /\ chain[1].n <= Len(sessions[c].events)
    BY <2>2 DEF Inv, IInv, ChainInv, OpInv, Op
  <2> QED
    BY <2>1, <2>2, <2>3, StoresWrite
<1>7. ASSUME NEW c \in Callers, Created(c) PROVE Writes
  BY <1>7, CreatedWrites
<1>8. ASSUME stored' # stored
      PROVE  \/ OtherWrites
             \/ \E c \in Callers : CommitRestarts(c) \/ SeedStored(c) \/ Drain(c) \/ Created(c)
  <2>1. CASE UNCHANGED vars
    BY <1>8, <2>1 DEF vars, identity
  <2>2. CASE Read \/ Evicted
    BY <1>8, <2>2 DEF Read, Evicted
  <2>3. ASSUME NEW c \in Callers, Continues(c) PROVE FALSE
    <3>1. CASE Looks(c) \/ ReserveRestarts(c) \/ ReserveWaits(c) \/ ReserveCommits(c) \/ ReserveEnds(c)
      BY <1>8, <3>1, Zenon DEF Looks, ReserveRestarts, ReserveWaits, ReserveCommits, ReserveEnds, identity
    <3>2. CASE InspectChecks(c) \/ InspectEnds(c) \/ LoadFlushed(c)
      BY <1>8, <3>2, Zenon DEF InspectChecks, InspectEnds, LoadFlushed, identity
    <3>3. CASE ConfiguredResumes(c) \/ ConfiguredLists(c) \/ SetupBegins(c) \/ RollsBack(c)
      BY <1>8, <3>3, Zenon DEF ConfiguredResumes, ConfiguredLists, SetupBegins, RollsBack, identity
    <3>4. CASE WaitRejected(c) \/ LoadAttaches(c) \/ ReserveGivesUp(c)
      BY <1>8, <3>4, Zenon DEF WaitRejected, LoadAttaches, ReserveGivesUp, identity
    <3> QED
      BY <2>3, <3>1, <3>2, <3>3, <3>4 DEF Continues
  <2>4. ASSUME NEW c \in Callers, Settles(c) PROVE FALSE
    BY <1>8, <2>4, Zenon DEF Settles, SetupFails, Publishes, PublishCollides, PublishVetoed, PublishRefused, identity
  <2>5. ASSUME NEW c \in Callers, Serialized(c)
        PROVE  CommitRestarts(c) \/ SeedStored(c) \/ Drain(c) \/ Created(c)
    <3>1. ~(Commit(c) \/ CommitRefused(c) \/ Check(c) \/ DrainFails(c) \/ Retire(c))
      BY <1>8, Zenon DEF Commit, CommitRefused, Check, DrainFails, Retire, identity
    <3> QED
      BY <2>5, <3>1 DEF Serialized
  <2>6. ASSUME NEW c \in Callers, Retires(c) PROVE FALSE
    BY <1>8, <2>6, Zenon DEF Retires, DrainQueued, RetireQueued, RetireFails, identity
  <2>7. ASSUME NEW c \in Callers, Environment(c) PROVE FALSE
    BY <1>8, <2>7, Zenon DEF Environment, Begins, CreateBegins, ConfiguredBegins, SetupAppends, TurnStarts,
                             DisposeBegins, Abort, identity
  <2>8. ASSUME NEW c \in Callers, TurnEnds(c) \/ Detaches(c) \/ VetoOver(c) PROVE FALSE
    BY <1>8, <2>8, Zenon DEF TurnEnds, Detaches, VetoOver, identity
  <2> QED
    BY <2>1, <2>2, <2>3, <2>4, <2>5, <2>6, <2>7, <2>8 DEF Next
<1> QED
  BY <1>2, <1>3, <1>4, <1>5, <1>6, <1>7, <1>8

\* appendCore, recovery: no step rewrites an event of the log; recovery writes
\* only while nothing that was attached is live or owns the log, and every other
\* event of this process is the next one of the log's owner, for any callers.
THEOREM LogOwnedCorrect == Spec => LogOwned
<1>1. Inv /\ [Next]_vars => [Writes]_vars
  BY NextWrites
<1>2. []Inv /\ [][Next]_vars => [][Writes]_vars
  BY <1>1, PTL
<1>3. [][Writes]_vars => LogOwned
  BY PTL DEF Writes, LogOwned
<1> QED
  BY <1>2, <1>3, InvHolds, PTL DEF Spec
-----------------------------------------------------------------------------
(* What an answer must continue *)

\* The log with the tail of its owner continues what every call found when it
\* began; where a call stands says how much of that is on disk by then.
Failed ==
  \E d \in Callers :
    sessions[d].init = "failed" \/ (sessions[d].stage = "withdrawn" /\ calls[d].kind # "resume")
Truth == IF tracked.owner = nobody THEN stored ELSE sessions[tracked.owner].events
Follows(c) == calls[c].awaits # nobody /\ Owns(calls[c].awaits)
Seed(d) == SubSeq(sessions[d].events, 1, sessions[d].seeded)
\* A Session whose events an answer may have, and that may still come to own the log.
Seeds(d) == Queued("created", d) \/ sessions[d].stage = "vetoed"
Answers(c) == (calls[c].at = "done" /\ ~calls[c].borrowed) \/ calls[c].at = "flushing"
KnownInv(c) ==
  /\ IsPrefix(calls[c].known, Truth)
  /\ calls[c].kind = "inspect" /\ calls[c].at = "waiting" => IsPrefix(calls[c].known, stored) \/ Follows(c)
  /\ calls[c].kind = "inspect" /\ calls[c].at \in {"reading", "read", "checking", "fresh", "stale"} =>
       IsPrefix(calls[c].known, stored)
  /\ calls[c].at = "fresh" => IsPrefix(calls[c].known, calls[c].source)
  /\ calls[c].kind \in {"load", "inspect"} /\ Answers(c) =>
       \/ IsPrefix(calls[c].known, calls[c].source)
       \/ \E d \in Callers : Seeds(d) /\ IsPrefix(Seed(d), calls[c].source)
FreshInv == Failed \/ \A c \in Callers : KnownInv(c)

\* A step loses nothing of the log, or of what a Session that may own it has.
Grows ==
  /\ IsPrefix(stored, stored') /\ IsPrefix(Truth, Truth')
  /\ \A d \in Callers : Owns(d) => tracked'.owner = d \/ IsPrefix(Truth, stored')
  /\ \A d \in Callers : Seeds(d) => (Seeds(d)' /\ Seed(d)' = Seed(d)) \/ IsPrefix(Truth, Seed(d))

\* A call that the step only wakes, or marks as aborted.
Unmoved(c) ==
  /\ calls'[c].kind = calls[c].kind /\ calls'[c].known = calls[c].known
  /\ calls'[c].source = calls[c].source /\ calls'[c].awaits = calls[c].awaits
  /\ calls'[c].borrowed = calls[c].borrowed
  /\ calls'[c].at = calls[c].at \/ (calls[c].at = "queued" /\ calls'[c].at = "read")

LEMMA LogTypes ==
  ASSUME TypeOK
  PROVE  /\ stored \in Seq(Event) /\ Truth \in Seq(Event)
         /\ \A c \in Callers :
              /\ calls[c].known \in Seq(Event) /\ calls[c].source \in Seq(Event)
              /\ calls[c].awaits \in Callers \cup {nobody} /\ sessions[c].events \in Seq(Event)
<1>1. /\ stored \in Seq(Event) /\ tracked.owner \in Callers \cup {nobody}
      /\ \A c \in Callers : sessions[c].events \in Seq(Event) /\ calls[c] \in Call
  BY DEF TypeOK
<1>2. Truth \in Seq(Event)
  BY <1>1 DEF Truth
<1> QED
  BY <1>1, <1>2 DEF Call

LEMMA SeedIs ==
  ASSUME Inv, NEW d \in Callers
  PROVE  /\ Seed(d) \in Seq(Event) /\ IsPrefix(Seed(d), sessions[d].events)
         /\ sessions[d].seeded = Len(sessions[d].events) => Seed(d) = sessions[d].events
<1>1. /\ sessions[d].events \in Seq(Event) /\ sessions[d].seeded \in Nat
      /\ sessions[d].seeded <= Len(sessions[d].events)
  BY DEF Inv, IInv, SessionInv, TypeOK
<1> QED
  BY <1>1, BeginningOf, SubSeqFull DEF Seed

LEMMA OwnerTruth ==
  ASSUME Inv
  PROVE  /\ IsPrefix(stored, Truth)
         /\ \A d \in Callers : Owns(d) => Truth = sessions[d].events
         /\ tracked.owner = nobody => Truth = stored
<1>1. TypeOK /\ OwnerInv /\ stored \in Seq(Event) /\ nobody \notin Callers
  BY PreparationsAssumption DEF Inv, IInv, TypeOK
<1>2. CASE tracked.owner = nobody
  BY <1>1, <1>2, PrefixOrder DEF Truth, Owns
<1>3. CASE tracked.owner # nobody
  BY <1>1, <1>3 DEF Truth, Owns, OwnerInv
<1> QED
  BY <1>2, <1>3

\* What a call knows stays true of it while it does not move.
LEMMA KnownUnmoved ==
  ASSUME Inv, Inv', Grows, NEW c \in Callers, Unmoved(c), KnownInv(c)
  PROVE  KnownInv(c)'
<1> DEFINE known == calls[c].known
           source == calls[c].source
           d == calls[c].awaits
<1>1. /\ TypeOK /\ TypeOK' /\ known \in Seq(Event) /\ source \in Seq(Event) /\ d \in Callers \cup {nobody}
      /\ stored \in Seq(Event) /\ stored' \in Seq(Event) /\ Truth \in Seq(Event) /\ Truth' \in Seq(Event)
      /\ nobody \notin Callers
  <2>1. TypeOK /\ TypeOK'
    BY DEF Inv
  <2>2. /\ stored' \in Seq(Event) /\ tracked'.owner \in Callers \cup {nobody}
        /\ \A e \in Callers : sessions'[e].events \in Seq(Event)
    BY <2>1 DEF TypeOK
  <2>3. Truth' \in Seq(Event)
    BY <2>2 DEF Truth
  <2> QED
    BY <2>1, <2>2, <2>3, LogTypes, PreparationsAssumption
<1>2. /\ calls'[c].kind = calls[c].kind /\ calls'[c].known = known /\ calls'[c].source = source
      /\ calls'[c].awaits = d /\ calls'[c].borrowed = calls[c].borrowed
      /\ calls'[c].at = calls[c].at \/ (calls[c].at = "queued" /\ calls'[c].at = "read")
  BY DEF Unmoved
<1>4. calls[c].at = "queued" => calls[c].kind # "inspect"
  BY PlaceSays, PlacesAre DEF CallKinds
<1>5. IsPrefix(known, Truth) /\ IsPrefix(stored, stored') /\ IsPrefix(Truth, Truth')
  BY DEF KnownInv, Grows
<1>6. IsPrefix(known, Truth')
  BY <1>1, <1>5, PrefixOrder
<1>7. IsPrefix(known, stored) => IsPrefix(known, stored')
  BY <1>1, <1>5, PrefixOrder
<1>9. Follows(c) => Follows(c)' \/ IsPrefix(known, stored')
  <2>1. ASSUME Follows(c) PROVE tracked'.owner = d \/ IsPrefix(Truth, stored')
    BY <1>1, <2>1 DEF Follows, Grows
  <2>2. ASSUME IsPrefix(Truth, stored') PROVE IsPrefix(known, stored')
    BY <1>1, <1>5, <2>2, PrefixOrder
  <2> QED
    BY <1>2, <2>1, <2>2 DEF Follows, Owns
<1>11. ASSUME NEW e \in Callers, Seeds(e), IsPrefix(Seed(e), source)
       PROVE  (Seeds(e)' /\ IsPrefix(Seed(e)', source)) \/ IsPrefix(known, source)
  <2>1. (Seeds(e)' /\ Seed(e)' = Seed(e)) \/ IsPrefix(Truth, Seed(e))
    BY <1>11 DEF Grows
  <2>2. CASE IsPrefix(Truth, Seed(e))
    <3>1. Seed(e) \in Seq(Event)
      BY <1>1, SeedIs
    <3>2. IsPrefix(known, Seed(e))
      BY <1>1, <1>5, <2>2, <3>1, PrefixOrder
    <3> QED
      BY <1>1, <1>11, <3>1, <3>2, PrefixOrder
  <2> QED
    BY <1>11, <2>1, <2>2
<1> HIDE DEF known, source, d
<1>12. calls'[c].kind = "inspect" /\ calls'[c].at = "waiting" => IsPrefix(known, stored') \/ Follows(c)'
  BY <1>2, <1>7, <1>9 DEF KnownInv, known
<1>13. ASSUME calls'[c].kind = "inspect", calls'[c].at \in {"reading", "read", "checking", "fresh", "stale"}
       PROVE  IsPrefix(known, stored')
  <2>1. calls'[c].at = calls[c].at
    BY <1>2, <1>4, <1>13
  <2>2. IsPrefix(known, stored)
    BY <1>2, <1>13, <2>1 DEF KnownInv, known
  <2> QED
    BY <1>7, <2>2
<1>14. calls'[c].at = "fresh" => IsPrefix(known, source)
  BY <1>2 DEF KnownInv, known, source
<1>15. ASSUME calls'[c].kind \in {"load", "inspect"}, Answers(c)'
       PROVE  \/ IsPrefix(known, source)
              \/ \E e \in Callers : Seeds(e)' /\ IsPrefix(Seed(e)', source)
  <2>1. calls[c].kind \in {"load", "inspect"} /\ Answers(c)
    BY <1>2, <1>15 DEF Answers
  <2>2. \/ IsPrefix(known, source)
        \/ \E e \in Callers : Seeds(e) /\ IsPrefix(Seed(e), source)
    BY <2>1 DEF KnownInv, known, source
  <2> QED
    BY <1>11, <2>2
<1> QED
  BY <1>2, <1>6, <1>12, <1>13, <1>14, <1>15 DEF KnownInv

\* Nothing but the log is asked of a call that neither reads nor answers.
LEMMA KnownFree ==
  ASSUME Inv, Inv', Grows, NEW c \in Callers, KnownInv(c), calls'[c].known \in {calls[c].known, <<>>},
         calls'[c].kind # "inspect" \/ calls'[c].at \in {"idle", "failed"} \/ (calls'[c].at = "done" /\ calls'[c].borrowed),
         calls'[c].at # "fresh",
         calls'[c].kind = "load" => ~Answers(c)'
  PROVE  KnownInv(c)'
<1>1. /\ TypeOK /\ TypeOK' /\ calls[c].known \in Seq(Event)
      /\ stored \in Seq(Event) /\ stored' \in Seq(Event) /\ Truth \in Seq(Event) /\ Truth' \in Seq(Event)
  <2>1. TypeOK /\ TypeOK'
    BY DEF Inv
  <2>2. /\ stored' \in Seq(Event) /\ tracked'.owner \in Callers \cup {nobody}
        /\ \A e \in Callers : sessions'[e].events \in Seq(Event)
    BY <2>1 DEF TypeOK
  <2>3. Truth' \in Seq(Event)
    BY <2>2 DEF Truth
  <2> QED
    BY <2>1, <2>2, <2>3, LogTypes
<1>2. IsPrefix(calls'[c].known, Truth')
  <2>1. IsPrefix(calls[c].known, Truth) /\ IsPrefix(Truth, Truth')
    BY DEF KnownInv, Grows
  <2>2. IsPrefix(calls[c].known, Truth') /\ IsPrefix(<<>>, Truth')
    BY <1>1, <2>1, PrefixOrder
  <2> QED
    BY <2>2
<1> QED
  BY <1>2 DEF KnownInv, Answers

KeepsCreated == \A d \in Callers : Queued("created", d) => Queued("created", d)'

\* The Session that is live has every event of the log, or has yet to be checked against it.
LEMMA KnownBorrows ==
  ASSUME Inv, ~Failed, live # nobody, NEW c \in Callers, IsPrefix(calls'[c].known, Truth),
         UNCHANGED <<stored, tracked, sessions>>, KeepsCreated,
         calls'[c].source = sessions[live].events, calls'[c].at \in {"done", "flushing"}
  PROVE  KnownInv(c)'
<1>1. /\ TypeOK /\ live \in Callers /\ SessionInv /\ RegistryInv /\ WantedInv /\ PendingInv /\ ChainInv
      /\ sessions[live].events \in Seq(Event) /\ sessions[live].seeded \in Nat
      /\ sessions[live].init \in {"none", "pending", "ok", "failed"}
  BY DEF Inv, IInv, TypeOK
<1>2. /\ sessions[live].stage \in {"live", "vetoed"}
      /\ sessions[live].stage = "live" => sessions[live].init \in {"pending", "ok"}
  BY <1>1 DEF RegistryInv, SessionInv, Failed
<1>3. Truth' = Truth
  BY DEF Truth
<1>4. IsPrefix(calls'[c].known, sessions[live].events)
        \/ \E d \in Callers : Seeds(d) /\ IsPrefix(Seed(d), sessions[live].events)
  <2>1. CASE Owns(live)
    BY <1>1, <2>1, OwnerTruth
  <2>2. CASE ~Owns(live) /\ sessions[live].stage = "live"
    <3>1. sessions[live].init = "pending"
      BY <1>1, <1>2, <2>2 DEF WantedInv
    <3>2. Queued("seed", live) \/ Queued("created", live)
      BY <1>1, <3>1 DEF PendingInv, PendingInit
    <3>3. ~Queued("seed", live)
      BY <1>1, <2>2 DEF ChainInv, OpInv, Queued
    <3> QED
      BY <1>1, <3>2, <3>3, SeedIs DEF Seeds
  <2>3. CASE sessions[live].stage = "vetoed"
    BY <1>1, <2>3, SeedIs DEF Seeds
  <2> QED
    BY <1>2, <2>1, <2>2, <2>3
<1>5. ASSUME NEW d \in Callers, Seeds(d), IsPrefix(Seed(d), sessions[live].events)
      PROVE  Seeds(d)' /\ IsPrefix(Seed(d)', calls'[c].source)
  <2>1. Seeds(d)'
    BY <1>5 DEF Seeds, KeepsCreated
  <2>2. Seed(d)' = Seed(d)
    BY DEF Seed
  <2> QED
    BY <1>5, <2>1, <2>2
<1> QED
  BY <1>3, <1>4, <1>5 DEF KnownInv

\* What makes the log unknown stays so, and a call knows after the step what it must.
KeepsFailed ==
  \A d \in Callers :
    /\ sessions[d].init = "failed" => sessions'[d].init = "failed"
    /\ sessions[d].stage = "withdrawn" => sessions'[d].stage = "withdrawn"
StillKnown(c) == calls'[c].kind = calls[c].kind /\ (~Failed /\ KnownInv(c) => KnownInv(c)')

\* A step at a time, unless an initialisation has failed.
LEMMA FreshStep ==
  ASSUME Inv, Inv', FreshInv, KeepsFailed, ~Failed => Grows,
         \A c \in Callers : Unmoved(c) \/ StillKnown(c)
  PROVE  FreshInv'
<1>1. \A c \in Callers : calls'[c].kind = calls[c].kind
  BY DEF Unmoved, StillKnown
<1>2. CASE Failed
  BY <1>1, <1>2 DEF KeepsFailed, Failed, FreshInv
<1>3. CASE ~Failed
  <2>1. ~Failed /\ Grows /\ \A c \in Callers : KnownInv(c)
    BY <1>3 DEF FreshInv
  <2>2. ASSUME NEW c \in Callers PROVE KnownInv(c)'
    BY <2>1, KnownUnmoved DEF StillKnown
  <2> QED
    BY <2>2 DEF FreshInv
<1> QED
  BY <1>2, <1>3
-----------------------------------------------------------------------------
(* What a step leaves of the logs *)

LEMMA CreatedKept ==
  ASSUME TypeOK,
         \/ chain' = chain
         \/ \E op \in {"read", "commit", "check", "created", "seed", "drain", "retire"},
               by \in Callers \cup {nobody}, n \in Nat : Enqueued(op, by, n)
         \/ \E k \in Nat : Without(k) /\ (k \in DOMAIN chain => chain[k].op # "created")
  PROVE  KeepsCreated
<1>1. chain \in Seq(Op)
  BY DEF TypeOK
<1>2. ASSUME NEW op \in {"read", "commit", "check", "created", "seed", "drain", "retire"},
             NEW by \in Callers \cup {nobody}, NEW n \in Nat, Enqueued(op, by, n)
      PROVE  KeepsCreated
  <2>1. /\ Len(chain) \in Nat /\ DOMAIN chain = 1 .. Len(chain) /\ DOMAIN chain' = 1 .. Len(chain) + 1
        /\ \A i \in DOMAIN chain : chain'[i] = chain[i]
    BY <1>1, <1>2, EnqueuedIs
  <2>2. DOMAIN chain \subseteq DOMAIN chain'
    BY <2>1
  <2> QED
    BY <2>1, <2>2 DEF KeepsCreated, Queued
<1>3. ASSUME NEW k \in Nat, Without(k), k \in DOMAIN chain => chain[k].op # "created"
      PROVE  KeepsCreated
  <2>1. \A j \in DOMAIN chain : j # k => \E i \in DOMAIN chain' : chain'[i] = chain[j]
    BY <1>3 DEF Without
  <2> QED
    BY <1>3, <2>1 DEF KeepsCreated, Queued
<1> QED
  BY <1>2, <1>3 DEF KeepsCreated, Queued

\* A step that leaves the log, its owner and the events of every Session.
LEMMA SameGrows ==
  ASSUME TypeOK, UNCHANGED <<stored, tracked>>, KeepsCreated,
         \A d \in Callers :
           /\ sessions'[d].events = sessions[d].events /\ sessions'[d].seeded = sessions[d].seeded
           /\ sessions[d].stage = "vetoed" => sessions'[d].stage = "vetoed"
  PROVE  Grows
<1>1. stored \in Seq(Event) /\ Truth \in Seq(Event) /\ tracked.owner \in Callers \cup {nobody}
  BY LogTypes DEF TypeOK
<1>2. Truth' = Truth
  BY <1>1 DEF Truth
<1>3. IsPrefix(stored, stored') /\ IsPrefix(Truth, Truth')
  BY <1>1, <1>2, PrefixOrder
<1>4. \A d \in Callers : Seed(d)' = Seed(d)
  BY DEF Seed
<1> QED
  BY <1>3, <1>4 DEF Grows, Owns, KeepsCreated, Seeds
-----------------------------------------------------------------------------
(* Steps of one call that leave the log and the Sessions *)

LEMMA TurnUnmoves ==
  ASSUME TypeOK, NEW c \in Callers, Turn(c, calls')
  PROVE  \A d \in Callers : d # c => Unmoved(d)
BY Others2 DEF Turn, Unmoved

\* What one call writes, and then perhaps wakes.
LEMMA TurnOf ==
  ASSUME TypeOK, NEW c \in Callers, NEW cs \in [Callers -> Call], \A d \in Callers : d # c => cs[d] = calls[d],
         calls' = cs \/ calls' = Woken(cs), cs[c].at # "queued", cs[c].kind = calls[c].kind
  PROVE  calls'[c] = cs[c] /\ \A d \in Callers : d # c => Unmoved(d)
<1>1. CASE calls' = cs
  BY <1>1 DEF Unmoved
<1>2. CASE calls' = Woken(cs)
  <2>1. Turn(c, calls') /\ calls'[c] = cs[c]
    BY <1>2, WakesOthers DEF Turn
  <2> QED
    BY <2>1, TurnUnmoves
<1> QED
  BY <1>1, <1>2

LEMMA TurnFresh ==
  ASSUME Inv, Inv', FreshInv, SameLog, KeepsCreated, NEW c \in Callers,
         \A d \in Callers : d # c => Unmoved(d),
         Grows => Unmoved(c) \/ StillKnown(c)
  PROVE  FreshInv'
<1>1. Grows
  BY SameGrows DEF SameLog, Inv
<1>2. KeepsFailed
  BY DEF SameLog, KeepsFailed
<1> QED
  BY <1>1, <1>2, FreshStep

LEMMA FreeTurn ==
  ASSUME Inv, Inv', FreshInv, SameLog, KeepsCreated, NEW c \in Callers,
         \A d \in Callers : d # c => Unmoved(d),
         calls'[c].known \in {calls[c].known, <<>>}, calls'[c].kind = calls[c].kind,
         calls'[c].kind # "inspect" \/ calls'[c].at \in {"idle", "failed"} \/ (calls'[c].at = "done" /\ calls'[c].borrowed),
         calls'[c].at \notin {"fresh", "flushing", "done"} \/ (calls'[c].kind # "load" /\ calls'[c].at # "fresh")
  PROVE  FreshInv'
<1>1. calls'[c].at # "fresh" /\ (calls'[c].kind = "load" => ~Answers(c)')
  BY DEF Answers
<1>2. Grows => StillKnown(c)
  BY <1>1, KnownFree DEF StillKnown
<1> QED
  BY <1>2, TurnFresh

LEMMA ChainCreated ==
  ASSUME TypeOK, chain' = chain
  PROVE  KeepsCreated
BY CreatedKept

LEMMA EnqueuedCreated ==
  ASSUME TypeOK, NEW op \in {"read", "commit", "check", "created", "seed", "drain", "retire"},
         NEW by \in Callers \cup {nobody}, NEW n \in Nat, Enqueued(op, by, n)
  PROVE  KeepsCreated
BY CreatedKept

LEMMA CreatedIsQueued ==
  ASSUME TypeOK, NEW c \in Callers, Enqueued("created", c, 0)
  PROVE  Queued("created", c)'
<1>1. chain \in Seq(Op) /\ "created" \in {"read", "commit", "check", "created", "seed", "drain", "retire"}
  BY DEF TypeOK
<1>2. /\ DOMAIN chain' = 1 .. Len(chain) + 1 /\ Len(chain) \in Nat
      /\ chain'[Len(chain) + 1] = [op |-> "created", by |-> c, n |-> 0]
  BY <1>1, EnqueuedIs
<1>3. Len(chain) + 1 \in DOMAIN chain'
  BY <1>2
<1> QED
  BY <1>2, <1>3 DEF Queued

LEMMA FirstCreated ==
  ASSUME TypeOK, NEW op \in {"read", "commit", "check", "seed", "drain", "retire"}, NEW by, First(op, by)
  PROVE  KeepsCreated
<1>1. Without(1) /\ chain[1].op = op
  BY WithoutFirst DEF TypeOK
<1> QED
  BY <1>1, CreatedKept

\* Calls that go on to a place where they know nothing but the log.
LEMMA GoesFresh ==
  ASSUME Inv, Inv', FreshInv, SameLog, KeepsCreated, NEW c \in Callers,
         NEW place \in {"draining", "waiting", "queued", "committing", "committed", "reserved", "setup",
                        "rollback", "creating", "live", "vetoed", "disposing", "failed"},
         calls' = Goes(c, place), calls[c].kind # "inspect"
  PROVE  FreshInv'
<1>1. TypeOK
  BY DEF Inv
<1>2. Turn(c, calls') /\ calls'[c].at = place /\ calls'[c].kind = calls[c].kind /\ calls'[c].known = calls[c].known
  BY <1>1, GoesTo
<1>3. \A d \in Callers : d # c => Unmoved(d)
  BY <1>1, <1>2, TurnUnmoves
<1> QED
  BY <1>2, <1>3, FreeTurn

LEMMA RejectedFresh ==
  ASSUME Inv, Inv', FreshInv, SameLog, KeepsCreated, NEW c \in Callers,
         NEW cs \in [Callers -> Call], \A d \in Callers : d # c => cs[d] = calls[d],
         cs[c].kind = calls[c].kind,
         calls' = Rejected(c, cs) \/ calls' = Woken(Rejected(c, cs))
  PROVE  FreshInv'
<1> DEFINE t == Rejected(c, cs)
<1>1. TypeOK /\ calls[c].kind \in CallKinds
  BY PlaceSays DEF Inv
<1>2. /\ t \in [Callers -> Call] /\ \A d \in Callers : d # c => t[d] = calls[d]
      /\ t[c].at = (IF cs[c].kind = "configured" /\ ~cs[c].aborted THEN "listing" ELSE "failed")
      /\ t[c].kind = calls[c].kind /\ t[c].known = <<>>
  BY RejectedIs
<1>3. calls' = t \/ calls' = Woken(t)
  OBVIOUS
<1> HIDE DEF t
<1>4. calls'[c] = t[c] /\ \A d \in Callers : d # c => Unmoved(d)
  BY <1>1, <1>2, <1>3, TurnOf
<1>5. calls'[c].known = <<>> /\ calls'[c].kind = calls[c].kind
      /\ (calls'[c].at = "failed" \/ (calls'[c].at = "listing" /\ calls'[c].kind = "configured"))
  BY <1>2, <1>4
<1> QED
  BY <1>4, <1>5, FreeTurn

\* An answer that is the log as the call found it, or goes on from there.
LEMMA AnswerFresh ==
  ASSUME Inv, Inv', FreshInv, SameLog, KeepsCreated, NEW c \in Callers,
         NEW view \in Seq(Event), NEW lent \in BOOLEAN,
         calls' = Returned(c, view, lent) \/ calls' = Woken(Returned(c, view, lent)),
         ~Failed /\ KnownInv(c) => lent \/ IsPrefix(calls[c].known, view)
  PROVE  FreshInv'
<1> DEFINE t == Returned(c, view, lent)
<1>1. TypeOK /\ calls \in [Callers -> Call]
  BY DEF Inv, TypeOK
<1>2. /\ t \in [Callers -> Call] /\ \A d \in Callers : d # c => t[d] = calls[d]
      /\ t[c].at = "done" /\ t[c].source = view /\ t[c].borrowed = lent
      /\ t[c].kind = calls[c].kind /\ t[c].known = calls[c].known /\ t[c].awaits = calls[c].awaits
  BY <1>1, ReturnedIs
<1>3. calls' = t \/ calls' = Woken(t)
  OBVIOUS
<1> HIDE DEF t
<1>4. calls'[c] = t[c] /\ \A d \in Callers : d # c => Unmoved(d)
  BY <1>1, <1>2, <1>3, TurnOf
<1>5. /\ calls'[c].at = "done" /\ calls'[c].source = view /\ calls'[c].borrowed = lent
      /\ calls'[c].known = calls[c].known /\ calls'[c].kind = calls[c].kind
  BY <1>2, <1>4
<1>6. Truth' = Truth
  BY DEF Truth, SameLog
<1>7. ASSUME ~Failed, KnownInv(c) PROVE KnownInv(c)'
  <2>1. IsPrefix(calls'[c].known, Truth')
    BY <1>5, <1>6, <1>7 DEF KnownInv
  <2>2. calls'[c].borrowed \/ IsPrefix(calls'[c].known, calls'[c].source)
    BY <1>5, <1>7
  <2> QED
    BY <1>5, <2>1, <2>2 DEF KnownInv, Answers
<1> QED
  BY <1>4, <1>5, <1>7, TurnFresh DEF StillKnown
-----------------------------------------------------------------------------
(* The calls of the factory, and the reservation *)

LEMMA FactoryFresh ==
  ASSUME Inv, Inv', FreshInv, NEW c \in Callers,
         CreateBegins(c) \/ ConfiguredBegins(c) \/ ConfiguredLists(c) \/ SetupFails(c) \/ PublishCollides(c)
           \/ DisposeBegins(c)
  PROVE  FreshInv'
<1>1. /\ TypeOK /\ SameLog /\ chain' = chain
      /\ calls[c].at \in {"idle", "listing", "setup", "creating", "live"}
      /\ \E place \in {"draining", "setup", "rollback", "creating", "disposing", "failed"} : calls' = Goes(c, place)
      /\ calls[c].at = "idle" => calls[c].kind \in {"create", "configured"}
  <2>1. SameLog /\ chain' = chain
    BY Zenon DEF CreateBegins, ConfiguredBegins, ConfiguredLists, SetupFails, PublishCollides, DisposeBegins, SameLog, identity
  <2>2. CASE CreateBegins(c)
    BY <2>1, <2>2 DEF CreateBegins, Idle, At, Inv
  <2>3. CASE ConfiguredBegins(c)
    BY <2>1, <2>3 DEF ConfiguredBegins, Idle, At, Inv
  <2>4. CASE ConfiguredLists(c)
    BY <2>1, <2>4 DEF ConfiguredLists, At, Inv
  <2>5. CASE SetupFails(c)
    BY <2>1, <2>5 DEF SetupFails, At, Inv
  <2>6. CASE DisposeBegins(c)
    BY <2>1, <2>6 DEF DisposeBegins, At, Inv
  <2>7. CASE PublishCollides(c)
    BY <2>1, <2>7 DEF PublishCollides, Publishable, Lost, At, Inv
  <2> QED
    BY <2>2, <2>3, <2>4, <2>5, <2>6, <2>7
<1>2. calls[c].kind # "inspect"
  BY <1>1, PlaceSays, PlacesAre DEF CallKinds
<1> QED
  BY <1>1, <1>2, ChainCreated, GoesFresh

LEMMA ReleaseFresh ==
  ASSUME Inv, Inv', FreshInv, NEW c \in Callers, SetupBegins(c) \/ RollsBack(c)
  PROVE  FreshInv'
<1>1. /\ TypeOK /\ SameLog /\ chain' = chain /\ calls[c].at \in {"reserved", "rollback"}
      /\ calls \in [Callers -> Call]
      /\ Release(c, Rejected(c, calls)) \/ calls' = Goes(c, "setup")
  BY DEF SetupBegins, RollsBack, At, SameLog, Inv, TypeOK
<1>2. calls[c].kind # "inspect"
  BY <1>1, PlaceSays, PlacesAre DEF CallKinds
<1>3. CASE Release(c, Rejected(c, calls))
  <2>1. calls' = Rejected(c, calls) \/ calls' = Woken(Rejected(c, calls))
    BY <1>3 DEF Release, Readied, Removed
  <2> QED
    BY <1>1, <2>1, ChainCreated, RejectedFresh
<1> QED
  BY <1>1, <1>2, <1>3, ChainCreated, GoesFresh

LEMMA ReserveFresh ==
  ASSUME Inv, Inv', FreshInv, NEW c \in Callers, ReserveWaits(c) \/ ReserveCommits(c)
  PROVE  FreshInv'
<1>1. /\ TypeOK /\ SameLog /\ calls \in [Callers -> Call]
      /\ calls[c].kind # "inspect"
      /\ \/ calls' = Rejected(c, calls) /\ chain' = chain
         \/ calls' = Woken(Rejected(c, calls)) /\ chain' = chain
         \/ calls' = Goes(c, "queued") /\ chain' = chain
         \/ calls' = Goes(c, "committing") /\ Enqueued("commit", c, 0)
  BY DEF ReserveWaits, ReserveCommits, Reserves, Removed, SameLog, Inv, TypeOK, identity
<1>2. KeepsCreated
  BY <1>1, ChainCreated, EnqueuedCreated
<1> QED
  BY <1>1, <1>2, RejectedFresh, GoesFresh

\* A load that committed returns the log, which nobody owns.
LEMMA ReserveEndsFresh ==
  ASSUME Inv, Inv', FreshInv, NEW c \in Callers, ReserveEnds(c)
  PROVE  FreshInv'
<1>1. /\ TypeOK /\ SameLog /\ calls \in [Callers -> Call] /\ chain' = chain /\ calls[c].at = "committed"
      /\ \/ calls' = Woken(Rejected(c, calls))
         \/ calls' = Woken(Returned(c, Balanced(entry.source), FALSE))
         \/ calls' = Goes(c, "reserved")
  BY DEF ReserveEnds, Readied, Removed, At, SameLog, Inv, TypeOK
<1>2. calls[c].kind # "inspect" /\ KeepsCreated
  BY <1>1, ChainCreated, PlaceSays, PlacesAre DEF CallKinds
<1>3. tracked.owner = nobody /\ entry.source = stored
  BY <1>1 DEF Inv, IInv, HolderInv, Settled
<1>4. stored \in Seq(Event) /\ calls[c].known \in Seq(Event)
  BY <1>1, LogTypes
<1>5. Balanced(entry.source) \in Seq(Event) /\ IsPrefix(stored, Balanced(entry.source))
  BY <1>3, <1>4, BalancedIs
<1>6. KnownInv(c) => IsPrefix(calls[c].known, Balanced(entry.source))
  <2>1. Truth = stored
    BY <1>3, OwnerTruth
  <2> QED
    BY <1>4, <1>5, <2>1, PrefixOrder DEF KnownInv
<1>7. CASE calls' = Woken(Returned(c, Balanced(entry.source), FALSE))
  BY <1>1, <1>2, <1>5, <1>6, <1>7, AnswerFresh
<1>8. CASE calls' = Woken(Rejected(c, calls))
  BY <1>1, <1>2, <1>8, RejectedFresh
<1>9. CASE calls' = Goes(c, "reserved")
  BY <1>1, <1>2, <1>9, GoesFresh
<1> QED
  BY <1>1, <1>7, <1>8, <1>9

LEMMA CommitRefusedFresh ==
  ASSUME Inv, Inv', FreshInv, NEW c \in Callers, CommitRefused(c)
  PROVE  FreshInv'
<1>1. /\ TypeOK /\ SameLog /\ calls \in [Callers -> Call] /\ First("commit", c)
      /\ calls' = Rejected(c, calls) \/ calls' = Woken(Rejected(c, calls))
  BY DEF CommitRefused, RemovedFor, Removed, SameLog, Inv, TypeOK
<1> QED
  BY <1>1, FirstCreated, RejectedFresh

\* A load of a live Session returns the events it took before the flush.
LEMMA LoadFlushedFresh ==
  ASSUME Inv, Inv', FreshInv, NEW c \in Callers, LoadFlushed(c)
  PROVE  FreshInv'
<1>1. /\ TypeOK /\ SameLog /\ calls \in [Callers -> Call] /\ chain' = chain /\ calls[c].at = "flushing"
      /\ calls' = Rejected(c, calls) \/ calls' = Returned(c, calls[c].source, FALSE)
  BY DEF LoadFlushed, At, SameLog, Inv, TypeOK, identity
<1>2. calls[c].kind = "load" /\ KeepsCreated /\ calls[c].source \in Seq(Event)
  BY <1>1, ChainCreated, LogTypes, PlaceSays, PlacesAre DEF CallKinds
<1>3. CASE calls' = Returned(c, calls[c].source, FALSE)
  <2>1. /\ calls'[c].at = "done" /\ calls'[c].source = calls[c].source /\ calls'[c].known = calls[c].known
        /\ calls'[c].kind = calls[c].kind
        /\ \A d \in Callers : d # c => Unmoved(d)
    BY <1>1, <1>2, <1>3, ReturnedTo DEF Unmoved
  <2>2. Truth' = Truth /\ \A d \in Callers : (Seeds(d) => Seeds(d)') /\ Seed(d)' = Seed(d)
    BY <1>1, <1>2 DEF Truth, Seed, Seeds, KeepsCreated, SameLog
  <2>3. ASSUME KnownInv(c) PROVE KnownInv(c)'
    <3>1. \/ IsPrefix(calls[c].known, calls[c].source)
          \/ \E d \in Callers : Seeds(d) /\ IsPrefix(Seed(d), calls[c].source)
      BY <1>1, <1>2, <2>3 DEF KnownInv, Answers
    <3>2. \/ IsPrefix(calls[c].known, calls[c].source)
          \/ \E d \in Callers : Seeds(d)' /\ IsPrefix(Seed(d)', calls[c].source)
      BY <2>2, <3>1
    <3>3. IsPrefix(calls'[c].known, Truth')
      BY <2>1, <2>2, <2>3 DEF KnownInv
    <3> QED
      BY <1>2, <2>1, <3>2, <3>3 DEF KnownInv
  <2> QED
    BY <1>1, <1>2, <2>1, <2>3, TurnFresh DEF StillKnown
<1> QED
  BY <1>1, <1>2, <1>3, RejectedFresh
-----------------------------------------------------------------------------
(* The looks at the store and at the entry *)

LEMMA LookFresh ==
  ASSUME Inv, Inv', FreshInv, SameLog, NEW c \in Callers, NEW cs \in [Callers -> Call], Others(c, cs),
         cs[c].kind = calls[c].kind, NEW e \in {entry, NoEntry},
         Top(c, cs, e) \/ Look(c, cs, e),
         ~Failed /\ KnownInv(c) =>
           /\ IsPrefix(cs[c].known, Truth)
           /\ calls[c].kind = "inspect" =>
                /\ live = nobody /\ ~Waits(c, e) /\ ~Rejects(c, e) => IsPrefix(cs[c].known, stored)
                /\ IsPrefix(cs[c].known, stored) \/ Owns(retiring) \/ retiring = nobody \/ Look(c, cs, e)
  PROVE  FreshInv'
<1>1. /\ TypeOK /\ UNCHANGED <<stored, tracked, sessions, live, retiring>>
  BY DEF Inv, SameLog
<1>2. /\ Only(c, cs)
      /\ Rejects(c, e) \/ Borrows(c, e) \/ Loads(c, e) \/ Joins(c, e) \/ (Waits(c, e) /\ Top(c, cs, e))
      /\ (Rejects(c, e) \/ calls'[c].known = cs[c].known)
      /\ (calls'[c].kind = "inspect" => Rejects(c, e) \/ (Waits(c, e) /\ (Look(c, cs, e) => Loads(c, e) \/ Joins(c, e) \/ Borrows(c, e)))
            \/ ((retiring = nobody \/ Look(c, cs, e)) /\ calls'[c].awaits = cs[c].awaits))
  BY <1>1, LookIs, TopIs, Zenon
<1>3. /\ calls' \in [Callers -> Call] /\ \A d \in Callers : d # c => calls'[d] = cs[d]
      /\ calls'[c].kind = calls[c].kind /\ calls'[c].known \in {cs[c].known, <<>>}
  BY <1>2 DEF Only
<1>4. \A d \in Callers : d # c => Unmoved(d)
  <2>1. ASSUME NEW d \in Callers, d # c PROVE Unmoved(d)
    BY <1>1, <1>3, <2>1, Others2 DEF Unmoved
  <2> QED
    BY <2>1
<1>5. KeepsCreated
  <2>1. chain' = chain \/ (Enqueued("read", nobody, FreshNo) /\ FreshNo \in Nat)
    BY <1>2 DEF Rejects, Borrows, Loads, Joins, Waits
  <2> QED
    BY <1>1, <2>1, ChainCreated, EnqueuedCreated
<1>6. Truth' = Truth
  BY <1>1 DEF Truth
<1>7. ASSUME ~Failed, KnownInv(c) PROVE KnownInv(c)'
  <2>1. IsPrefix(calls'[c].known, Truth)
    <3>1. IsPrefix(cs[c].known, Truth) /\ Truth \in Seq(Event)
      BY <1>1, <1>7, LogTypes
    <3>2. IsPrefix(<<>>, Truth)
      BY <3>1, PrefixOrder
    <3> QED
      BY <1>3, <3>1, <3>2
  <2>2. CASE Rejects(c, e)
    BY <1>6, <2>1, <2>2 DEF KnownInv, Rejects, Answers
  <2>3. CASE Borrows(c, e)
    <3>1. live # nobody /\ calls'[c].source = sessions[live].events /\ calls'[c].at \in {"done", "flushing"}
      BY <2>3 DEF Borrows
    <3> QED
      BY <1>1, <1>5, <1>7, <2>1, <3>1, KnownBorrows
  <2>4. CASE ~Rejects(c, e) /\ calls[c].kind = "inspect" /\ (Loads(c, e) \/ Joins(c, e))
    <3>1. live = nobody /\ calls'[c].at \in {"reading", "read"} /\ calls'[c].known = cs[c].known
          /\ ~Waits(c, e)
      BY <1>2, <2>4 DEF Loads, Joins, Waits
    <3>2. IsPrefix(calls'[c].known, stored')
      BY <1>1, <1>7, <2>4, <3>1
    <3> QED
      BY <1>6, <2>1, <3>1, <3>2 DEF KnownInv, Answers
  <2>5. CASE ~Rejects(c, e) /\ calls[c].kind = "inspect" /\ Waits(c, e) /\ Top(c, cs, e)
    <3>1. calls'[c].at = "waiting" /\ calls'[c].awaits = retiring /\ calls'[c].known = cs[c].known /\ ~(Loads(c, e) \/ Joins(c, e) \/ Borrows(c, e))
      BY <1>2, <2>5 DEF Waits, Loads, Joins, Borrows
    <3>2. IsPrefix(cs[c].known, stored) \/ (retiring # nobody /\ Owns(retiring))
      <4>1. ~Look(c, cs, e)
        BY <1>1, <2>5, <3>1, LookIs
      <4>2. retiring # nobody
        BY <1>3, <2>5 DEF Waits
      <4> QED
        BY <1>7, <2>5, <4>1, <4>2
    <3>3. IsPrefix(calls'[c].known, stored') \/ Follows(c)'
      BY <1>1, <3>1, <3>2 DEF Follows, Owns
    <3> QED
      BY <1>6, <2>1, <3>1, <3>3 DEF KnownInv, Answers
  <2>6. CASE calls[c].kind # "inspect" /\ (Loads(c, e) \/ Joins(c, e) \/ Waits(c, e))
    <3>1. calls'[c].at \in {"reading", "read", "waiting"}
      BY <2>6 DEF Loads, Joins, Waits
    <3> QED
      BY <1>3, <1>6, <2>1, <2>6, <3>1 DEF KnownInv, Answers
  <2> QED
    BY <1>2, <2>2, <2>3, <2>4, <2>5, <2>6
<1> QED
  BY <1>3, <1>4, <1>5, <1>7, TurnFresh DEF StillKnown

LEMMA RestartsFresh ==
  ASSUME Inv, Inv', FreshInv, NEW c \in Callers, ReserveRestarts(c) \/ ConfiguredResumes(c)
  PROVE  FreshInv'
<1>1. /\ TypeOK /\ SameLog /\ calls \in [Callers -> Call] /\ Top(c, calls, entry)
      /\ calls[c].kind # "inspect" \/ calls[c].at = "draining"
  BY DEF ReserveRestarts, ConfiguredResumes, Reserves, At, SameLog, Inv, TypeOK
<1>2. calls[c].kind # "inspect" /\ Others(c, calls)
  BY <1>1, PlaceSays, PlacesAre DEF CallKinds, Others
<1>3. KnownInv(c) => IsPrefix(calls[c].known, Truth)
  BY DEF KnownInv
<1> QED
  BY <1>1, <1>2, <1>3, LookFresh

LEMMA LooksFresh ==
  ASSUME Inv, Inv', FreshInv, NEW c \in Callers, Looks(c)
  PROVE  FreshInv'
<1>1. /\ TypeOK /\ SameLog /\ calls \in [Callers -> Call] /\ Look(c, calls, entry)
      /\ calls[c].at = "waiting" /\ RetirementOver(calls[c].awaits) /\ Others(c, calls)
  BY DEF Looks, At, SameLog, Inv, TypeOK, Others
<1>2. ASSUME KnownInv(c), calls[c].kind = "inspect"
      PROVE  IsPrefix(calls[c].known, stored)
  <2>1. ~Follows(c)
    <3>1. SUFFICES ASSUME Follows(c) PROVE FALSE
      OBVIOUS
    <3>2. calls[c].awaits \in Callers /\ calls[c].awaits # nobody /\ Owns(calls[c].awaits)
      BY <1>1, <3>1, LogTypes DEF Follows
    <3>3. sessions[calls[c].awaits].stage = "retired"
      BY <1>1, <3>2 DEF RetirementOver
    <3> QED
      BY <3>2, <3>3 DEF Inv, IInv, OwnerInv, Owns
  <2> QED
    BY <1>1, <1>2, <2>1 DEF KnownInv
<1>3. KnownInv(c) => IsPrefix(calls[c].known, Truth)
  BY DEF KnownInv
<1> QED
  BY <1>1, <1>2, <1>3, LookFresh

LEMMA WaitRejectedFresh ==
  ASSUME Inv, Inv', FreshInv, NEW c \in Callers, WaitRejected(c)
  PROVE  FreshInv'
<1>1. /\ TypeOK /\ SameLog /\ calls \in [Callers -> Call] /\ chain' = chain /\ calls' = Rejected(c, calls)
  BY DEF WaitRejected, SameLog, identity, Inv, TypeOK
<1> QED
  BY <1>1, ChainCreated, RejectedFresh

\* A call that begins finds the log, with the tail of the one Session that owns it.
LEMMA BeginsFresh ==
  ASSUME Inv, Inv', FreshInv, NEW c \in Callers, Begins(c)
  PROVE  FreshInv'
<1> DEFINE t == [calls EXCEPT ![c].known = Current]
<1>1. /\ TypeOK /\ SameLog /\ calls \in [Callers -> Call]
      /\ (calls[c].kind = "resume" /\ Top(c, calls, entry)) \/ Top(c, t, entry)
      /\ Others(c, calls)
  BY DEF Begins, Idle, SameLog, Inv, TypeOK, Others
<1>2. Current \in Seq(Event) /\ Awaited \in Callers \cup {nobody} /\ nobody \notin Callers
      /\ stored \in Seq(Event) /\ live \in Callers \cup {nobody} /\ retiring \in Callers \cup {nobody}
  BY <1>1, CurrentIs, PreparationsAssumption DEF TypeOK
<1>3. IsPrefix(Current, Truth)
  <2>1. CASE Awaited # nobody /\ Owns(Awaited)
    <3>1. Current = Truth
      BY <1>2, <2>1, OwnerTruth DEF Current
    <3> QED
      BY <1>2, <3>1, PrefixOrder
  <2>2. CASE ~(Awaited # nobody /\ Owns(Awaited))
    BY <2>2, OwnerTruth DEF Current
  <2> QED
    BY <2>1, <2>2
<1>4. live = nobody /\ retiring = nobody => IsPrefix(Current, stored)
  BY <1>2, PrefixOrder DEF Current, Awaited
<1>5. IsPrefix(Current, stored) \/ (retiring # nobody /\ Owns(retiring)) \/ retiring = nobody
  BY <1>2, PrefixOrder DEF Current, Awaited
<1>6. CASE calls[c].kind = "resume" /\ Top(c, calls, entry)
  <2>1. KnownInv(c) => IsPrefix(calls[c].known, Truth)
    BY DEF KnownInv
  <2> QED
    BY <1>1, <1>6, <2>1, LookFresh
<1>7. CASE Top(c, t, entry)
  <2>1. /\ t \in [Callers -> Call] /\ \A d \in Callers : d # c => t[d] = calls[d]
        /\ t[c].kind = calls[c].kind /\ t[c].known = Current /\ t[c].at = calls[c].at
    BY <1>1, <1>2, KnownSet
  <2> HIDE DEF t
  <2>2. Others(c, t)
    BY <2>1 DEF Others
  <2>3. calls[c].kind = "inspect" /\ live = nobody /\ ~Waits(c, entry) /\ ~Rejects(c, entry) =>
          IsPrefix(t[c].known, stored)
    <3>1. calls'[c].kind = calls[c].kind
      BY <1>1, <1>7, <2>1, TopIs, Zenon DEF Only
    <3>2. calls'[c].kind = "inspect" => Rejects(c, entry) \/ Waits(c, entry) \/ retiring = nobody
      BY <1>1, <1>7, <2>1, TopIs, Zenon
    <3> QED
      BY <1>4, <2>1, <3>1, <3>2
  <2>4. IsPrefix(t[c].known, stored) \/ Owns(retiring) \/ retiring = nobody \/ Look(c, t, entry)
    BY <1>5, <2>1
  <2>5. IsPrefix(t[c].known, Truth)
    BY <1>3, <2>1
  <2> QED
    BY <1>1, <1>7, <2>1, <2>2, <2>3, <2>4, <2>5, LookFresh
<1> QED
  BY <1>1, <1>6, <1>7
-----------------------------------------------------------------------------
(* Inspections, the shared read, and aborts *)

LEMMA BorrowFresh ==
  ASSUME Inv, Inv', FreshInv, SameLog, KeepsCreated, NEW c \in Callers, live # nobody,
         \A d \in Callers : d # c => Unmoved(d),
         calls'[c].at = "done", calls'[c].known = calls[c].known, calls'[c].source = sessions[live].events,
         calls'[c].kind = calls[c].kind
  PROVE  FreshInv'
<1>1. ASSUME ~Failed, KnownInv(c) PROVE KnownInv(c)'
  <2>1. UNCHANGED <<stored, tracked, sessions>> /\ IsPrefix(calls'[c].known, Truth)
    BY <1>1 DEF SameLog, KnownInv
  <2> QED
    BY <1>1, <2>1, KnownBorrows
<1> QED
  BY <1>1, TurnFresh DEF StillKnown

LEMMA InspectChecksFresh ==
  ASSUME Inv, Inv', FreshInv, NEW c \in Callers, InspectChecks(c)
  PROVE  FreshInv'
<1>1. /\ TypeOK /\ SameLog /\ calls \in [Callers -> Call] /\ calls[c].at = "read" /\ calls[c].kind = "inspect"
      /\ \/ live # nobody /\ calls' = Returned(c, sessions[live].events, FALSE) /\ chain' = chain
         \/ calls' = Rejected(c, calls) /\ chain' = chain
         \/ calls' = Goes(c, "checking") /\ Enqueued("check", c, 0)
  BY DEF InspectChecks, At, SameLog, Inv, TypeOK, identity
<1>2. KeepsCreated
  BY <1>1, ChainCreated, EnqueuedCreated
<1>3. CASE live # nobody /\ calls' = Returned(c, sessions[live].events, FALSE)
  <2>1. sessions[live].events \in Seq(Event)
    BY <1>1, <1>3 DEF TypeOK
  <2>2. /\ Turn(c, calls') /\ calls'[c].at = "done" /\ calls'[c].source = sessions[live].events
        /\ calls'[c].known = calls[c].known /\ calls'[c].kind = calls[c].kind
    BY <1>1, <1>3, <2>1, ReturnedTo
  <2> QED
    BY <1>1, <1>2, <1>3, <2>2, TurnUnmoves, BorrowFresh
<1>4. CASE calls' = Rejected(c, calls)
  BY <1>1, <1>2, <1>4, RejectedFresh
<1>5. CASE calls' = Goes(c, "checking")
  <2>1. /\ Turn(c, calls') /\ calls'[c].at = "checking" /\ calls'[c].source = calls[c].source
        /\ calls'[c].known = calls[c].known /\ calls'[c].kind = calls[c].kind
    BY <1>1, <1>5, GoesTo
  <2>2. Truth' = Truth /\ stored' = stored
    BY <1>1 DEF Truth, SameLog
  <2>3. ASSUME KnownInv(c) PROVE KnownInv(c)'
    <3>1. IsPrefix(calls[c].known, Truth) /\ IsPrefix(calls[c].known, stored)
      BY <1>1, <2>3 DEF KnownInv
    <3> QED
      BY <2>1, <2>2, <3>1 DEF KnownInv, Answers
  <2> QED
    BY <1>1, <1>2, <2>1, <2>3, TurnUnmoves, TurnFresh DEF StillKnown
<1> QED
  BY <1>1, <1>3, <1>4, <1>5

LEMMA CheckFresh ==
  ASSUME Inv, Inv', FreshInv, NEW c \in Callers, Check(c)
  PROVE  FreshInv'
<1>1. /\ TypeOK /\ SameLog /\ calls \in [Callers -> Call] /\ First("check", c) /\ KeepsCreated
      /\ calls' = Goes(c, IF calls[c].source = stored THEN "fresh" ELSE "stale") \/ calls' = Caught(c, calls)
  BY FirstCreated DEF Check, SameLog, Inv, TypeOK, identity
<1>2. calls[c].at = "checking" /\ calls[c].kind = "inspect"
  <2>1. chain[1].op = "check" /\ chain[1].by = c /\ 1 \in DOMAIN chain
    BY <1>1, FirstIs DEF TypeOK
  <2>2. calls[c].at = "checking"
    BY <2>1 DEF Inv, IInv, ChainInv, OpInv, At
  <2> QED
    BY <2>2, PlaceSays, PlacesAre DEF CallKinds
<1>3. CASE calls' = Caught(c, calls)
  <2> DEFINE t == Caught(c, calls)
  <2>1. /\ t \in [Callers -> Call] /\ \A d \in Callers : d # c => t[d] = calls[d]
        /\ t[c].kind = calls[c].kind
        /\ \/ /\ t[c].at \in {"listing", "failed"} /\ (t[c].at = "listing" => t[c].kind = "configured")
              /\ t[c].known = <<>> /\ t[c].awaits = nobody
           \/ /\ live # nobody /\ t[c].kind = "inspect" /\ t[c].at = "done"
              /\ t[c].source = sessions[live].events
              /\ t[c].known = calls[c].known /\ t[c].awaits = calls[c].awaits
    BY <1>1, CaughtIs
  <2>2. calls' = t
    BY <1>3
  <2> HIDE DEF t
  <2>3. \A d \in Callers : d # c => Unmoved(d)
    BY <2>1, <2>2 DEF Unmoved
  <2>4. CASE live # nobody /\ t[c].at = "done" /\ t[c].source = sessions[live].events /\ t[c].known = calls[c].known
    BY <1>1, <2>1, <2>2, <2>3, <2>4, BorrowFresh
  <2>5. CASE t[c].at = "failed" /\ t[c].known = <<>>
    BY <1>1, <2>1, <2>2, <2>3, <2>5, FreeTurn
  <2> QED
    BY <1>2, <2>1, <2>4, <2>5
<1>4. CASE calls' = Goes(c, IF calls[c].source = stored THEN "fresh" ELSE "stale")
  <2> DEFINE place == IF calls[c].source = stored THEN "fresh" ELSE "stale"
  <2>1. place \in {"fresh", "stale"} /\ (place = "fresh" <=> calls[c].source = stored) /\ calls' = Goes(c, place)
    BY <1>4
  <2> HIDE DEF place
  <2>2. /\ Turn(c, calls') /\ calls'[c].at = place /\ calls'[c].source = calls[c].source
        /\ calls'[c].known = calls[c].known /\ calls'[c].kind = calls[c].kind
    BY <1>1, <1>2, <2>1, GoesTo
  <2>3. Truth' = Truth /\ stored' = stored
    BY <1>1 DEF Truth, SameLog
  <2>4. ASSUME KnownInv(c) PROVE KnownInv(c)'
    <3>1. IsPrefix(calls[c].known, Truth) /\ IsPrefix(calls[c].known, stored)
      BY <1>2, <2>4 DEF KnownInv
    <3>2. calls'[c].at = "fresh" => IsPrefix(calls'[c].known, calls'[c].source)
      BY <2>1, <2>2, <3>1
    <3> QED
      BY <2>1, <2>2, <2>3, <3>1, <3>2 DEF KnownInv, Answers
  <2> QED
    BY <1>1, <2>2, <2>4, TurnUnmoves, TurnFresh DEF StillKnown
<1> QED
  BY <1>1, <1>3, <1>4

LEMMA InspectEndsFresh ==
  ASSUME Inv, Inv', FreshInv, NEW c \in Callers, InspectEnds(c)
  PROVE  FreshInv'
<1>1. /\ TypeOK /\ SameLog /\ calls \in [Callers -> Call] /\ calls[c].at \in {"fresh", "stale"}
      /\ \/ live # nobody /\ calls' = Returned(c, sessions[live].events, FALSE) /\ chain' = chain
         \/ calls[c].at = "fresh" /\ calls' = Returned(c, Balanced(calls[c].source), FALSE) /\ chain' = chain
         \/ calls' = Returned(c, Balanced(calls[c].source), TRUE) /\ chain' = chain
         \/ calls[c].at = "stale" /\ (Top(c, calls, entry) \/ Top(c, Woken(calls), NoEntry))
  BY DEF InspectEnds, StillFresh, At, SameLog, Inv, TypeOK
<1>2. /\ calls[c].kind = "inspect" /\ calls[c].source \in Seq(Event) /\ calls[c].known \in Seq(Event)
      /\ Balanced(calls[c].source) \in Seq(Event) /\ IsPrefix(calls[c].source, Balanced(calls[c].source))
  <2>1. calls[c].source \in Seq(Event) /\ calls[c].known \in Seq(Event)
    BY <1>1, LogTypes
  <2> QED
    BY <1>1, <2>1, BalancedIs, PlaceSays, PlacesAre DEF CallKinds
<1>3. CASE live # nobody /\ calls' = Returned(c, sessions[live].events, FALSE) /\ chain' = chain
  <2>1. sessions[live].events \in Seq(Event)
    BY <1>1, <1>3 DEF TypeOK
  <2>2. /\ Turn(c, calls') /\ calls'[c].at = "done" /\ calls'[c].source = sessions[live].events
        /\ calls'[c].known = calls[c].known /\ calls'[c].kind = calls[c].kind
    BY <1>1, <1>3, <2>1, ReturnedTo
  <2> QED
    BY <1>1, <1>3, <2>2, ChainCreated, TurnUnmoves, BorrowFresh
<1>4. CASE calls[c].at = "fresh" /\ calls' = Returned(c, Balanced(calls[c].source), FALSE) /\ chain' = chain
  <2>1. KnownInv(c) => IsPrefix(calls[c].known, Balanced(calls[c].source))
    <3>1. KnownInv(c) => IsPrefix(calls[c].known, calls[c].source)
      BY <1>4 DEF KnownInv
    <3> QED
      BY <1>2, <3>1, PrefixOrder
  <2> QED
    BY <1>1, <1>2, <1>4, <2>1, ChainCreated, AnswerFresh
<1>5. CASE calls' = Returned(c, Balanced(calls[c].source), TRUE) /\ chain' = chain
  BY <1>1, <1>2, <1>5, ChainCreated, AnswerFresh
<1>6. CASE calls[c].at = "stale" /\ (Top(c, calls, entry) \/ Top(c, Woken(calls), NoEntry))
  <2>1. KnownInv(c) => IsPrefix(calls[c].known, Truth) /\ IsPrefix(calls[c].known, stored)
    BY <1>2, <1>6 DEF KnownInv
  <2>2. Others(c, calls)
    BY DEF Others
  <2>3. Woken(calls) \in [Callers -> Call] /\ Others(c, Woken(calls)) /\ Woken(calls)[c] = calls[c]
    BY <1>1, WakesOthers
  <2>4. CASE Top(c, calls, entry)
    BY <1>1, <2>1, <2>2, <2>4, LookFresh
  <2>5. CASE Top(c, Woken(calls), NoEntry)
    BY <1>1, <2>1, <2>3, <2>5, LookFresh
  <2> QED
    BY <1>6, <2>4, <2>5
<1> QED
  BY <1>1, <1>3, <1>4, <1>5, <1>6

LEMMA ReadFresh ==
  ASSUME Inv, Inv', FreshInv, Read
  PROVE  FreshInv'
<1> DEFINE n == chain[1].n
<1>1. TypeOK /\ ChainInv /\ EntryInv /\ PendingInv
  BY DEF Inv, IInv
<1>2. /\ SameLog /\ Without(1) /\ 1 \in DOMAIN chain /\ chain[1].op = "read"
      /\ calls' \in [Callers -> Call]
      /\ \A d \in Callers : d \notin Readers(n) =>
           \/ calls'[d] = calls[d]
           \/ calls[d].at = "queued" /\ calls'[d] = [calls[d] EXCEPT !.at = "read"]
      /\ \A d \in Readers(n) :
           calls'[d].kind = calls[d].kind /\ calls'[d].borrowed = calls[d].borrowed
             /\ (ReadBack(d) \/ ReadLost(d))
  BY <1>1, ReadIs, Zenon
<1> HIDE DEF n
<1>3. KeepsCreated
  <2>1. chain[1].op # "created"
    BY <1>2
  <2> QED
    BY <1>1, <1>2, <2>1, CreatedKept
<1>4. Grows
  BY <1>1, <1>2, <1>3, SameGrows DEF SameLog
<1>5. UNCHANGED <<stored, tracked, sessions>> /\ Truth' = Truth /\ KeepsFailed
  BY <1>2 DEF SameLog, Truth, KeepsFailed
<1>6. ASSUME NEW d \in Callers, d \notin Readers(n) PROVE Unmoved(d)
  <2>1. calls[d] \in Call
    BY <1>1 DEF TypeOK
  <2> QED
    BY <1>2, <1>6, <2>1 DEF Unmoved, Call
<1>7. ASSUME NEW d \in Callers, ~Failed, KnownInv(d), d \in Readers(n) PROVE KnownInv(d)'
  <2>1. calls[d].at = "reading" /\ calls'[d].kind = calls[d].kind /\ IsPrefix(calls[d].known, Truth)
    BY <1>2, <1>7 DEF Readers, At, KnownInv
  <2>2. CASE ReadBack(d)
    <3>1. calls'[d].at = "read" /\ stored' = stored /\ calls'[d].known = calls[d].known
      BY <1>5, <2>2 DEF ReadBack
    <3>2. calls[d].kind = "inspect" => IsPrefix(calls[d].known, stored)
      BY <1>7, <2>1 DEF KnownInv
    <3> QED
      BY <1>5, <2>1, <3>1, <3>2 DEF KnownInv, Answers
  <2>3. CASE calls'[d].at \in {"listing", "failed"} /\ calls'[d].known = <<>>
               /\ (calls'[d].at = "listing" => calls[d].kind = "configured")
    <3>1. IsPrefix(<<>>, Truth)
      BY <1>1, LogTypes, PrefixOrder
    <3> QED
      BY <1>5, <2>1, <2>3, <3>1 DEF KnownInv, Answers
  <2>4. CASE /\ live # nobody /\ calls'[d].at = "done" /\ calls'[d].source = sessions[live].events
             /\ calls'[d].known = calls[d].known
    BY <1>3, <1>5, <1>7, <2>1, <2>4, KnownBorrows
  <2> QED
    BY <1>2, <1>7, <2>2, <2>3, <2>4 DEF ReadLost
<1>8. ASSUME NEW d \in Callers, d \in Readers(n) PROVE StillKnown(d)
  BY <1>2, <1>7, <1>8 DEF StillKnown
<1> QED
  BY <1>4, <1>5, <1>6, <1>8, FreshStep

LEMMA EvictedFresh ==
  ASSUME Inv, Inv', FreshInv, Evicted
  PROVE  FreshInv'
<1>1. /\ TypeOK /\ UNCHANGED <<stored, tracked, sessions>> /\ chain' = chain /\ calls' = calls
  BY DEF Evicted, Inv
<1>2. Grows /\ KeepsFailed
  BY <1>1, ChainCreated, SameGrows DEF KeepsFailed
<1>3. \A d \in Callers : Unmoved(d)
  BY <1>1 DEF Unmoved
<1> QED
  BY <1>2, <1>3, FreshStep

LEMMA AbortFresh ==
  ASSUME Inv, Inv', FreshInv, NEW c \in Callers, Abort(c)
  PROVE  FreshInv'
<1> DEFINE cs == [calls EXCEPT ![c].aborted = TRUE]
<1>1. /\ TypeOK /\ SameLog /\ calls \in [Callers -> Call] /\ chain \in Seq(Op)
      /\ calls' = cs \/ calls' = Rejected(c, cs) \/ calls' = Woken(Rejected(c, cs))
      /\ IF Dropped(c) = {} THEN chain' = chain ELSE \E i \in Dropped(c) : chain' = RemoveAt(chain, i)
  BY DEF Abort, RemovedFor, Removed, SameLog, Inv, TypeOK
<1>2. /\ cs \in [Callers -> Call] /\ \A d \in Callers : d # c => cs[d] = calls[d]
      /\ cs[c].kind = calls[c].kind /\ cs[c].known = calls[c].known /\ cs[c].source = calls[c].source
      /\ cs[c].awaits = calls[c].awaits /\ cs[c].borrowed = calls[c].borrowed /\ cs[c].at = calls[c].at
  BY <1>1 DEF Call
<1>3. KeepsCreated
  <2>1. CASE chain' = chain
    BY <1>1, <2>1, ChainCreated
  <2>2. ASSUME NEW i \in Dropped(c), chain' = RemoveAt(chain, i) PROVE KeepsCreated
    <3>1. i \in DOMAIN chain /\ i \in Nat /\ chain[i].op \in {"commit", "check"}
      BY <1>1 DEF Dropped
    <3>2. Without(i)
      BY <1>1, <2>2, <3>1, WithoutAt
    <3> QED
      BY <1>1, <3>1, <3>2, CreatedKept
  <2> QED
    BY <1>1, <2>1, <2>2
<1> HIDE DEF cs
<1>4. CASE calls' = cs
  <2>1. \A d \in Callers : Unmoved(d)
    BY <1>2, <1>4 DEF Unmoved
  <2> QED
    BY <1>1, <1>3, <2>1, TurnFresh
<1> QED
  BY <1>1, <1>2, <1>3, <1>4, RejectedFresh
-----------------------------------------------------------------------------
(* The steps that write the log, or move a Session *)

LEMMA UnownedLogGrows ==
  ASSUME Inv, Inv', tracked.owner = nobody, tracked'.owner = nobody, IsPrefix(stored, stored'),
         sessions' = sessions, KeepsCreated
  PROVE  Grows
<1>1. Truth = stored /\ Truth' = stored'
  BY DEF Truth
<1>2. \A d \in Callers : ~Owns(d) /\ Seed(d)' = Seed(d) /\ (Seeds(d) => Seeds(d)')
  BY PreparationsAssumption DEF Owns, Seed, Seeds, KeepsCreated
<1> QED
  BY <1>1, <1>2 DEF Grows

LEMMA CommitFresh ==
  ASSUME Inv, Inv', FreshInv, NEW c \in Callers, Commit(c) \/ CommitRestarts(c)
  PROVE  FreshInv'
<1>1. /\ TypeOK /\ First("commit", c) /\ tracked.owner = nobody /\ sessions' = sessions
      /\ calls \in [Callers -> Call] /\ stored \in Seq(Event)
  BY DEF Commit, CommitRestarts, Inv, TypeOK
<1>2. calls[c].kind \in {"resume", "configured", "load"}
  BY <1>1, CommitHolds
<1>3. KeepsCreated /\ KeepsFailed
  BY <1>1, FirstCreated DEF KeepsFailed
<1>4. tracked'.owner = nobody
  BY <1>1 DEF Commit, CommitRestarts, Tracks
<1>5. IsPrefix(stored, stored')
  BY <1>1, BalancedIs, PrefixOrder DEF Commit, CommitRestarts
<1>6. Grows
  BY <1>1, <1>3, <1>4, <1>5, UnownedLogGrows
<1>7. /\ \A d \in Callers : d # c => Unmoved(d)
      /\ calls'[c].kind = calls[c].kind /\ calls'[c].known = calls[c].known
      /\ calls'[c].at \in {"committed", "waiting"}
  <2>1. CASE Commit(c)
    <3>1. calls' = Goes(c, "committed")
      BY <2>1 DEF Commit
    <3> QED
      BY <1>1, <3>1, GoesTo, TurnUnmoves
  <2>2. CASE CommitRestarts(c)
    <3> DEFINE t == [calls EXCEPT ![c].at = "waiting", ![c].entry = 0, ![c].source = <<>>, ![c].awaits = retiring]
    <3>1. /\ t \in [Callers -> Call] /\ \A d \in Callers : d # c => t[d] = calls[d]
          /\ t[c].at = "waiting" /\ t[c].kind = calls[c].kind /\ t[c].known = calls[c].known
      BY <1>1, AgainIs
    <3>2. calls' = t \/ calls' = Woken(t)
      BY <2>2 DEF CommitRestarts, RemovedFor, Removed
    <3> HIDE DEF t
    <3>3. calls'[c] = t[c] /\ \A d \in Callers : d # c => Unmoved(d)
      BY <1>1, <3>1, <3>2, TurnOf
    <3> QED
      BY <3>1, <3>3
  <2> QED
    BY <2>1, <2>2
<1>8. ASSUME KnownInv(c) PROVE KnownInv(c)'
  BY <1>2, <1>6, <1>7, <1>8, KnownFree DEF Answers
<1>9. \A d \in Callers : Unmoved(d) \/ StillKnown(d)
  BY <1>7, <1>8 DEF StillKnown
<1> QED
  BY <1>3, <1>6, <1>9, FreshStep

LEMMA OtherWritesFresh ==
  ASSUME Inv, Inv', FreshInv, OtherWrites
  PROVE  FreshInv'
<1>1. /\ TypeOK /\ stored \in Seq(Event) /\ tracked.owner = nobody /\ tracked' = tracked
      /\ chain' = chain /\ sessions' = sessions /\ calls' = calls
  BY DEF OtherWrites, Inv, TypeOK
<1>2. IsPrefix(stored, stored')
  <2>1. PICK kind \in {"start", "end"} : stored' = Append(stored, [by |-> "other", kind |-> kind])
    BY DEF OtherWrites
  <2>2. [by |-> "other", kind |-> kind] \in Event
    BY DEF Event
  <2> QED
    BY <1>1, <2>1, <2>2, PrefixOrder
<1>3. Grows /\ KeepsFailed
  BY <1>1, <1>2, ChainCreated, UnownedLogGrows DEF KeepsFailed
<1>4. \A d \in Callers : Unmoved(d)
  BY <1>1 DEF Unmoved
<1> QED
  BY <1>3, <1>4, FreshStep

\* Events behind those of a Session keep what it was published with.
LEMMA AppendGrows ==
  ASSUME Inv, Inv', NEW c \in Callers, NEW e \in Event, sessions' = [sessions EXCEPT ![c].events = Append(@, e)],
         UNCHANGED <<stored, tracked, chain>>
  PROVE  Grows /\ KeepsFailed
<1>1. /\ TypeOK /\ SessionInv /\ sessions \in [Callers -> SessionRec] /\ stored \in Seq(Event)
      /\ tracked.owner \in Callers \cup {nobody} /\ nobody \notin Callers
  BY PreparationsAssumption DEF Inv, IInv, TypeOK, SessionRec
<1>2. \A d \in Callers :
        /\ sessions'[d].events = IF d = c THEN Append(sessions[c].events, e) ELSE sessions[d].events
        /\ sessions'[d].seeded = sessions[d].seeded
        /\ sessions'[d].stage = sessions[d].stage /\ sessions'[d].init = sessions[d].init
  <2> DEFINE r == [sessions[c] EXCEPT !.events = Append(sessions[c].events, e)]
             g == [sessions EXCEPT ![c] = r]
  <2>1. sessions' = g
    OBVIOUS
  <2>2. sessions[c] \in SessionRec /\ Append(sessions[c].events, e) \in Seq(Event)
    <3>1. sessions[c].events \in Seq(Event)
      BY <1>1 DEF SessionRec
    <3> QED
      BY <1>1, <3>1, AppendProperties
  <2>3. /\ r \in SessionRec /\ r.events = Append(sessions[c].events, e) /\ r.seeded = sessions[c].seeded
        /\ r.stage = sessions[c].stage /\ r.init = sessions[c].init
    BY <2>2 DEF SessionRec
  <2> HIDE DEF r
  <2>4. g[c] = r /\ \A d \in Callers : d # c => g[d] = sessions[d]
    BY <1>1, <2>3, UpdateIs
  <2> HIDE DEF g
  <2>5. sessions'[c] = r /\ \A d \in Callers : d # c => sessions'[d] = sessions[d]
    BY <2>1, <2>4, Zenon
  <2> QED
    BY <2>3, <2>5
<1>3. /\ sessions[c].events \in Seq(Event) /\ sessions[c].seeded \in Nat /\ sessions[c].seeded <= Len(sessions[c].events)
  BY <1>1 DEF SessionRec, SessionInv
<1>4. IsPrefix(sessions[c].events, Append(sessions[c].events, e))
  BY <1>3, PrefixOrder
<1>5. Seed(c)' = Seed(c)
  <2>1. SubSeq(Append(sessions[c].events, e), 1, sessions[c].seeded) = SubSeq(sessions[c].events, 1, sessions[c].seeded)
    <3> DEFINE s == sessions[c].events
               t == Append(s, e)
               k == sessions[c].seeded
    <3>1. t \in Seq(Event) /\ Len(t) = Len(s) + 1 /\ Len(s) \in Nat /\ \A i \in 1 .. Len(s) : t[i] = s[i]
      BY <1>3, AppendProperties
    <3>2. k \in Nat /\ k <= Len(s) /\ k <= Len(t) /\ s \in Seq(Event)
      BY <1>3, <3>1
    <3> HIDE DEF t, k, s
    <3>3. SubSeq(s, 1, k) \in Seq(Event) /\ Len(SubSeq(s, 1, k)) = k /\ \A i \in 1 .. k : SubSeq(s, 1, k)[i] = s[i]
      BY <3>1, <3>2, BeginningOf
    <3>4. SubSeq(t, 1, k) \in Seq(Event) /\ Len(SubSeq(t, 1, k)) = k /\ \A i \in 1 .. k : SubSeq(t, 1, k)[i] = t[i]
      BY <3>1, <3>2, BeginningOf
    <3>5. \A i \in 1 .. k : s[i] = t[i]
      BY <3>1, <3>2
    <3>6. SubSeq(t, 1, k) = SubSeq(s, 1, k)
      <4> DEFINE u == SubSeq(t, 1, k)
                 v == SubSeq(s, 1, k)
      <4>1. u \in Seq(Event) /\ v \in Seq(Event) /\ Len(u) = Len(v) /\ \A i \in 1 .. Len(u) : u[i] = v[i]
        BY <3>3, <3>4, <3>5
      <4> HIDE DEF u, v
      <4>2. u = v
        BY <4>1, SeqEqual
      <4> QED
        BY <4>2 DEF u, v
    <3> QED
      BY <3>6 DEF t, k, s
  <2>2. Seed(c)' = SubSeq(Append(sessions[c].events, e), 1, sessions[c].seeded)
    BY <1>2 DEF Seed
  <2> QED
    BY <2>1, <2>2, Zenon DEF Seed
<1>6. \A d \in Callers : Seed(d)' = Seed(d)
  <2>1. ASSUME NEW d \in Callers, d # c PROVE Seed(d)' = Seed(d)
    BY <1>2, <2>1 DEF Seed
  <2> QED
    BY <1>5, <2>1
<1>7. IsPrefix(Truth, Truth')
  <2>1. CASE tracked.owner = c
    BY <1>1, <1>2, <1>4, <2>1 DEF Truth
  <2>2. CASE tracked.owner # c
    <3>1. Truth' = Truth
      BY <1>1, <1>2, <2>2 DEF Truth
    <3>2. Truth \in Seq(Event)
      BY <1>1, LogTypes
    <3> QED
      BY <3>1, <3>2, PrefixOrder
  <2> QED
    BY <2>1, <2>2
<1>8. IsPrefix(stored, stored')
  BY <1>1, PrefixOrder
<1>9. \A d \in Callers : Seeds(d) => Seeds(d)'
  BY <1>2 DEF Seeds, Queued
<1>10. Grows
  BY <1>6, <1>7, <1>8, <1>9 DEF Grows, Owns
<1> QED
  BY <1>2, <1>10 DEF KeepsFailed

LEMMA EventsFresh ==
  ASSUME Inv, Inv', FreshInv, NEW c \in Callers, SetupAppends(c) \/ TurnStarts(c) \/ TurnEnds(c)
  PROVE  FreshInv'
<1>1. /\ TypeOK /\ UNCHANGED <<stored, tracked, chain>> /\ calls' = calls
      /\ \/ \E kind \in {"start", "end", "note"} : sessions' = [sessions EXCEPT ![c].events = Append(@, Own(c, kind))]
         \/ sessions' = sessions
  BY DEF SetupAppends, TurnStarts, TurnEnds, Inv, identity
<1>2. Grows /\ KeepsFailed
  <2>1. ASSUME NEW kind \in {"start", "end", "note"}, sessions' = [sessions EXCEPT ![c].events = Append(@, Own(c, kind))]
        PROVE  Grows /\ KeepsFailed
    <3>1. Own(c, kind) \in Event
      BY OwnIs
    <3> QED
      BY <1>1, <2>1, <3>1, AppendGrows
  <2>2. CASE sessions' = sessions
    BY <1>1, <2>2, ChainCreated, SameGrows DEF KeepsFailed
  <2> QED
    BY <1>1, <2>1, <2>2
<1>3. \A d \in Callers : Unmoved(d)
  BY <1>1 DEF Unmoved
<1> QED
  BY <1>2, <1>3, FreshStep

\* An attached Session moves to another stage.
LEMMA StageGrows ==
  ASSUME TypeOK, UNCHANGED <<stored, tracked>>, KeepsCreated, NEW c \in Callers, NEW s,
         Stays(c, s), sessions[c].stage \notin {"vetoed", "withdrawn"}
  PROVE  Grows /\ KeepsFailed
<1>1. \A d \in Callers :
        /\ sessions'[d].events = sessions[d].events /\ sessions'[d].seeded = sessions[d].seeded
        /\ sessions'[d].init = sessions[d].init
        /\ sessions'[d].stage = IF d = c THEN s ELSE sessions[d].stage
  BY DEF Stays
<1> QED
  BY <1>1, SameGrows DEF KeepsFailed

LEMMA RetiresFresh ==
  ASSUME Inv, Inv', FreshInv, NEW c \in Callers, DrainQueued(c) \/ RetireQueued(c) \/ RetireFails(c) \/ Detaches(c)
  PROVE  FreshInv'
<1>1. TypeOK /\ UNCHANGED <<stored, tracked>>
  BY DEF DrainQueued, RetireQueued, RetireFails, Detaches, identity, Inv
<1>2. CASE DrainQueued(c)
  <2>1. Enqueued("drain", c, Len(sessions[c].events)) /\ sessions' = sessions /\ calls' = calls
    BY <1>2 DEF DrainQueued
  <2>2. Len(sessions[c].events) \in Nat
    BY <1>1 DEF TypeOK
  <2>3. Grows /\ KeepsFailed
    BY <1>1, <2>1, <2>2, EnqueuedCreated, SameGrows DEF KeepsFailed
  <2> QED
    BY <2>1, <2>3, FreshStep DEF Unmoved
<1>3. CASE RetireQueued(c)
  <2>1. /\ Enqueued("retire", c, 0) /\ sessions' = [sessions EXCEPT ![c].stage = "leaving"] /\ calls' = calls
        /\ sessions[c].stage = "retiring"
    BY <1>3 DEF RetireQueued
  <2>2. Stays(c, "leaving") /\ KeepsCreated
    BY <1>1, <2>1, StageIs, EnqueuedCreated DEF Stays
  <2>3. Grows /\ KeepsFailed
    BY <1>1, <2>1, <2>2, StageGrows
  <2> QED
    BY <2>1, <2>3, FreshStep DEF Unmoved
<1>4. CASE RetireFails(c)
  <2>1. /\ chain' = chain /\ sessions' = [sessions EXCEPT ![c].stage = "stranded"] /\ calls' = calls
        /\ sessions[c].stage = "retiring"
    BY <1>4 DEF RetireFails
  <2>2. Stays(c, "stranded") /\ KeepsCreated
    BY <1>1, <2>1, StageIs, ChainCreated DEF Stays
  <2>3. Grows /\ KeepsFailed
    BY <1>1, <2>1, <2>2, StageGrows
  <2> QED
    BY <2>1, <2>3, FreshStep DEF Unmoved
<1>5. CASE Detaches(c)
  <2>1. /\ chain' = chain /\ sessions' = [sessions EXCEPT ![c].stage = "retiring"] /\ calls' = Goes(c, "done")
        /\ calls[c].at = "disposing"
    BY <1>5 DEF Detaches, At
  <2>2. sessions[c].stage = "live" /\ calls[c].kind \notin {"load", "inspect"}
    <3>1. live = c /\ live # nobody
      BY <2>1, PreparationsAssumption DEF Inv, IInv, RegistryInv
    <3>2. sessions[c].stage = "live"
      BY <2>1, <3>1 DEF Inv, IInv, RegistryInv, VetoInv
    <3> QED
      BY <2>1, <3>2, PlaceSays, PlacesAre DEF CallKinds
  <2>3. Grows /\ KeepsFailed
    <3>1. Stays(c, "retiring") /\ KeepsCreated
      BY <1>1, <2>1, StageIs, ChainCreated DEF Stays
    <3> QED
      BY <1>1, <2>2, <3>1, StageGrows
  <2>4. /\ \A d \in Callers : d # c => Unmoved(d)
        /\ calls'[c].kind = calls[c].kind /\ calls'[c].known = calls[c].known /\ calls'[c].at = "done"
    BY <1>1, <2>1, GoesTo, TurnUnmoves
  <2>5. KnownInv(c) => KnownInv(c)'
    BY <2>2, <2>3, <2>4, KnownFree
  <2> QED
    BY <2>3, <2>4, <2>5, FreshStep DEF StillKnown
<1> QED
  BY <1>2, <1>3, <1>4, <1>5

\* The Session that leaves the log has nothing that is not stored.
LEMMA RetireFresh ==
  ASSUME Inv, Inv', FreshInv, NEW c \in Callers, Retire(c)
  PROVE  FreshInv'
<1>1. /\ TypeOK /\ First("retire", c) /\ stored' = stored /\ calls' = calls
      /\ tracked' = (IF Owns(c) THEN Untracked ELSE tracked)
      /\ sessions' = [sessions EXCEPT ![c].stage = "retired"]
      /\ stored \in Seq(Event) /\ sessions[c].events \in Seq(Event) /\ nobody \notin Callers
      /\ tracked.owner \in Callers \cup {nobody}
  BY PreparationsAssumption DEF Retire, Inv, TypeOK
<1>2. /\ sessions[c].stage = "leaving"
      /\ Owns(c) => Len(sessions[c].events) <= tracked.cursor
  <2>1. chain[1].op = "retire" /\ chain[1].by = c /\ 1 \in DOMAIN chain
    BY <1>1, FirstIs DEF TypeOK
  <2> QED
    BY <2>1 DEF Inv, IInv, ChainInv, OpInv
<1>3. \A d \in Callers :
        /\ sessions'[d].events = sessions[d].events /\ sessions'[d].seeded = sessions[d].seeded
        /\ sessions'[d].init = sessions[d].init
        /\ sessions'[d].stage = IF d = c THEN "retired" ELSE sessions[d].stage
  BY <1>1, StageIs
<1>4. KeepsCreated /\ KeepsFailed
  BY <1>1, <1>2, <1>3, FirstCreated DEF KeepsFailed
<1>5. CASE Owns(c)
  <2>1. IsPrefix(stored, sessions[c].events) /\ tracked.cursor = Len(stored) /\ c # nobody
    BY <1>1, <1>5 DEF Inv, IInv, OwnerInv, Owns
  <2>2. sessions[c].events = stored
    <3>1. Len(sessions[c].events) <= Len(stored) /\ Len(stored) <= Len(sessions[c].events)
          /\ \A i \in 1 .. Len(stored) : stored[i] = sessions[c].events[i]
      BY <1>1, <1>2, <1>5, <2>1, PrefixIs
    <3>2. Len(sessions[c].events) = Len(stored)
      BY <1>1, <3>1
    <3> QED
      BY <1>1, <3>1, <3>2, SeqEqual
  <2>3. Truth = stored /\ Truth' = stored'
    BY <1>1, <1>5, <2>2, OwnerTruth DEF Truth, Untracked
  <2>4. IsPrefix(stored, stored') /\ IsPrefix(Truth, Truth') /\ IsPrefix(Truth, stored')
    BY <1>1, <2>3, PrefixOrder
  <2>5. \A d \in Callers : Seed(d)' = Seed(d) /\ (Seeds(d) => Seeds(d)')
    BY <1>2, <1>3, <1>4 DEF Seed, Seeds, KeepsCreated
  <2>6. Grows
    BY <2>4, <2>5 DEF Grows
  <2> QED
    BY <1>1, <1>4, <2>6, FreshStep DEF Unmoved
<1>6. CASE ~Owns(c)
  <2>1. Grows
    BY <1>1, <1>2, <1>3, <1>4, <1>6, SameGrows
  <2> QED
    BY <1>1, <1>4, <2>1, FreshStep DEF Unmoved
<1> QED
  BY <1>5, <1>6

\* The flushes that wait for a batch that failed reject, and know nothing more.
LEMMA DrainFailsFresh ==
  ASSUME Inv, Inv', FreshInv, NEW c \in Callers, DrainFails(c)
  PROVE  FreshInv'
<1>1. /\ TypeOK /\ UNCHANGED <<stored, tracked>> /\ First("drain", c)
      /\ calls' = [d \in Callers |-> IF At(d, "flushing") /\ calls[d].awaits = c
                                     THEN Rejected(d, calls)[d] ELSE calls[d]]
      /\ \/ sessions[c].stage = "retiring" /\ sessions' = [sessions EXCEPT ![c].stage = "stranded"]
         \/ sessions' = sessions
  BY DEF DrainFails, Inv, identity
<1>2. KeepsCreated
  BY <1>1, FirstCreated
<1>3. Grows /\ KeepsFailed
  <2>1. CASE sessions' = sessions
    BY <1>1, <1>2, <2>1, SameGrows DEF KeepsFailed
  <2>2. CASE sessions[c].stage = "retiring" /\ sessions' = [sessions EXCEPT ![c].stage = "stranded"]
    <3>1. Stays(c, "stranded")
      BY <1>1, <2>2, StageIs DEF Stays
    <3> QED
      BY <1>1, <1>2, <2>2, <3>1, StageGrows
  <2> QED
    BY <1>1, <2>1, <2>2
<1>4. ASSUME NEW d \in Callers PROVE Unmoved(d) \/ StillKnown(d)
  <2>1. \/ calls'[d] = calls[d]
        \/ calls'[d].at = "failed" /\ calls'[d].known = <<>> /\ calls'[d].kind = calls[d].kind
    BY <1>1, FlushersRejected
  <2>2. CASE calls'[d] = calls[d]
    BY <2>2 DEF Unmoved
  <2>3. CASE calls'[d].at = "failed" /\ calls'[d].known = <<>> /\ calls'[d].kind = calls[d].kind
    <3>1. ~Answers(d)'
      BY <2>3 DEF Answers
    <3> QED
      BY <1>3, <2>3, <3>1, KnownFree DEF StillKnown
  <2> QED
    BY <2>1, <2>2, <2>3
<1> QED
  BY <1>3, <1>4, FreshStep

\* The owner's next events reach the log, which its tail already had.
LEMMA OwnerStores ==
  ASSUME Inv, Inv', FreshInv, NEW c \in Callers, First("seed", c) \/ First("drain", c),
         NEW n \in Nat, n <= Len(sessions[c].events), AppendsUpTo(c, tracked.cursor, n, tracked.owner),
         \A d \in Callers :
           /\ sessions'[d].events = sessions[d].events /\ sessions'[d].seeded = sessions[d].seeded
           /\ sessions'[d].stage = sessions[d].stage
           /\ sessions[d].init = "failed" => sessions'[d].init = "failed"
  PROVE  FreshInv'
<1>1. TypeOK /\ OwnerInv /\ ChainInv
  BY DEF Inv, IInv
<1>2. Without(1) /\ 1 \in DOMAIN chain /\ chain[1].op \in {"seed", "drain"} /\ chain[1].by = c
  BY <1>1, WithoutFirst DEF TypeOK
<1>3. tracked.owner = c /\ c # nobody /\ Started(c)
  BY <1>1, <1>2, PreparationsAssumption DEF ChainInv, OpInv, Owns
<1>4. tracked.cursor = Len(stored) /\ IsPrefix(stored, sessions[c].events) /\ stored \in Seq(Event)
      /\ sessions[c].events \in Seq(Event)
  BY <1>1, <1>3 DEF OwnerInv, TypeOK
<1>5. AppendsUpTo(c, Len(stored), n, c)
  BY <1>3, <1>4
<1>6. /\ IsPrefix(stored, stored') /\ tracked'.owner = c
      /\ calls' = calls \/ calls' = Woken(calls)
  BY <1>1, <1>4, <1>5, AppendedIs
<1>7. Truth = sessions[c].events /\ Truth' = sessions[c].events
  BY <1>3, <1>6 DEF Truth
<1>8. IsPrefix(Truth, Truth')
  BY <1>4, <1>7, PrefixOrder
<1>9. KeepsCreated
  BY <1>1, FirstCreated
<1>10. \A d \in Callers : /\ Seed(d)' = Seed(d) /\ (Seeds(d) => Seeds(d)')
                         /\ (Owns(d) => tracked'.owner = d)
  BY <1>3, <1>6, <1>9 DEF Seed, Seeds, KeepsCreated, Owns
<1>11. Grows
  BY <1>6, <1>8, <1>10 DEF Grows
<1>12. KeepsFailed
  BY DEF KeepsFailed
<1>13. \A d \in Callers : Unmoved(d)
  BY <1>1, <1>6, WokenAll DEF Unmoved
<1> QED
  BY <1>11, <1>12, <1>13, FreshStep

LEMMA DrainFresh ==
  ASSUME Inv, Inv', FreshInv, NEW c \in Callers, Drain(c)
  PROVE  FreshInv'
<1>1. /\ TypeOK /\ First("drain", c) /\ AppendsUpTo(c, tracked.cursor, Head(chain).n, tracked.owner)
      /\ sessions' = sessions
  BY DEF Drain, Inv
<1>2. 1 \in DOMAIN chain /\ Head(chain) = chain[1] /\ chain[1] \in Op /\ chain[1].op = "drain" /\ chain[1].by = c
  BY <1>1, FirstIs DEF TypeOK
<1>3. chain[1].n \in Nat /\ chain[1].n <= Len(sessions[c].events)
  BY <1>2 DEF Inv, IInv, ChainInv, OpInv, Op
<1> QED
  BY <1>1, <1>2, <1>3, OwnerStores

LEMMA SeedStoredFresh ==
  ASSUME Inv, Inv', FreshInv, NEW c \in Callers, SeedStored(c)
  PROVE  FreshInv'
<1>1. /\ TypeOK /\ First("seed", c) /\ sessions[c].seeded \in Nat
      /\ sessions[c].seeded <= Len(sessions[c].events)
  BY DEF SeedStored, Inv, IInv, SessionInv, TypeOK
<1>2. 1 \in DOMAIN chain /\ chain[1].op = "seed" /\ chain[1].by = c
  BY <1>1, FirstIs DEF TypeOK
<1>3. sessions[c].init = "pending"
  BY <1>2 DEF Inv, IInv, ChainInv, OpInv
<1>4. CASE Initialised(c, "ok") /\ AppendsUpTo(c, tracked.cursor, sessions[c].seeded, tracked.owner)
  <2>1. \A d \in Callers :
          /\ sessions'[d].events = sessions[d].events /\ sessions'[d].seeded = sessions[d].seeded
          /\ sessions'[d].stage = sessions[d].stage
          /\ sessions'[d].init = IF d = c THEN "ok" ELSE sessions[d].init
    BY <1>1, <1>4, InitIs
  <2>2. \A d \in Callers : sessions[d].init = "failed" => sessions'[d].init = "failed"
    BY <1>3, <2>1
  <2> QED
    BY <1>1, <1>4, <2>1, <2>2, OwnerStores
<1>5. CASE Initialised(c, "failed")
  <2>1. sessions'[c].init = "failed"
    BY <1>1, <1>5, InitIs
  <2> QED
    BY <2>1 DEF FreshInv, Failed
<1> QED
  BY <1>4, <1>5 DEF SeedStored

\* A created Session registers a log that is still empty, or fails.
LEMMA CreatedFresh ==
  ASSUME Inv, Inv', FreshInv, NEW c \in Callers, Created(c)
  PROVE  FreshInv'
<1> DEFINE seed == SubSeq(sessions[c].events, 1, sessions[c].seeded)
           from == IF Claims(seed) THEN tracked.cursor ELSE Len(stored)
           accepted == Claims(seed) \/ Registers(seed)
<1>1. /\ TypeOK /\ SessionInv /\ First("created", c)
      /\ (accepted /\ AppendsUpTo(c, from, Len(seed), c) /\ Initialised(c, "ok")) \/ Initialised(c, "failed")
  BY DEF Created, Inv, IInv
<1>2. /\ sessions[c].init = "pending" /\ Len(seed) = sessions[c].seeded /\ ~Claims(seed)
      /\ Registers(seed) => Loose /\ stored = <<>>
  BY <1>1, CreatedFirst
<1>3. sessions[c].seeded \in Nat /\ sessions[c].seeded <= Len(sessions[c].events)
      /\ sessions[c].events \in Seq(Event) /\ stored \in Seq(Event)
  BY <1>1 DEF TypeOK, SessionInv
<1> HIDE DEF seed
<1>4. CASE Initialised(c, "failed")
  <2>1. sessions'[c].init = "failed"
    BY <1>1, <1>4, InitIs
  <2> QED
    BY <2>1 DEF FreshInv, Failed
<1>5. CASE accepted /\ AppendsUpTo(c, from, Len(seed), c) /\ Initialised(c, "ok")
  <2>1. AppendsUpTo(c, Len(stored), sessions[c].seeded, c) /\ stored = <<>> /\ Loose
    BY <1>2, <1>5
  <2>2. \A d \in Callers :
          /\ sessions'[d].events = sessions[d].events /\ sessions'[d].seeded = sessions[d].seeded
          /\ sessions'[d].stage = sessions[d].stage
          /\ sessions'[d].init = IF d = c THEN "ok" ELSE sessions[d].init
    BY <1>1, <1>5, InitIs
  <2>3. KeepsFailed
    BY <1>2, <2>2 DEF KeepsFailed
  <2>4. IsPrefix(stored, sessions[c].events)
    BY <1>3, <2>1, PrefixOrder
  <2>5. /\ IsPrefix(stored, stored') /\ tracked'.owner = c /\ c # nobody
        /\ calls' = calls \/ calls' = Woken(calls)
    BY <1>1, <1>3, <2>1, <2>4, PreparationsAssumption, AppendedIs
  <2>6. ASSUME ~Failed PROVE Truth = <<>>
    <3>1. CASE tracked.owner = nobody
      BY <2>1, <3>1 DEF Truth
    <3>2. CASE tracked.owner # nobody
      <4> DEFINE o == tracked.owner
      <4>1. o \in Callers /\ sessions[o].stage \notin {"none", "vetoed", "withdrawn"} /\ sessions[o].init \in {"none", "pending", "ok", "failed"}
        BY <1>1, <3>2 DEF Inv, IInv, OwnerInv, TypeOK
      <4>2. sessions[o].init \in {"pending", "ok"}
        BY <2>6, <4>1 DEF Inv, IInv, SessionInv, Failed
      <4>3. sessions[o].init # "pending"
        <5>1. ASSUME sessions[o].init = "pending" PROVE FALSE
          <6>1. PICK i \in DOMAIN chain : chain[i].op \in {"seed", "created"} /\ chain[i].by = o
            BY <4>1, <5>1 DEF Inv, IInv, PendingInv, PendingInit, Queued
          <6>2. OpInv(chain[i]) /\ chain[i] \in Op
            BY <6>1 DEF Inv, IInv, ChainInv, TypeOK
          <6>3. chain[i].op # "seed"
            BY <2>1, <6>2, LooseIs
          <6> QED
            BY <6>1, <6>2, <6>3 DEF OpInv, Owns
        <5> QED
          BY <5>1
      <4>4. sessions[o].events = <<>>
        BY <2>1, <4>1, <4>2, <4>3, LooseIs
      <4> QED
        BY <3>2, <4>4 DEF Truth
    <3> QED
      BY <3>1, <3>2
  <2>7. ASSUME ~Failed PROVE Grows
    <3>1. stored' \in Seq(Event) /\ Truth' \in Seq(Event)
      <4>1. TypeOK'
        BY DEF Inv
      <4>2. stored' \in Seq(Event)
        BY <4>1 DEF TypeOK
      <4>3. Truth' = sessions[c].events
        BY <2>2, <2>5 DEF Truth
      <4> QED
        BY <1>3, <4>2, <4>3
    <3>2. IsPrefix(Truth, Truth') /\ IsPrefix(Truth, stored')
      BY <2>6, <2>7, <3>1, PrefixOrder
    <3>3. ASSUME NEW d \in Callers PROVE IsPrefix(Truth, Seed(d))
      BY <2>6, <2>7, SeedIs, PrefixOrder
    <3> QED
      BY <2>5, <3>2, <3>3 DEF Grows
  <2>8. \A d \in Callers : Unmoved(d)
    BY <1>1, <2>5, WokenAll DEF Unmoved
  <2> QED
    BY <2>3, <2>7, <2>8, FreshStep
<1> QED
  BY <1>1, <1>4, <1>5

\* The log passes to a Session that continues it, or keeps its owner.
LEMMA AttachGrows ==
  ASSUME Inv, Inv', NEW c \in Callers, Standing(c), stored' = stored,
         \A d \in Callers : d # c => sessions'[d] = sessions[d],
         sessions'[c].stage = "live",
         sessions[c].stage = "vetoed" =>
           sessions'[c].events = sessions[c].events /\ sessions'[c].seeded = sessions[c].seeded,
         \/ entry.holder = c /\ entry.phase = "reserved" /\ Attaches(c)
         \/ tracked' = tracked /\ Enqueued("created", c, 0)
  PROVE  Grows /\ KeepsFailed /\ KeepsCreated
<1>1. /\ TypeOK /\ OwnerInv' /\ VetoInv /\ stored \in Seq(Event) /\ c # nobody
      /\ tracked.owner \in Callers \cup {nobody}
  BY PreparationsAssumption DEF Inv, IInv, TypeOK
<1>2. /\ sessions[c].stage \in {"none", "vetoed"} /\ sessions[c].init = "none" /\ tracked.owner # c
      /\ ~Queued("created", c)
  <2>1. /\ sessions[c].stage \in {"none", "vetoed"} /\ sessions[c].init = "none" /\ tracked.owner # c
        /\ \A o \in Op : OpInv(o) => o.by # c
    BY StandingIs
  <2>2. \A i \in DOMAIN chain : chain[i] \in Op /\ OpInv(chain[i])
    BY DEF Inv, IInv, ChainInv, TypeOK
  <2> QED
    BY <2>1, <2>2 DEF Queued
<1>3. KeepsFailed
  BY <1>2 DEF KeepsFailed
<1>4. KeepsCreated
  <2>1. chain' = chain \/ Enqueued("seed", c, 0) \/ Enqueued("created", c, 0)
    BY DEF Attaches
  <2> QED
    BY <1>1, <2>1, ChainCreated, EnqueuedCreated
<1>5. ASSUME NEW d \in Callers, d # c, Seeds(d) PROVE Seeds(d)' /\ Seed(d)' = Seed(d)
  BY <1>4, <1>5 DEF Seeds, Seed, KeepsCreated
<1>6. Seeds(c) => sessions[c].stage = "vetoed"
  BY <1>2 DEF Seeds
<1>7. IsPrefix(stored, stored')
  BY <1>1, PrefixOrder
<1>8. CASE entry.holder = c /\ entry.phase = "reserved" /\ Attaches(c)
  <2>1. tracked.owner = nobody /\ IsPrefix(stored, Prepared)
    BY <1>8, PreparedIs
  <2>2. tracked' = [tracked EXCEPT !.owner = c]
    BY <1>8 DEF Attaches
  <2>3. tracked'.owner = c
    BY <1>1, <2>2 DEF TypeOK
  <2>4. Truth = stored /\ Truth' = sessions'[c].events
    BY <1>1, <2>1, <2>3 DEF Truth
  <2>5. IsPrefix(stored', sessions'[c].events)
    BY <1>1, <2>3 DEF OwnerInv
  <2>6. IsPrefix(Truth, Truth')
    BY <2>4, <2>5
  <2>7. \A d \in Callers : ~Owns(d)
    BY <2>1, PreparationsAssumption DEF Owns
  <2>8. ASSUME Seeds(c) PROVE IsPrefix(Truth, Seed(c))
    <3>1. Seed(c) = Prepared
      BY <1>1, <1>6, <1>8, <2>8, SeedIs DEF VetoInv
    <3> QED
      BY <2>1, <2>4, <3>1
  <2> QED
    BY <1>3, <1>4, <1>5, <1>7, <2>6, <2>7, <2>8 DEF Grows
<1>9. CASE tracked' = tracked /\ Enqueued("created", c, 0)
  <2>1. Truth' = Truth
    BY <1>1, <1>2, <1>9 DEF Truth
  <2>2. IsPrefix(Truth, Truth')
    BY <1>1, <2>1, LogTypes, PrefixOrder
  <2>3. ASSUME Seeds(c) PROVE Seeds(c)' /\ Seed(c)' = Seed(c)
    <3>1. Seed(c)' = Seed(c)
      BY <1>6, <2>3 DEF Seed
    <3>2. Queued("created", c)'
      BY <1>1, <1>9, CreatedIsQueued
    <3> QED
      BY <3>1, <3>2 DEF Seeds
  <2>4. \A d \in Callers : Owns(d) => tracked'.owner = d
    BY <1>9 DEF Owns
  <2> QED
    BY <1>3, <1>4, <1>5, <1>7, <2>2, <2>3, <2>4 DEF Grows
<1> QED
  BY <1>8, <1>9

\* The call that publishes answers nobody.
LEMMA AttachFresh ==
  ASSUME Inv, Inv', FreshInv, NEW c \in Callers, Publishable(c), live = nobody, Attachable(c), Attaches(c),
         sessions' = Entered(c, InitBy(c), "live"), stored' = stored,
         NEW cs \in [Callers -> Call], \A d \in Callers : d # c => cs[d] = calls[d],
         cs[c].kind = calls[c].kind, cs[c].known = calls[c].known, cs[c].at \in {"live", "vetoed", "failed"},
         calls' = Woken(cs)
  PROVE  FreshInv'
<1>1. TypeOK /\ EntryInv /\ Standing(c) /\ calls[c].at \in {"setup", "creating"} /\ sessions[c].stage = "none"
  BY PublishableStands DEF Inv, IInv, Publishable, At, Standing
<1>2. calls[c].kind \in {"resume", "create", "configured"}
  BY <1>1, StandingIs
<1>3. /\ \A d \in Callers : d # c => sessions'[d] = sessions[d]
      /\ sessions'[c].stage = "live"
  BY <1>1 DEF Entered, TypeOK
<1>4. \/ entry.holder = c /\ entry.phase = "reserved" /\ Attaches(c)
      \/ tracked' = tracked /\ Enqueued("created", c, 0)
  BY <1>1, PreparationsAssumption DEF Attachable, MayPublish, Attaches, EntryInv, NoEntry
<1>5. Grows /\ KeepsFailed
  BY <1>1, <1>3, <1>4, AttachGrows
<1>6. calls'[c] = cs[c] /\ \A d \in Callers : d # c => Unmoved(d)
  <2>1. cs[c].at # "queued"
    OBVIOUS
  <2> QED
    BY <1>1, <2>1, TurnOf
<1>7. StillKnown(c)
  <2>1. /\ calls'[c].known = calls[c].known /\ calls'[c].kind = calls[c].kind
        /\ calls'[c].kind \notin {"load", "inspect"} /\ calls'[c].at # "fresh"
    BY <1>2, <1>6
  <2> QED
    BY <1>5, <2>1, KnownFree DEF StillKnown
<1> QED
  BY <1>5, <1>6, <1>7, FreshStep

LEMMA PublishesFresh ==
  ASSUME Inv, Inv', FreshInv, NEW c \in Callers, Publishes(c)
  PROVE  FreshInv'
<1> DEFINE r == [calls[c] EXCEPT !.at = "live", !.entry = 0, !.source = <<>>, !.awaits = nobody]
           g == [calls EXCEPT ![c] = r]
<1>1. /\ Publishable(c) /\ live = nobody /\ Attachable(c) /\ Attaches(c) /\ sessions' = Entered(c, InitBy(c), "live")
      /\ stored' = stored /\ calls \in [Callers -> Call] /\ <<>> \in Seq(Event)
  BY EmptySeq DEF Publishes, Inv, TypeOK
<1>2. r \in Call /\ r.kind = calls[c].kind /\ r.known = calls[c].known /\ r.at = "live"
  BY <1>1 DEF Call
<1>3. calls' = Woken(g)
  BY DEF Publishes, Live
<1> HIDE DEF r
<1>4. g \in [Callers -> Call] /\ g[c] = r /\ \A d \in Callers : d # c => g[d] = calls[d]
  BY <1>1, <1>2, UpdateIs
<1> HIDE DEF g
<1> QED
  BY <1>1, <1>2, <1>3, <1>4, AttachFresh

LEMMA PublishVetoedFresh ==
  ASSUME Inv, Inv', FreshInv, NEW c \in Callers, PublishVetoed(c)
  PROVE  FreshInv'
<1> DEFINE cs == Lost(c, "vetoed")
<1>1. /\ TypeOK /\ Publishable(c) /\ live = nobody /\ Attachable(c) /\ Attaches(c)
      /\ sessions' = Entered(c, InitBy(c), "live") /\ stored' = stored /\ calls' = Woken(cs)
  BY DEF PublishVetoed, Inv
<1>2. /\ cs \in [Callers -> Call] /\ \A d \in Callers : d # c => cs[d] = calls[d]
      /\ cs[c].kind = calls[c].kind /\ cs[c].known = calls[c].known
      /\ cs[c].at \in {"live", "vetoed", "failed"}
  <2>1. "vetoed" \in {"vetoed", "rollback"}
    OBVIOUS
  <2> QED
    BY <1>1, <2>1, LostIs
<1> HIDE DEF cs
<1> QED
  BY <1>1, <1>2, AttachFresh

\* The Session is live, and nothing of the log has changed.
LEMMA PublishRefusedFresh ==
  ASSUME Inv, Inv', FreshInv, NEW c \in Callers, PublishRefused(c)
  PROVE  FreshInv'
<1> DEFINE cs == Lost(c, "vetoed")
<1>1. /\ TypeOK /\ Publishable(c) /\ live = nobody /\ UNCHANGED <<stored, tracked, chain>>
      /\ sessions' = Entered(c, "none", "vetoed") /\ calls' = cs
  BY DEF PublishRefused, Inv, identity
<1>2. /\ cs \in [Callers -> Call] /\ \A d \in Callers : d # c => cs[d] = calls[d]
      /\ cs[c].kind = calls[c].kind /\ cs[c].known = calls[c].known
      /\ cs[c].at \in {"vetoed", "failed"}
  <2>1. "vetoed" \in {"vetoed", "rollback"}
    OBVIOUS
  <2> QED
    BY <1>1, <2>1, LostIs
<1> HIDE DEF cs
<1>3. Standing(c) /\ sessions[c].stage = "none"
  <2>1. Standing(c) /\ calls[c].at \in {"setup", "creating"}
    BY <1>1, PublishableStands DEF Publishable, At
  <2> QED
    BY <2>1 DEF Standing
<1>4. /\ calls[c].kind \in {"resume", "create", "configured"} /\ sessions[c].init = "none" /\ tracked.owner # c
      /\ ~Queued("created", c)
  <2>1. /\ calls[c].kind \in {"resume", "create", "configured"} /\ sessions[c].init = "none" /\ tracked.owner # c
        /\ \A o \in Op : OpInv(o) => o.by # c
    BY <1>1, <1>3, StandingIs DEF Publishable, At
  <2>2. \A i \in DOMAIN chain : chain[i] \in Op /\ OpInv(chain[i])
    BY DEF Inv, IInv, ChainInv, TypeOK
  <2> QED
    BY <2>1, <2>2 DEF Queued
<1>5. \A d \in Callers : d # c => sessions'[d] = sessions[d]
  BY <1>1 DEF Entered, TypeOK
<1>6. KeepsFailed
  BY <1>3, <1>4, <1>5 DEF KeepsFailed
<1>7. ASSUME NEW d \in Callers, Seeds(d) PROVE Seeds(d)' /\ Seed(d)' = Seed(d)
  <2>1. d # c
    BY <1>3, <1>4, <1>7 DEF Seeds
  <2> QED
    BY <1>1, <1>5, <1>7, <2>1 DEF Seeds, Seed, Queued
<1>8. Grows
  <2>1. Truth' = Truth
    BY <1>1, <1>4, <1>5 DEF Truth, TypeOK
  <2>2. IsPrefix(stored, stored') /\ IsPrefix(Truth, Truth')
    BY <1>1, <2>1, LogTypes, PrefixOrder
  <2>3. \A d \in Callers : Owns(d) => tracked'.owner = d
    BY <1>1 DEF Owns
  <2> QED
    BY <1>7, <2>2, <2>3 DEF Grows
<1>9. StillKnown(c) /\ \A d \in Callers : d # c => Unmoved(d)
  <2>1. /\ calls'[c].known = calls[c].known /\ calls'[c].kind = calls[c].kind
        /\ calls'[c].kind \notin {"load", "inspect"} /\ calls'[c].at # "fresh"
    BY <1>1, <1>2, <1>4
  <2>2. StillKnown(c)
    BY <1>8, <2>1, KnownFree DEF StillKnown
  <2> QED
    BY <1>1, <1>2, <2>2 DEF Unmoved
<1> QED
  BY <1>6, <1>8, <1>9, FreshStep

\* A Session that leaves the registries: one that was not attached held the log's
\* reservation, or was created over it.
LEMMA VetoOverFresh ==
  ASSUME Inv, Inv', FreshInv, NEW c \in Callers, VetoOver(c)
  PROVE  FreshInv'
<1>1. /\ TypeOK /\ VetoInv /\ HolderInv /\ RegistryInv /\ UNCHANGED <<stored, tracked, entry, chain>>
      /\ live = c /\ calls[c].at \in {"vetoed", "failed"} /\ calls \in [Callers -> Call] /\ c # nobody
      /\ sessions[c].stage \in {"live", "vetoed"}
  BY PreparationsAssumption DEF VetoOver, At, identity, Inv, IInv, RegistryInv, TypeOK
<1>2. KeepsCreated
  BY <1>1, ChainCreated
<1>4. calls'[c].kind = calls[c].kind /\ \A d \in Callers : d # c => Unmoved(d)
  <2>1. CASE calls[c].at = "vetoed"
    <3>1. calls' = Goes(c, "rollback") /\ "rollback" # "queued"
      BY <2>1 DEF VetoOver, At
    <3> QED
      BY <1>1, <3>1, GoesTo DEF Unmoved
  <2>2. CASE calls[c].at = "failed"
    <3>1. calls' = calls
      BY <2>2 DEF VetoOver, At
    <3> QED
      BY <2>2, <3>1 DEF Unmoved
  <2> QED
    BY <1>1, <2>1, <2>2
<1>5. ASSUME Grows PROVE Unmoved(c) \/ StillKnown(c)
  <2>1. CASE calls[c].at = "vetoed"
    <3>1. calls[c].kind \notin {"load", "inspect"}
      <4>1. calls[c].at \in Places(calls[c].kind)
        BY DEF Inv, IInv, PlacesInv
      <4> QED
        BY <2>1, <4>1 DEF Places
    <3>2. calls' = Goes(c, "rollback")
      BY <2>1 DEF VetoOver, At
    <3>3. /\ calls'[c].at = "rollback" /\ calls'[c].kind = calls[c].kind /\ calls'[c].known = calls[c].known
      BY <1>1, <3>2, GoesTo
    <3> QED
      BY <1>5, <3>1, <3>3, KnownFree DEF StillKnown
  <2>2. CASE calls[c].at = "failed"
    <3>1. calls' = calls
      BY <2>2 DEF VetoOver, At
    <3> QED
      BY <2>2, <3>1 DEF Unmoved
  <2> QED
    BY <1>1, <2>1, <2>2
<1>6. CASE sessions[c].stage = "live"
  <2>1. sessions' = [sessions EXCEPT ![c].stage = "retiring"]
    BY <1>6 DEF VetoOver
  <2>2. Stays(c, "retiring")
    BY <1>1, <2>1, StageIs DEF Stays
  <2>3. Grows /\ KeepsFailed
    BY <1>1, <1>2, <1>6, <2>2, StageGrows
  <2> QED
    BY <1>4, <1>5, <2>3, FreshStep
<1>7. CASE sessions[c].stage = "vetoed"
  <2>1. sessions' = [sessions EXCEPT ![c].stage = "withdrawn"]
    BY <1>7 DEF VetoOver
  <2>2. \A d \in Callers :
          /\ sessions'[d].events = sessions[d].events /\ sessions'[d].seeded = sessions[d].seeded
          /\ sessions'[d].init = sessions[d].init
          /\ sessions'[d].stage = IF d = c THEN "withdrawn" ELSE sessions[d].stage
    BY <1>1, <2>1, StageIs
  <2>3. CASE calls[c].kind # "resume"
    <3>1. Failed'
      BY <1>4, <2>2, <2>3 DEF Failed
    <3> QED
      BY <3>1 DEF FreshInv
  <2>4. CASE calls[c].kind = "resume"
    <3>1. entry.holder = c
      BY <1>1, <1>7, <2>4 DEF VetoInv
    <3>2. entry.phase = "reserved"
      BY <1>1, <3>1 DEF HolderInv
    <3>3. tracked.owner = nobody /\ IsPrefix(stored, Prepared) /\ Truth = stored
      BY <3>1, <3>2, PreparedIs DEF Truth
    <3>4. Seed(c) = Prepared
      BY <1>1, <1>7, <3>1, SeedIs DEF VetoInv
    <3>5. IsPrefix(Truth, Seed(c))
      BY <3>3, <3>4
    <3>6. Truth' = Truth
      BY <1>1, <3>3 DEF Truth
    <3>7. IsPrefix(stored, stored') /\ IsPrefix(Truth, Truth')
      BY <1>1, <3>6, LogTypes, PrefixOrder
    <3>8. \A d \in Callers : /\ d # c /\ Seeds(d) => Seeds(d)' /\ Seed(d)' = Seed(d)
                             /\ Owns(d) => tracked'.owner = d
      BY <1>1, <1>2, <2>2 DEF Seeds, Seed, KeepsCreated, Owns
    <3>9. Grows
      BY <3>5, <3>7, <3>8 DEF Grows
    <3>10. KeepsFailed
      BY <1>7, <2>2 DEF KeepsFailed
    <3> QED
      BY <1>4, <1>5, <3>9, <3>10, FreshStep
  <2> QED
    BY <2>3, <2>4
<1> QED
  BY <1>1, <1>6, <1>7

\* A load that flushes the Session d, which the coordinator attaches now.
LEMMA FlushesFresh ==
  ASSUME Inv, Inv', FreshInv, NEW c \in Callers, NEW d \in Callers, live = d, Standing(d), sessions[d].stage = "vetoed",
         calls[c].kind = "load", calls' = Woken(Flushes(c, calls)),
         stored' = stored, NEW init \in {"pending", "ok"}, sessions' = AttachedNow(d, init),
         \/ entry.holder = d /\ entry.phase = "reserved" /\ Attaches(d)
         \/ tracked' = tracked /\ Enqueued("created", d, 0)
  PROVE  FreshInv'
<1>1. /\ TypeOK /\ VetoInv /\ d # nobody /\ sessions[d].events \in Seq(Event)
      /\ sessions[d].seeded = Len(sessions[d].events)
  BY PreparationsAssumption DEF Inv, IInv, VetoInv, TypeOK
<1>2. /\ \A e \in Callers : e # d => sessions'[e] = sessions[e]
      /\ sessions'[d].events = sessions[d].events /\ sessions'[d].seeded = sessions[d].seeded
      /\ sessions'[d].stage = "live"
  BY <1>1, AttachedNowIs
<1>3. Grows /\ KeepsFailed
  BY <1>2, AttachGrows
<1> DEFINE cs == Flushes(c, calls)
<1>4. /\ cs \in [Callers -> Call] /\ \A e \in Callers : e # c => cs[e] = calls[e]
      /\ cs[c].kind = calls[c].kind /\ cs[c].at = "flushing" /\ cs[c].known = calls[c].known
      /\ cs[c].source = sessions[d].events
  BY <1>1, FlushesIs
<1>5. calls' = Woken(cs)
  OBVIOUS
<1> HIDE DEF cs
<1>6. calls'[c] = cs[c] /\ \A e \in Callers : e # c => Unmoved(e)
  BY <1>1, <1>4, <1>5, TurnOf
<1>7. ASSUME KnownInv(c), ~Failed PROVE KnownInv(c)'
  <2>1. /\ calls'[c].kind = "load" /\ calls'[c].at = "flushing" /\ calls'[c].known = calls[c].known
        /\ calls'[c].source = sessions[d].events /\ calls[c].known \in Seq(Event)
        /\ Truth \in Seq(Event) /\ Truth' \in Seq(Event)
    <3>1. TypeOK'
      BY DEF Inv
    <3>2. stored' \in Seq(Event) /\ tracked'.owner \in Callers \cup {nobody}
          /\ \A e \in Callers : sessions'[e].events \in Seq(Event)
      BY <3>1 DEF TypeOK
    <3>3. Truth' \in Seq(Event)
      BY <3>2 DEF Truth
    <3> QED
      BY <1>1, <1>4, <1>6, <3>3, LogTypes
  <2>2. IsPrefix(calls[c].known, Truth) /\ IsPrefix(Truth, Truth')
    BY <1>3, <1>7 DEF KnownInv, Grows
  <2>3. IsPrefix(calls[c].known, Truth')
    BY <2>1, <2>2, PrefixOrder
  <2>4. \/ IsPrefix(calls[c].known, sessions[d].events)
        \/ Seeds(d)' /\ IsPrefix(Seed(d)', sessions[d].events)
    <3>1. CASE entry.holder = d /\ entry.phase = "reserved" /\ Attaches(d)
      <4>1. tracked' = [tracked EXCEPT !.owner = d]
        BY <3>1 DEF Attaches
      <4>2. Truth' = sessions[d].events
        BY <1>1, <1>2, <4>1 DEF Truth, TypeOK
      <4> QED
        BY <2>3, <4>2
    <3>2. CASE tracked' = tracked /\ Enqueued("created", d, 0)
      <4>1. Seeds(d)'
        BY <1>1, <3>2, CreatedIsQueued DEF Seeds
      <4>2. Seed(d)' = Seed(d)
        BY <1>2 DEF Seed
      <4> QED
        BY <4>1, <4>2, SeedIs
    <3> QED
      BY <3>1, <3>2
  <2> QED
    BY <2>1, <2>3, <2>4 DEF KnownInv
<1>8. StillKnown(c)
  BY <1>4, <1>6, <1>7 DEF StillKnown
<1> QED
  BY <1>3, <1>6, <1>8, FreshStep

LEMMA LoadAttachesFresh ==
  ASSUME Inv, Inv', FreshInv, NEW c \in Callers, LoadAttaches(c)
  PROVE  FreshInv'
<1>1. /\ TypeOK /\ EntryInv /\ calls[c].kind = "load" /\ Unattached
      /\ stored' = stored /\ live' = live /\ retiring' = retiring /\ calls \in [Callers -> Call]
  BY DEF LoadAttaches, Inv, IInv, TypeOK
<1>2. PICK d \in Callers : d = live /\ Standing(d) /\ sessions[d].stage = "vetoed"
  BY <1>1, VetoedStands DEF Unattached
<1>3. CASE ~Attachable(live)
  <2>1. SameLog /\ calls' = Rejected(c, calls) /\ chain' = chain
    BY <1>1, <1>3 DEF LoadAttaches, SameLog
  <2> QED
    BY <1>1, <2>1, ChainCreated, RejectedFresh
<1>4. CASE Attachable(live)
  <2>1. /\ Attaches(d) /\ sessions' = AttachedNow(d, InitBy(d)) /\ MayPublish(d)
        /\ calls' = Woken(Flushes(c, calls)) /\ d # nobody
    BY <1>2, <1>4, PreparationsAssumption DEF LoadAttaches, Attachable
  <2>2. PICK init \in {"pending", "ok"} : sessions' = AttachedNow(d, init)
    BY <2>1 DEF InitBy
  <2>3. \/ entry.holder = d /\ entry.phase = "reserved" /\ Attaches(d)
        \/ tracked' = tracked /\ Enqueued("created", d, 0)
    BY <1>1, <2>1 DEF MayPublish, Attaches, EntryInv, NoEntry
  <2> QED
    BY <1>1, <1>2, <2>1, <2>2, <2>3, FlushesFresh
<1> QED
  BY <1>3, <1>4

LEMMA ReserveGivesUpFresh ==
  ASSUME Inv, Inv', FreshInv, NEW c \in Callers, ReserveGivesUp(c)
  PROVE  FreshInv'
<1>1. /\ TypeOK /\ EntryInv /\ HolderInv /\ calls \in [Callers -> Call] /\ calls[c].at = "committed" /\ live # nobody
      /\ stored' = stored /\ tracked' = tracked /\ live' = live /\ retiring' = retiring
  BY DEF ReserveGivesUp, At, Inv, IInv, TypeOK
<1>2. Unattached
  <2>1. entry.holder = c /\ c # nobody
    BY <1>1, PreparationsAssumption DEF HolderInv
  <2> QED
    BY <1>1, <2>1 DEF EntryInv, NoEntry
<1>3. PICK d \in Callers : d = live /\ Standing(d) /\ sessions[d].stage = "vetoed"
  BY <1>2, VetoedStands DEF Unattached
<1>4. CASE calls[c].kind = "load"
  <2>1. /\ calls' = Woken(Flushes(c, calls)) /\ Enqueued("created", d, 0)
        /\ sessions' = AttachedNow(d, "pending") /\ "pending" \in {"pending", "ok"}
    BY <1>3, <1>4 DEF ReserveGivesUp, Removed
  <2> QED
    BY <1>1, <1>3, <1>4, <2>1, FlushesFresh
<1>5. CASE calls[c].kind # "load"
  <2>1. SameLog /\ calls' = Woken(Rejected(c, calls)) /\ chain' = chain
    BY <1>1, <1>5 DEF ReserveGivesUp, Removed, SameLog
  <2> QED
    BY <1>1, <2>1, ChainCreated, RejectedFresh
<1> QED
  BY <1>4, <1>5
-----------------------------------------------------------------------------
(* Every answer continues the log that its call knew *)

LEMMA FreshInit ==
  ASSUME Init, Inv
  PROVE  FreshInv
<1>1. PICK play \in Plays : calls = [c \in Callers |-> Uncalled(play.calls[c])] /\ left = play.budget
  BY DEF Init
<1>2. TypeOK
  BY DEF Inv
<1>3. ASSUME NEW c \in Callers PROVE KnownInv(c)
  <2>1. calls[c].at = "idle" /\ calls[c].known = <<>>
    BY <1>1 DEF Uncalled
  <2>2. IsPrefix(calls[c].known, Truth)
    BY <1>2, <2>1, LogTypes, PrefixOrder
  <2> QED
    BY <2>1, <2>2 DEF KnownInv, Answers
<1> QED
  BY <1>3 DEF FreshInv

LEMMA FreshStutter ==
  ASSUME Inv, Inv', FreshInv, UNCHANGED vars
  PROVE  FreshInv'
<1>1. TypeOK /\ SameLog /\ chain' = chain /\ calls' = calls /\ sessions' = sessions
  BY DEF vars, identity, SameLog, Inv
<1>2. Grows /\ KeepsFailed
  BY <1>1, ChainCreated, SameGrows DEF SameLog, KeepsFailed
<1> QED
  BY <1>1, <1>2, FreshStep DEF Unmoved

LEMMA NextFresh ==
  ASSUME Inv, Inv', FreshInv, Next
  PROVE  FreshInv'
<1>1. CASE Read \/ Evicted \/ OtherWrites
  BY <1>1, ReadFresh, EvictedFresh, OtherWritesFresh
<1>2. ASSUME NEW c \in Callers, Continues(c) PROVE FreshInv'
  <2>1. CASE Looks(c) \/ ReserveRestarts(c) \/ ReserveWaits(c) \/ ReserveCommits(c) \/ ReserveEnds(c)
    BY <2>1, LooksFresh, RestartsFresh, ReserveFresh, ReserveEndsFresh
  <2>2. CASE InspectChecks(c) \/ InspectEnds(c) \/ LoadFlushed(c)
    BY <2>2, InspectChecksFresh, InspectEndsFresh, LoadFlushedFresh
  <2>3. CASE ConfiguredResumes(c) \/ ConfiguredLists(c) \/ SetupBegins(c) \/ RollsBack(c)
    BY <2>3, RestartsFresh, FactoryFresh, ReleaseFresh
  <2>4. CASE WaitRejected(c) \/ LoadAttaches(c) \/ ReserveGivesUp(c)
    BY <2>4, WaitRejectedFresh, LoadAttachesFresh, ReserveGivesUpFresh
  <2> QED
    BY <1>2, <2>1, <2>2, <2>3, <2>4 DEF Continues
<1>3. ASSUME NEW c \in Callers, Settles(c) PROVE FreshInv'
  BY <1>3, FactoryFresh, PublishesFresh, PublishVetoedFresh, PublishRefusedFresh DEF Settles
<1>4. ASSUME NEW c \in Callers, Serialized(c) PROVE FreshInv'
  <2>1. CASE Commit(c) \/ CommitRestarts(c) \/ CommitRefused(c) \/ Check(c)
    BY <2>1, CommitFresh, CommitRefusedFresh, CheckFresh
  <2>2. CASE SeedStored(c) \/ Created(c) \/ Drain(c) \/ DrainFails(c) \/ Retire(c)
    BY <2>2, SeedStoredFresh, CreatedFresh, DrainFresh, DrainFailsFresh, RetireFresh
  <2> QED
    BY <1>4, <2>1, <2>2 DEF Serialized
<1>5. ASSUME NEW c \in Callers, Retires(c) PROVE FreshInv'
  BY <1>5, RetiresFresh DEF Retires
<1>6. ASSUME NEW c \in Callers, Environment(c) PROVE FreshInv'
  <2>1. CASE Begins(c) \/ CreateBegins(c) \/ ConfiguredBegins(c)
    BY <2>1, BeginsFresh, FactoryFresh
  <2>2. CASE SetupAppends(c) \/ TurnStarts(c) \/ DisposeBegins(c) \/ Abort(c)
    BY <2>2, EventsFresh, FactoryFresh, AbortFresh
  <2> QED
    BY <1>6, <2>1, <2>2 DEF Environment
<1>7. ASSUME NEW c \in Callers, TurnEnds(c) \/ Detaches(c) \/ VetoOver(c) PROVE FreshInv'
  BY <1>7, EventsFresh, RetiresFresh, VetoOverFresh
<1> QED
  BY <1>1, <1>2, <1>3, <1>4, <1>5, <1>6, <1>7 DEF Next

LEMMA FreshHolds == Spec => []FreshInv
<1>1. Init /\ Inv => FreshInv
  BY FreshInit
<1>2. Inv /\ Inv' /\ FreshInv /\ [Next]_vars => FreshInv'
  BY NextFresh, FreshStutter
<1> QED
  BY <1>1, <1>2, InvHolds, PTL DEF Spec

\* A Session the coordinator has not attached yet is what the log says, or was
\* created over it.
LEMMA VetoedSeed ==
  ASSUME Inv, NEW d \in Callers, sessions[d].stage = "vetoed", NEW c \in Callers, KnownInv(c),
         IsPrefix(Seed(d), calls[c].source)
  PROVE  IsPrefix(calls[c].known, calls[c].source) \/ Unowned(d)
<1>1. CASE calls[d].kind # "resume"
  BY <1>1 DEF Unowned
<1>2. CASE calls[d].kind = "resume"
  <2>1. TypeOK /\ VetoInv /\ HolderInv
    BY DEF Inv, IInv
  <2>2. entry.holder = d /\ entry.phase = "reserved"
    BY <1>2, <2>1 DEF VetoInv, HolderInv
  <2>3. Truth = stored /\ IsPrefix(stored, Prepared)
    BY <2>2, PreparedIs DEF Truth
  <2>4. Seed(d) = Prepared /\ Seed(d) \in Seq(Event)
    BY <2>1, <2>2, SeedIs DEF VetoInv
  <2>5. /\ calls[c].known \in Seq(Event) /\ calls[c].source \in Seq(Event) /\ stored \in Seq(Event)
        /\ IsPrefix(calls[c].known, stored) /\ IsPrefix(stored, Seed(d))
    BY <2>1, <2>3, <2>4, LogTypes DEF KnownInv
  <2>6. IsPrefix(calls[c].known, Seed(d))
    BY <2>4, <2>5, PrefixOrder
  <2> QED
    BY <2>4, <2>5, <2>6, PrefixOrder
<1> QED
  BY <1>1, <1>2

LEMMA FreshSays ==
  ASSUME Inv, FreshInv
  PROVE  InspectionsFresh
<1>1. ASSUME NEW c \in Callers, calls[c].kind \in {"load", "inspect"}, calls[c].at = "done", ~calls[c].borrowed
      PROVE  \/ IsPrefix(calls[c].known, calls[c].source)
             \/ \E d \in Callers : Unowned(d)
  <2>1. CASE Failed
    BY <2>1 DEF Failed, Unowned
  <2>2. CASE KnownInv(c)
    <3>1. ASSUME NEW d \in Callers, Queued("created", d) PROVE Unowned(d)
      BY <3>1 DEF Queued, Inv, IInv, ChainInv, OpInv, Unowned
    <3>2. ASSUME NEW d \in Callers, sessions[d].stage = "vetoed", IsPrefix(Seed(d), calls[c].source)
          PROVE  IsPrefix(calls[c].known, calls[c].source) \/ Unowned(d)
      BY <1>1, <2>2, <3>2, VetoedSeed
    <3> QED
      BY <1>1, <2>2, <3>1, <3>2 DEF KnownInv, Answers, Seeds
  <2> QED
    BY <2>1, <2>2 DEF FreshInv
<1> QED
  BY <1>1 DEF InspectionsFresh, At

\* preparations.ts, load, inspect: one call holds an identity, which is then
\* neither live nor cached, and is handed what the log says; and a read answers
\* with every event its call could have known, whatever is appended, retires or
\* rolls back meanwhile and whoever else calls, unless it was lent a view or a
\* Session that was created over the log never came to own it.
THEOREM PreparationsCorrect == Spec => []PreparationsFresh
<1>1. Inv /\ Reservations /\ FreshInv => PreparationsFresh
  BY FreshSays DEF PreparationsFresh
<1> QED
  BY <1>1, InvHolds, ReservationsCorrect, FreshHolds, PTL
=============================================================================
