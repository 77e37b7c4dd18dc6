------------------------- MODULE ContinuationsProofs -------------------------
(***************************************************************************)
(* Proofs about Continuations, for every number of Activations and calls   *)
(* over a chain of one or two children.  TeardownInv is inductive and      *)
(* gives TypeOK and TeardownInOrder; KeepInv is inductive below it and     *)
(* gives AcceptedIsKept.  Steps that disturb the same state share a lemma: *)
(* GoesStep, DisposeStep, AdvanceStep, LoopStep; FrameStep and MoveKeeps.  *)
(***************************************************************************)
EXTENDS Continuations, TLAPS

\* What the bounds say: a child is the first or the second.
LEMMA Kinds ==
  /\ Kids \subseteq Nat \ {0} /\ Epochs \subseteq Nat \ {0} /\ Calls \subseteq Nat /\ Depth \in Nat
  /\ MaxEpochs \in Nat
  /\ \A k \in Kids : (k = 1 /\ k - 1 = 0 /\ ~(k > 1)) \/ (k = 2 /\ k - 1 = 1 /\ 1 < k)
  /\ 1 \in Kids
BY BoundsAssumption DEF Kids, Epochs, Calls

\* The messages of calls and the notices of Activations are apart.
LEMMA Prompts ==
  /\ \A c \in Calls : Prompt(c) \in Messages /\ Prompt(c)[1] = 0 /\ Prompt(c)[2] = c
  /\ \A m \in Messages : m[1] = 0 => m[2] \in Calls /\ m = Prompt(m[2])
  /\ \A m \in Messages : m[1] # 0 => m[1] \in Kids /\ m[2] \in Epochs
  /\ \A k \in Kids, e \in Epochs : <<k, e>> \in Messages
  /\ \A c \in Calls, k \in Kids, e \in Epochs : Prompt(c) # <<k, e>>
  /\ \A c, d \in Calls : Prompt(c) = Prompt(d) => c = d
BY Kinds DEF Messages, Prompt

\* Cancelling only takes what is in an inbox out of it.
LEMMA ClearedEffect ==
  ASSUME LoopsOK, NEW kids
  PROVE  /\ Cleared(kids) \in [Messages -> Fates]
         /\ \A m \in Messages :
              \/ Cleared(kids)[m] = fate[m]
              \/ fate[m] \in {"accepted", "injected"} /\ Cleared(kids)[m] \in {"cleared", "unread"}
         /\ \A m \in Messages, k \in kids : m \in Inbox(k) => Cleared(kids)[m] \in {"cleared", "unread"}
BY DEF LoopsOK, Cleared, Inbox, Accepted, Injected, Fates

LEMMA WokenType ==
  ASSUME LoopsOK, NEW k \in Kids
  PROVE  Woken(k) \in {"idle", "running", "retiring", "aborted", "latched", "tending", "tendingWoken"}
BY DEF LoopsOK, Woken

LEMMA DisposeEffect ==
  ASSUME GraphOK, LoopsOK, NEW roots \in SUBSET Kids, Dispose(roots)
  PROVE  /\ entry' \in [Kids -> {"none", "resident", "children", "idle", "flush", "release"}]
         /\ poked' \subseteq Kids
         /\ LoopsOK'
         /\ UNCHANGED <<epoch, owned, announced>>
         /\ \A k \in Kids : entry'[k] = entry[k] \/ (Resident(k) /\ entry'[k] = "children")
         /\ \A k \in Kids : Present(k)' = Present(k) /\ (Resident(k)' => Resident(k))
         /\ \A k \in Kids \cap roots : ~Resident(k)'
         /\ \A k \in Kids : drv'[k] # "idle" <=> drv[k] # "idle"
         /\ \A k \in Kids : drv'[k] \notin {"idle", "tending"} => drv[k] \notin {"idle", "tending"}
         /\ \A m \in Messages :
              \/ fate'[m] = fate[m]
              \/ fate[m] \in {"accepted", "injected"} /\ fate'[m] \in {"cleared", "unread"}
<1> DEFINE opened == {k \in UNION {Chain(r) : r \in roots} : Resident(k)}
<1>1. opened \subseteq Kids
  BY Kinds DEF Chain, Kids
<1>2. entry' = [k \in Kids |-> IF k \in opened THEN "children" ELSE entry[k]]
  BY DEF Dispose
<1>3. CancelAll(opened) /\ poked' = poked \cup opened /\ UNCHANGED <<epoch, owned, announced>>
  BY DEF Dispose
<1>4. \A k \in Kids \cap roots : Resident(k) => k \in opened
  BY Kinds DEF Chain, Kids
<1>5. \A k \in opened : Resident(k)
  OBVIOUS
<1> HIDE DEF opened
<1>6. \A k \in Kids : entry'[k] = entry[k] \/ (Resident(k) /\ entry'[k] = "children")
  BY <1>2, <1>5
<1>7. \A k \in Kids : Present(k)' = Present(k) /\ (Resident(k)' => Resident(k))
  BY <1>6 DEF Present, Resident
<1>8. \A k \in Kids \cap roots : ~Resident(k)'
  BY <1>2, <1>4 DEF Resident
<1>9. /\ \A k \in Kids : drv'[k] # "idle" <=> drv[k] # "idle"
      /\ \A k \in Kids : drv'[k] \notin {"idle", "tending"} => drv[k] \notin {"idle", "tending"}
  BY <1>3 DEF CancelAll, AbortedDriver
<1>10. drv' \in [Kids -> {"idle", "running", "retiring", "aborted", "latched", "tending", "tendingWoken"}]
  BY <1>3 DEF CancelAll, AbortedDriver, LoopsOK
<1>11. fate' = Cleared(opened)
  BY <1>3 DEF CancelAll
<1>12. entry' \in [Kids -> {"none", "resident", "children", "idle", "flush", "release"}]
  BY <1>2 DEF GraphOK
<1>13. poked' \subseteq Kids
  BY <1>1, <1>3 DEF GraphOK
<1> QED
  BY <1>3, <1>6, <1>7, <1>8, <1>9, <1>10, <1>11, <1>12, <1>13, ClearedEffect DEF LoopsOK

-----------------------------------------------------------------------------
(* Admission *)

\* The chain is short enough for every caller's lineage to reach the host.
LEMMA AdmittingMeans ==
  ASSUME CallsOK, NEW c \in Calls, Admitting(c)
  PROVE  manager = "up" /\ ~(scope = "closed" /\ host = "live")
<1>0. target[c] \in Kids
  BY DEF CallsOK
<1>1. target[c] - 1 \in {0, 1}
  BY <1>0, Kinds
<1>2. LineageReachesHost(target[c] - 1)
  BY <1>1 DEF LineageReachesHost
<1> QED
  BY <1>2 DEF Admitting, Closing, Caller, ScopeOn

\* The child of a message does not change any more once it was sent.
LEMMA ToStays ==
  ASSUME SendInv, NEW m \in Messages, fate[m] # "unsent",
         \A c \in Calls : stage[c] \in {"done", "reported"} => target'[c] = target[c] /\ stage'[c] = stage[c]
  PROVE  To(m)' = To(m)
<1>1. CASE m[1] = 0
  <2>1. m[2] \in Calls /\ m = Prompt(m[2])
    BY <1>1, Prompts
  <2>2. stage[m[2]] \in {"done", "reported"}
    BY <2>1 DEF SendInv
  <2> QED
    BY <1>1, <2>1, <2>2 DEF To
<1>2. CASE m[1] # 0
  BY <1>2 DEF To
<1> QED
  BY <1>1, <1>2

\* With the calls as they are, every message goes where it went.
LEMMA ToSame == ASSUME UNCHANGED <<stage, target>>, NEW m PROVE To(m)' = To(m)
BY DEF To

-----------------------------------------------------------------------------
(* Steps of the calls *)

\* A call that changes nothing but its own place.
LEMMA GoesStep ==
  ASSUME TeardownInv, NEW c \in Calls, NEW place \in Places \ {"done", "reported"},
         Goes(c, place), stage[c] \notin {"done", "reported"},
         UNCHANGED <<target, from, by, graph, watchers, loops, teardown>>,
         place \in Critical => stage[c] \in Critical \/ Unlocked(target[c]),
         place \in {"creating", "inspecting"} => ~Present(target[c]),
         place \in Materializing => stage[c] \in Materializing \/ Admitting(c)
  PROVE  TeardownInv'
<1> USE DEF TeardownInv
<1>0. stage' = [stage EXCEPT ![c] = place]
  BY DEF Goes
<1>1. CallsOK'
  BY <1>0 DEF TypeOK, CallsOK
<1>2. GraphOK' /\ LoopsOK' /\ TeardownOK'
  BY DEF TypeOK, GraphOK, LoopsOK, TeardownOK, graph, watchers, loops, teardown
<1>3. \A m \in Messages : fate[m] \in {"accepted", "injected"} => To(m)' = To(m)
  BY <1>0, ToStays DEF TypeOK, CallsOK
<1>4. \A k : Present(k)' = Present(k) /\ Resident(k)' = Resident(k)
  BY DEF Present, Resident, graph
<1>5. ResidencyOK'
  BY <1>3, <1>4 DEF TypeOK, ResidencyOK, graph, loops, watchers
<1>6. LockInv'
  <2>1. \A d \in Calls : d # c => stage'[d] = stage[d]
    BY <1>0 DEF TypeOK, CallsOK
  <2>2. stage'[c] = place
    BY <1>0 DEF TypeOK, CallsOK
  <2>3. ASSUME NEW d \in Calls, d # c, target[d] = target[c], place \in Critical
        PROVE  stage[d] \notin Critical
    BY <2>3 DEF LockInv, Unlocked
  <2>4. \A d, e \in Calls :
          d # e /\ target'[d] = target'[e] /\ stage'[d] \in Critical => stage'[e] \notin Critical
    BY <2>1, <2>2, <2>3 DEF LockInv
  <2> QED
    BY <1>4, <2>1, <2>2, <2>4 DEF LockInv, graph
<1>7. OwnerInv' /\ SendInv'
  BY <1>0 DEF OwnerInv, SendInv, graph, loops, TypeOK, CallsOK
<1>8. BarrierInv'
  <2>1. \A d \in Calls : stage'[d] \in Materializing => stage[d] \in Materializing \/ Admitting(c)
    BY <1>0 DEF TypeOK, CallsOK
  <2> QED
    BY <1>4, <2>1, AdmittingMeans DEF BarrierInv, Barrier, NobodyPresent, teardown, TypeOK
<1> QED
  BY <1>1, <1>2, <1>5, <1>6, <1>7, <1>8 DEF TypeOK

\* A new call.
LEMMA CalledStep ==
  ASSUME TeardownInv, NEW c \in Calls, NEW k \in Kids, NEW place \in {"preparing", "queued"},
         Called(c, k, place), UNCHANGED <<by, graph, watchers, loops, teardown>>
  PROVE  TeardownInv'
<1> USE DEF TeardownInv
<1>0. /\ stage[c] = "new" /\ stage' = [stage EXCEPT ![c] = place]
      /\ target' = [target EXCEPT ![c] = k] /\ from' = [from EXCEPT ![c] = EpochOf(k - 1)]
  BY DEF Called, Goes
<1>1. EpochOf(k - 1) \in 0 .. MaxEpochs
  BY Kinds DEF EpochOf, TypeOK, GraphOK
<1>2. CallsOK'
  BY <1>0, <1>1 DEF TypeOK, CallsOK, Places
<1>3. GraphOK' /\ LoopsOK' /\ TeardownOK'
  BY DEF TypeOK, GraphOK, LoopsOK, TeardownOK, graph, watchers, loops, teardown
<1>4. \A m \in Messages : fate[m] \in {"accepted", "injected"} => To(m)' = To(m)
  BY <1>0, ToStays DEF TypeOK, CallsOK
<1>5. \A j : Present(j)' = Present(j) /\ Resident(j)' = Resident(j)
  BY DEF Present, Resident, graph
<1>6. ResidencyOK'
  BY <1>4, <1>5 DEF TypeOK, ResidencyOK, graph, loops, watchers
<1>7. \A d \in Calls : stage'[d] \in Critical => stage'[d] = stage[d] /\ target'[d] = target[d]
  BY <1>0 DEF Critical, Materializing, TypeOK, CallsOK
<1>8. LockInv'
  BY <1>5, <1>7 DEF LockInv, graph, Critical, Materializing
<1>9. OwnerInv' /\ SendInv'
  BY <1>0 DEF OwnerInv, SendInv, graph, loops, TypeOK, CallsOK
<1>10. BarrierInv'
  BY <1>5, <1>7 DEF BarrierInv, Barrier, NobodyPresent, teardown, Critical
<1> QED
  BY <1>2, <1>3, <1>6, <1>8, <1>9, <1>10 DEF TypeOK

\* submitAdmitted: the message is accounted, announced and sent.
LEMMA AcceptsStep ==
  ASSUME TeardownInv, NEW c \in Calls, Accepts(c), stage[c] \in {"queued", "submitting"}
  PROVE  TeardownInv'
<1> USE DEF TeardownInv
<1> DEFINE k == target[c]
<1>0. /\ stage' = [stage EXCEPT ![c] = "done"]
      /\ owned' = Acquired(k) /\ announced' = announced \cup {k}
      /\ fate' = [fate EXCEPT ![Prompt(c)] = "accepted"]
      /\ drv' = [drv EXCEPT ![k] = Woken(k)] /\ poked' = poked \cup {k}
      /\ by' = [by EXCEPT ![c] = epoch[k]]
      /\ UNCHANGED <<target, from, epoch, entry, watch, teardown>>
  BY DEF Accepts, Goes, Waking
<1>1. k \in Kids /\ Resident(k) /\ Present(k) /\ (k = 1 \/ Resident(k - 1))
  <2>1. k \in Kids /\ Resident(k) /\ AgentLive(k - 1, from[c]) /\ Ownable(k)
    BY DEF Accepts, MayAccept, Authorized, Caller, TypeOK, CallsOK
  <2> HIDE DEF k
  <2>2. k # 1 => k > 1 /\ k - 1 # 0
    BY <2>1, Kinds
  <2> QED
    BY <2>1, <2>2 DEF AgentLive, Ownable, Present, Resident
<1> HIDE DEF k
<1>2. owned' = IF k = 1 THEN owned ELSE owned \cup {k}
  BY <1>0, <1>1, Kinds DEF Acquired
<1>3. CallsOK'
  BY <1>0, <1>1 DEF TypeOK, CallsOK, GraphOK, Places
<1>4. GraphOK'
  BY <1>0, <1>1, <1>2 DEF TypeOK, GraphOK
<1>5. LoopsOK'
  BY <1>0, <1>1, WokenType DEF TypeOK, LoopsOK, Fates
<1>6. TeardownOK'
  BY <1>0 DEF TypeOK, TeardownOK, teardown
<1>7. \A j : Present(j)' = Present(j) /\ Resident(j)' = Resident(j)
  BY <1>0 DEF Present, Resident
<1>8. \A m \in Messages : m # Prompt(c) /\ fate[m] \in {"accepted", "injected"} => To(m)' = To(m)
  BY <1>0, ToStays DEF TypeOK, CallsOK
<1>9. To(Prompt(c))' = k
  BY <1>0, Prompts DEF To, TypeOK, CallsOK, k
<1>10. ResidencyOK'
  <2>1. \A m \in Messages : m # Prompt(c) => fate'[m] = fate[m]
    BY <1>0 DEF TypeOK, LoopsOK
  <2>2. \A m \in Messages : fate'[m] \in {"accepted", "injected"} => To(m)' \in Kids /\ Present(To(m))'
    BY <1>1, <1>7, <1>8, <1>9, <2>1 DEF TypeOK, ResidencyOK
  <2>3. \A j \in Kids : j # k => drv'[j] = drv[j]
    BY <1>0 DEF TypeOK, LoopsOK
  <2>4. \A j \in Kids : (drv'[j] # "idle" => Present(j)') /\ (Resident(j)' => watch'[j] # "off")
    BY <1>0, <1>1, <1>7, <2>3 DEF TypeOK, ResidencyOK
  <2>5. \A j \in owned' \cup announced' : Present(j)'
    BY <1>0, <1>1, <1>2, <1>7 DEF TypeOK, ResidencyOK
  <2> QED
    BY <2>2, <2>4, <2>5 DEF ResidencyOK
<1>11. \A d \in Calls : stage'[d] \in Critical => stage'[d] = stage[d]
  BY <1>0 DEF Critical, Materializing, TypeOK, CallsOK
<1>12. LockInv'
  BY <1>0, <1>7, <1>11 DEF LockInv, Critical, Materializing
<1>13. OwnerInv'
  BY <1>0, <1>1, <1>2 DEF OwnerInv, Resident
<1>14. SendInv'
  BY <1>0, Prompts DEF SendInv, TypeOK, CallsOK, LoopsOK
<1>15. BarrierInv'
  BY <1>0, <1>7, <1>11 DEF BarrierInv, Barrier, NobodyPresent, teardown, Critical
<1> QED
  BY <1>3, <1>4, <1>5, <1>6, <1>10, <1>12, <1>13, <1>14, <1>15 DEF TypeOK

\* materializeTracked: the handle is installed, resident or to be rolled back.
LEMMA CreatedStep ==
  ASSUME TeardownInv, NEW c \in Calls, Created(c)
  PROVE  TeardownInv'
<1> USE DEF TeardownInv
<1> DEFINE k == target[c]
<1>0. /\ stage[c] = "creating" /\ epoch[k] < MaxEpochs
      /\ epoch' = [epoch EXCEPT ![k] = @ + 1]
      /\ announced' = announced \ {k} /\ poked' = poked \ {k}
      /\ UNCHANGED <<target, from, by, loops, teardown>>
  BY DEF Created
<1>1. k \in Kids /\ ~Present(k) /\ epoch[k] \in 0 .. MaxEpochs
  BY <1>0 DEF TypeOK, CallsOK, GraphOK, LockInv
<1>2. \/ /\ stage' = [stage EXCEPT ![c] = "submitting"] /\ entry' = [entry EXCEPT ![k] = "resident"]
         /\ owned' = Acquired(k) /\ watch' = [watch EXCEPT ![k] = "racing"]
      \/ /\ stage' = [stage EXCEPT ![c] = "rollingBack"] /\ entry' = [entry EXCEPT ![k] = "release"]
         /\ UNCHANGED <<owned, watch>>
  BY DEF Created, Goes
<1>3. Admitting(c) \/ manager' = manager
  BY <1>0 DEF teardown
<1> HIDE DEF k
<1>4. owned' = owned \/ (k # 1 /\ Resident(k - 1) /\ owned' = owned \cup {k} /\ entry'[k] = "resident")
  <2>1. CASE owned' = Acquired(k) /\ entry' = [entry EXCEPT ![k] = "resident"]
    BY <1>1, <2>1, Kinds DEF Acquired, Resident, TypeOK, GraphOK
  <2> QED
    BY <1>2, <2>1
<1>5. CallsOK'
  BY <1>0, <1>2 DEF TypeOK, CallsOK, Places, Critical, Materializing
<1>6. epoch' \in [Kids -> 0 .. MaxEpochs] /\ epoch'[k] # 0 /\ \A j \in Kids : j # k => epoch'[j] = epoch[j]
  BY <1>0, <1>1, Kinds DEF TypeOK, GraphOK
<1>7. entry' \in [Kids -> {"none", "resident", "children", "idle", "flush", "release"}]
      /\ watch' \in [Kids -> {"off", "racing", "locking", "parked"}]
  BY <1>2 DEF TypeOK, GraphOK
<1>8. GraphOK'
  BY <1>0, <1>1, <1>4, <1>6, <1>7 DEF TypeOK, GraphOK
<1>9. LoopsOK' /\ TeardownOK'
  BY <1>0 DEF TypeOK, LoopsOK, loops, TeardownOK, teardown
<1>10. entry'[k] # "none" /\ \A j \in Kids : j # k => entry'[j] = entry[j] /\ watch'[j] = watch[j]
  BY <1>1, <1>2 DEF Present, TypeOK, GraphOK
<1>11. \A j \in Kids : Present(j) => Present(j)'
  BY <1>10 DEF Present
<1>12. \A m \in Messages : fate[m] \in {"accepted", "injected"} => To(m)' = To(m)
  BY <1>0, <1>2, ToStays DEF TypeOK, CallsOK
<1>13. entry'[k] = "resident" => watch'[k] # "off"
  BY <1>1, <1>2 DEF Resident, TypeOK, GraphOK
<1>14. ResidencyOK'
  <2>1. \A j \in Kids : (drv'[j] # "idle" => Present(j)') /\ (Resident(j)' => watch'[j] # "off")
    BY <1>0, <1>10, <1>11, <1>13 DEF TypeOK, ResidencyOK, Resident, loops
  <2>2. \A m \in Messages : fate'[m] \in {"accepted", "injected"} => To(m)' \in Kids /\ Present(To(m))'
    <3> SUFFICES ASSUME NEW m \in Messages, fate'[m] \in {"accepted", "injected"}
                 PROVE  To(m)' \in Kids /\ Present(To(m))'
      OBVIOUS
    <3>1. fate[m] \in {"accepted", "injected"}
      BY <1>0 DEF loops
    <3>2. To(m) \in Kids /\ Present(To(m)) /\ To(m)' = To(m)
      BY <1>12, <3>1 DEF TypeOK, ResidencyOK
    <3> QED
      BY <1>10, <3>2 DEF Present
  <2>3. \A j \in owned' \cup announced' : Present(j)'
    <3>1. \A j \in owned' \cup announced' : j \in Kids /\ (j = k \/ j \in owned \cup announced)
      BY <1>0, <1>1, <1>4 DEF TypeOK, GraphOK
    <3> QED
      BY <1>10, <1>11, <3>1 DEF TypeOK, ResidencyOK, Present
  <2> QED
    BY <2>1, <2>2, <2>3 DEF ResidencyOK
<1>15. \A d \in Calls : d # c => stage'[d] = stage[d]
  BY <1>2 DEF TypeOK, CallsOK
<1>16. stage'[c] \in {"submitting", "rollingBack"} /\ stage[c] \in Critical
  BY <1>0, <1>2 DEF TypeOK, CallsOK, Critical, Materializing
<1>17. LockInv'
  <2>1. \A d, e \in Calls :
          d # e /\ target'[d] = target'[e] /\ stage'[d] \in Critical => stage'[e] \notin Critical
    BY <1>0, <1>15, <1>16 DEF LockInv
  <2>2. \A d \in Calls : stage'[d] \in {"creating", "inspecting"} => ~Present(target[d])'
    <3> SUFFICES ASSUME NEW d \in Calls, stage'[d] \in {"creating", "inspecting"}
                 PROVE  ~Present(target[d])'
      OBVIOUS
    <3>1. d # c /\ stage[d] = stage'[d] /\ stage[d] \in Critical
      BY <1>15, <1>16 DEF Critical, Materializing
    <3>2. target[d] # k /\ target[d] \in Kids /\ ~Present(target[d])
      BY <1>16, <3>1 DEF LockInv, TypeOK, CallsOK, k
    <3> QED
      BY <1>0, <1>10, <3>2 DEF Present
  <2>3. \A j \in Kids : Present(j)' => epoch'[j] # 0
    BY <1>6, <1>10 DEF LockInv, Present
  <2> QED
    BY <2>1, <2>2, <2>3 DEF LockInv
<1>18. OwnerInv'
  <2>1. \A j \in owned : j - 1 # k
    BY <1>1 DEF OwnerInv, Present
  <2>2. \A j \in owned : j # 1 /\ j - 1 \in Kids
    BY Kinds DEF OwnerInv, TypeOK, GraphOK
  <2>3. \A j \in owned : j # 1 /\ entry'[j - 1] \in {"resident", "children"}
    BY <1>10, <2>1, <2>2 DEF OwnerInv
  <2>4. k # 1 => k - 1 \in Kids /\ k - 1 # k
    BY <1>1, Kinds
  <2> QED
    BY <1>0, <1>4, <1>10, <2>3, <2>4 DEF OwnerInv, Resident
<1>19. SendInv'
  BY <1>0, <1>2 DEF SendInv, loops, TypeOK, CallsOK
<1>20. BarrierInv'
  <2>1. stage[c] \in Materializing
    BY <1>0 DEF Materializing
  <2> QED
    BY <1>0, <2>1 DEF BarrierInv, Barrier, teardown
<1> QED
  BY <1>5, <1>8, <1>9, <1>14, <1>17, <1>18, <1>19, <1>20 DEF TypeOK

\* reportFrom: the child's message goes to its parent, waking it or not.
LEMMA ReportStep ==
  ASSUME TeardownInv, NEW c \in Calls, NEW k \in Kids, Report(c, k)
  PROVE  TeardownInv'
<1> USE DEF TeardownInv
<1>0. /\ k > 1 /\ Present(k - 1) /\ stage[c] = "new"
      /\ stage' = [stage EXCEPT ![c] = "reported"] /\ target' = [target EXCEPT ![c] = k]
      /\ UNCHANGED <<from, by, graph, watch, teardown>>
  BY DEF Report, Goes
<1>1. /\ k - 1 \in Kids
      /\ \/ fate' = [fate EXCEPT ![Prompt(c)] = "accepted"] /\ drv' = [drv EXCEPT ![k - 1] = Woken(k - 1)]
            /\ poked' = poked \cup {k - 1}
         \/ fate' = [fate EXCEPT ![Prompt(c)] = "injected"] /\ UNCHANGED <<drv, poked>>
  BY <1>0, Kinds DEF Report, Waking
<1>2. CallsOK'
  BY <1>0 DEF TypeOK, CallsOK, Places
<1>3. GraphOK'
  BY <1>0, <1>1 DEF TypeOK, GraphOK, graph
<1>4. drv' \in [Kids -> {"idle", "running", "retiring", "aborted", "latched", "tending", "tendingWoken"}]
  BY <1>1, WokenType DEF TypeOK, LoopsOK
<1>5. fate' \in [Messages -> Fates]
  BY <1>1 DEF TypeOK, LoopsOK, Fates
<1>6. TeardownOK'
  BY <1>0 DEF TypeOK, TeardownOK, teardown
<1>7. \A j : Present(j)' = Present(j) /\ Resident(j)' = Resident(j)
  BY <1>0 DEF Present, Resident, graph
<1>8. \A m \in Messages : m # Prompt(c) /\ fate[m] \in {"accepted", "injected"} => To(m)' = To(m)
  BY <1>0, ToStays DEF TypeOK, CallsOK
<1>9. To(Prompt(c))' = k - 1
  BY <1>0, Prompts DEF To, TypeOK, CallsOK
<1>10. \A m \in Messages : m # Prompt(c) => fate'[m] = fate[m]
  BY <1>1 DEF TypeOK, LoopsOK
<1>11. ResidencyOK'
  <2>1. \A m \in Messages : fate'[m] \in {"accepted", "injected"} => To(m)' \in Kids /\ Present(To(m))'
    BY <1>0, <1>1, <1>7, <1>8, <1>9, <1>10 DEF TypeOK, ResidencyOK
  <2>2. \A j \in Kids : j # k - 1 => drv'[j] = drv[j]
    BY <1>1 DEF TypeOK, LoopsOK
  <2> QED
    BY <1>0, <1>7, <2>1, <2>2 DEF TypeOK, ResidencyOK, graph
<1>12. \A d \in Calls : stage'[d] \in Critical => stage'[d] = stage[d] /\ target'[d] = target[d]
  BY <1>0 DEF Critical, Materializing, TypeOK, CallsOK
<1>13. LockInv'
  BY <1>0, <1>7, <1>12 DEF LockInv, graph, Critical, Materializing
<1>14. OwnerInv'
  BY <1>0 DEF OwnerInv, graph
<1>15. SendInv'
  BY <1>0, <1>1, Prompts DEF SendInv, TypeOK, CallsOK, LoopsOK
<1>16. BarrierInv'
  BY <1>0, <1>7, <1>12 DEF BarrierInv, Barrier, NobodyPresent, teardown, Critical
<1> QED
  BY <1>2, <1>3, <1>4, <1>5, <1>6, <1>11, <1>13, <1>14, <1>15, <1>16 DEF TypeOK, LoopsOK

-----------------------------------------------------------------------------
(* Steps of the agents, the watchers and the disposals *)

\* Drivers go on and watchers look, and nothing else happens.
LEMMA LoopStep ==
  ASSUME TeardownInv, UNCHANGED <<call, graph, fate, teardown>>,
         drv' \in [Kids -> {"idle", "running", "retiring", "aborted", "latched", "tending", "tendingWoken"}],
         watch' \in [Kids -> {"off", "racing", "locking", "parked"}], poked' \subseteq Kids,
         \A k \in Kids : (drv'[k] # "idle" => drv[k] # "idle" \/ Present(k)) /\ (Resident(k) => watch'[k] # "off")
  PROVE  TeardownInv'
<1> USE DEF TeardownInv, call, graph, teardown
<1>1. CallsOK' /\ GraphOK' /\ LoopsOK' /\ TeardownOK'
  BY DEF TypeOK, CallsOK, GraphOK, LoopsOK, TeardownOK
<1>2. \A j : Present(j)' = Present(j) /\ Resident(j)' = Resident(j) /\ To(j)' = To(j)
  BY ToSame DEF Present, Resident
<1>3. ResidencyOK'
  BY <1>2 DEF TypeOK, ResidencyOK
<1>4. LockInv' /\ OwnerInv' /\ SendInv'
  BY <1>2 DEF LockInv, OwnerInv, SendInv
<1>5. BarrierInv'
  BY <1>2 DEF BarrierInv, Barrier, NobodyPresent
<1> QED
  BY <1>1, <1>3, <1>4, <1>5 DEF TypeOK

\* A driver claims what is in its inbox.
LEMMA ClaimStep ==
  ASSUME TeardownInv, NEW k \in Kids, Claim(k)
  PROVE  TeardownInv'
<1> USE DEF TeardownInv, call, graph, teardown
<1>1. \A m \in Messages : fate'[m] = fate[m] \/ (fate[m] # "unsent" /\ fate'[m] = "taken")
  BY DEF Claim, Accepted, Injected
<1>2. fate' \in [Messages -> Fates] /\ poked' \subseteq Kids /\ UNCHANGED <<call, graph, watch, drv, teardown>>
  BY DEF Claim, TypeOK, LoopsOK, GraphOK, Fates
<1>3. CallsOK' /\ GraphOK' /\ LoopsOK' /\ TeardownOK'
  BY <1>2 DEF TypeOK, CallsOK, GraphOK, LoopsOK, TeardownOK
<1>4. \A j : Present(j)' = Present(j) /\ Resident(j)' = Resident(j) /\ To(j)' = To(j)
  BY <1>2, ToSame DEF Present, Resident
<1>5. ResidencyOK'
  BY <1>1, <1>2, <1>4 DEF TypeOK, ResidencyOK
<1>6. LockInv' /\ OwnerInv'
  BY <1>2, <1>4 DEF LockInv, OwnerInv
<1>7. SendInv'
  BY <1>1, <1>2, Prompts DEF SendInv
<1>8. BarrierInv'
  BY <1>2, <1>4 DEF BarrierInv, Barrier, NobodyPresent
<1> QED
  BY <1>3, <1>5, <1>6, <1>7, <1>8 DEF TypeOK

\* A cancel discards what is in an inbox.
LEMMA CancelStep ==
  ASSUME TeardownInv, NEW k \in Kids, Cancel(k)
  PROVE  TeardownInv'
<1> USE DEF TeardownInv, call, graph, teardown
<1>1. \A m \in Messages :
        fate'[m] = fate[m] \/ (fate[m] # "unsent" /\ fate'[m] \in {"taken", "unread"})
  BY DEF Cancel, Accepted, Injected
<1>2. /\ fate' \in [Messages -> Fates] /\ poked' \subseteq Kids /\ UNCHANGED <<call, graph, watch, teardown>>
      /\ Resident(k)
  BY DEF Cancel, TypeOK, LoopsOK, GraphOK, Fates
<1>3. /\ drv' \in [Kids -> {"idle", "running", "retiring", "aborted", "latched", "tending", "tendingWoken"}]
      /\ \A j \in Kids : drv'[j] # "idle" => drv[j] # "idle"
  BY DEF Cancel, AbortedDriver, TypeOK, LoopsOK
<1>4. CallsOK' /\ GraphOK' /\ LoopsOK' /\ TeardownOK'
  BY <1>2, <1>3 DEF TypeOK, CallsOK, GraphOK, LoopsOK, TeardownOK
<1>5. \A j : Present(j)' = Present(j) /\ Resident(j)' = Resident(j) /\ To(j)' = To(j)
  BY <1>2, ToSame DEF Present, Resident
<1>6. ResidencyOK'
  BY <1>1, <1>2, <1>3, <1>5 DEF TypeOK, ResidencyOK
<1>7. LockInv' /\ OwnerInv'
  BY <1>2, <1>5 DEF LockInv, OwnerInv
<1>8. SendInv'
  BY <1>1, <1>2, Prompts DEF SendInv
<1>9. BarrierInv'
  BY <1>2, <1>5 DEF BarrierInv, Barrier, NobodyPresent
<1> QED
  BY <1>4, <1>6, <1>7, <1>8, <1>9 DEF TypeOK

\* A transaction opens; a failed submission, a settled watcher or a drain may
\* be what opens it.
LEMMA DisposeStep ==
  ASSUME TeardownInv, NEW roots \in SUBSET Kids, Dispose(roots),
         CallsOK', TeardownOK', target' = target, host' = host,
         \A c \in Calls : stage'[c] = stage[c] \/ (stage[c] = "submitting" /\ stage'[c] = "undoing"),
         watch' \in [Kids -> {"off", "racing", "locking", "parked"}],
         \A k \in Kids : watch'[k] = watch[k] \/ k \in roots,
         manager' = manager \/ (Barrier /\ manager' = "disposing"),
         scope' = scope \/ scope' = "closing"
  PROVE  TeardownInv'
<1> USE DEF TeardownInv
<1>1. /\ entry' \in [Kids -> {"none", "resident", "children", "idle", "flush", "release"}]
      /\ poked' \subseteq Kids
      /\ LoopsOK'
      /\ UNCHANGED <<epoch, owned, announced>>
  BY DisposeEffect DEF TypeOK
<1>2. \A k \in Kids : entry'[k] = entry[k] \/ (Resident(k) /\ entry'[k] = "children")
  BY DisposeEffect DEF TypeOK
<1>3. \A k \in Kids : Present(k)' = Present(k) /\ (Resident(k)' => Resident(k) /\ k \notin roots)
  BY DisposeEffect DEF TypeOK
<1>4. \A k \in Kids : drv'[k] # "idle" <=> drv[k] # "idle"
  BY DisposeEffect DEF TypeOK
<1>5. \A m \in Messages :
        \/ fate'[m] = fate[m]
        \/ fate[m] \in {"accepted", "injected"} /\ fate'[m] \in {"cleared", "unread"}
  BY DisposeEffect DEF TypeOK
<1>6. GraphOK'
  BY <1>1 DEF TypeOK, GraphOK
<1>7. \A m \in Messages : fate[m] \in {"accepted", "injected"} => To(m)' = To(m)
  BY ToStays
<1>8. ResidencyOK'
  <2>1. \A m \in Messages : fate'[m] \in {"accepted", "injected"} => To(m)' \in Kids /\ Present(To(m))'
    <3> SUFFICES ASSUME NEW m \in Messages, fate'[m] \in {"accepted", "injected"}
                 PROVE  To(m)' \in Kids /\ Present(To(m))'
      OBVIOUS
    <3>1. fate[m] \in {"accepted", "injected"}
      BY <1>5
    <3>2. To(m) \in Kids /\ Present(To(m)) /\ To(m)' = To(m)
      BY <1>7, <3>1 DEF TypeOK, ResidencyOK
    <3>3. To(m) \in Kids /\ entry[To(m)] # "none" /\ entry'[To(m)] # "none"
      BY <1>2, <3>2 DEF Present
    <3> QED
      BY <3>2, <3>3 DEF Present
  <2>2. \A k \in Kids : (drv'[k] # "idle" => Present(k)') /\ (Resident(k)' => watch'[k] # "off")
    BY <1>3, <1>4 DEF TypeOK, ResidencyOK
  <2>3. \A k \in owned' \cup announced' : Present(k)'
    BY <1>1, <1>3 DEF TypeOK, ResidencyOK, GraphOK
  <2> QED
    BY <2>1, <2>2, <2>3 DEF ResidencyOK
<1>9. \A c \in Calls : stage'[c] \in Critical => stage[c] \in Critical
  BY DEF Critical
<1>10. LockInv'
  <2>1. \A c, d \in Calls :
          c # d /\ target'[c] = target'[d] /\ stage'[c] \in Critical => stage'[d] \notin Critical
    BY <1>9 DEF LockInv
  <2>2. \A c \in Calls : stage'[c] \in {"creating", "inspecting"} => ~Present(target[c])'
    <3> SUFFICES ASSUME NEW c \in Calls, stage'[c] \in {"creating", "inspecting"}
                 PROVE  ~Present(target[c])'
      OBVIOUS
    <3>1. target[c] \in Kids /\ ~Present(target[c])
      BY DEF LockInv, TypeOK, CallsOK
    <3> QED
      BY <1>2, <3>1 DEF Present, Resident
  <2> QED
    BY <1>1, <1>3, <2>1, <2>2 DEF LockInv
<1>11. OwnerInv'
  <2>1. \A k \in owned : k # 1 /\ k - 1 \in Kids
    BY Kinds DEF OwnerInv, TypeOK, GraphOK
  <2> QED
    BY <1>1, <1>2, <2>1 DEF OwnerInv
<1>12. SendInv'
  BY <1>5, Prompts DEF SendInv
<1>13. Barrier => Barrier'
  BY DEF Barrier, Materializing
<1>14. NobodyPresent => NobodyPresent'
  BY <1>3 DEF NobodyPresent
<1>15. BarrierInv'
  BY <1>13, <1>14 DEF BarrierInv
<1> QED
  BY <1>1, <1>6, <1>8, <1>10, <1>11, <1>12, <1>15 DEF TypeOK

\* The stages of a disposal before its release.
LEMMA AdvanceStep ==
  ASSUME TeardownInv, NEW k \in Kids,
         NEW before \in {"children", "idle", "flush"}, NEW after \in {"idle", "flush", "release"},
         Advance(k, before, after), before = "children" => k + 1 \notin owned,
         UNCHANGED <<call, epoch, owned, announced, watchers, teardown>>,
         UNCHANGED loops \/ CancelAll({k})
  PROVE  TeardownInv'
<1> USE DEF TeardownInv, call, teardown, watchers
<1>1. entry[k] = before /\ entry' = [entry EXCEPT ![k] = after]
  BY DEF Advance
<1>2. CallsOK' /\ GraphOK' /\ TeardownOK'
  BY <1>1 DEF TypeOK, CallsOK, GraphOK, TeardownOK
<1>3. LoopsOK' /\ \A m \in Messages :
        \/ fate'[m] = fate[m]
        \/ fate[m] \in {"accepted", "injected"} /\ fate'[m] \in {"cleared", "unread"}
  <2>1. CASE UNCHANGED loops
    BY <2>1 DEF TypeOK, LoopsOK, loops
  <2>2. CASE CancelAll({k})
    BY <2>2, ClearedEffect DEF TypeOK, LoopsOK, CancelAll, AbortedDriver
  <2> QED
    BY <2>1, <2>2
<1>4. \A j \in Kids : drv'[j] # "idle" <=> drv[j] # "idle"
  BY DEF loops, CancelAll, AbortedDriver
<1>5. \A j \in Kids : Present(j)' = Present(j) /\ Resident(j)' = Resident(j)
  BY <1>1 DEF Present, Resident, TypeOK, GraphOK
<1>6. \A m : To(m)' = To(m)
  BY ToSame
<1>7. ResidencyOK'
  <2>1. \A m \in Messages : fate'[m] \in {"accepted", "injected"} => To(m)' \in Kids /\ Present(To(m))'
    <3> SUFFICES ASSUME NEW m \in Messages, fate'[m] \in {"accepted", "injected"}
                 PROVE  To(m)' \in Kids /\ Present(To(m))'
      OBVIOUS
    <3>1. fate[m] \in {"accepted", "injected"}
      BY <1>3
    <3>2. To(m) \in Kids /\ entry[To(m)] # "none" /\ To(m)' = To(m)
      BY <1>6, <3>1 DEF TypeOK, ResidencyOK, Present
    <3> QED
      BY <1>1, <3>2 DEF Present, TypeOK, GraphOK
  <2>2. \A j \in owned' \cup announced' : Present(j)'
    BY <1>5 DEF TypeOK, ResidencyOK, GraphOK
  <2> QED
    BY <1>4, <1>5, <2>1, <2>2 DEF TypeOK, ResidencyOK
<1>8. LockInv'
  <2>1. \A c \in Calls : target[c] \in Kids
    BY DEF TypeOK, CallsOK
  <2>2. \A c \in Calls : Present(target[c])' = Present(target[c])
    BY <1>1, <2>1 DEF Present, TypeOK, GraphOK
  <2> QED
    BY <1>5, <2>2 DEF LockInv
<1>9. OwnerInv'
  <2>1. \A j \in owned : j # 1 /\ j - 1 \in Kids
    BY Kinds DEF OwnerInv, TypeOK, GraphOK
  <2>2. \A j \in owned : j - 1 # k
    BY <1>1, Kinds DEF OwnerInv, TypeOK, GraphOK
  <2> QED
    BY <1>1, <2>1, <2>2 DEF OwnerInv, TypeOK, GraphOK
<1>10. SendInv'
  BY <1>3, Prompts DEF SendInv
<1>11. BarrierInv'
  BY <1>5 DEF BarrierInv, Barrier, NobodyPresent
<1> QED
  BY <1>2, <1>3, <1>7, <1>8, <1>9, <1>10, <1>11 DEF TypeOK

\* A released entry is gone, its parent told: the notice goes to an Agent there is.
LEMMA ReleasedStep ==
  ASSUME TeardownInv, NEW k \in Kids, Released(k)
  PROVE  TeardownInv'
<1> USE DEF TeardownInv, call, teardown
<1>1. /\ entry[k] = "release" /\ entry' = [entry EXCEPT ![k] = "none"] /\ drv[k] = "idle"
      /\ owned' = owned \ {k} /\ announced' = announced \ {k}
      /\ UNCHANGED <<call, epoch, watch, teardown>>
  BY DEF Released, Advance
<1>2. Notice(k) \in Messages /\ Notice(k)[1] = k /\ \A c \in Calls : Prompt(c) # Notice(k)
  <2>1. epoch[k] \in Epochs
    BY <1>1, Kinds DEF LockInv, Present, TypeOK, GraphOK, Epochs
  <2> QED
    BY <2>1, Prompts DEF Notice
<1>3. To(Notice(k)) = k - 1
  BY <1>2, Kinds DEF To
<1>4. /\ Told(k) \in {"dropped", "told", "injected", "accepted"}
      /\ Told(k) \in {"injected", "accepted"} => k - 1 \in Kids /\ k - 1 # k /\ Present(k - 1)
  BY Kinds DEF Told, AgentLive
<1>5. /\ drv' \in [Kids -> {"idle", "running", "retiring", "aborted", "latched", "tending", "tendingWoken"}]
      /\ fate' \in [Messages -> Fates] /\ poked' \subseteq Kids
      /\ \A j \in Kids : drv'[j] # "idle" => drv[j] # "idle" \/ (j # k /\ Present(j))
      /\ \A m \in Messages : fate'[m] = Cleared({k})[m] \/ (m = Notice(k) /\ fate'[m] = Told(k))
  <2>1. CASE k \in announced
    <3>1. fate' = [Cleared({k}) EXCEPT ![Notice(k)] = Told(k)]
      BY <2>1 DEF Released
    <3>2. \/ drv' = drv /\ poked' = poked \cup Owners(k)
          \/ /\ Told(k) = "accepted" /\ drv' = [drv EXCEPT ![k - 1] = Woken(k - 1)]
             /\ poked' = poked \cup Owners(k) \cup {k - 1}
      BY <2>1 DEF Released
    <3>3. drv' \in [Kids -> {"idle", "running", "retiring", "aborted", "latched", "tending", "tendingWoken"}]
      BY <1>4, <3>2, WokenType DEF TypeOK, LoopsOK
    <3>4. fate' \in [Messages -> Fates]
      BY <1>2, <1>4, <3>1, ClearedEffect DEF TypeOK, Fates
    <3>5. poked' \subseteq Kids
      BY <1>4, <3>2, Kinds DEF TypeOK, GraphOK, Owners
    <3>6. \A j \in Kids : drv'[j] # "idle" => drv[j] # "idle" \/ (j # k /\ Present(j))
      BY <1>4, <3>2 DEF TypeOK, LoopsOK
    <3>7. \A m \in Messages : fate'[m] = Cleared({k})[m] \/ (m = Notice(k) /\ fate'[m] = Told(k))
      BY <1>2, <3>1, ClearedEffect DEF TypeOK
    <3> QED
      BY <3>3, <3>4, <3>5, <3>6, <3>7
  <2>2. CASE k \notin announced
    <3>1. fate' = Cleared({k}) /\ poked' = poked \cup Owners(k) /\ drv' = drv
      BY <2>2 DEF Released
    <3>2. poked' \subseteq Kids
      BY <3>1, Kinds DEF TypeOK, GraphOK, Owners
    <3> QED
      BY <3>1, <3>2, ClearedEffect DEF TypeOK, LoopsOK
  <2> QED
    BY <2>1, <2>2
<1>6. CallsOK' /\ GraphOK' /\ LoopsOK' /\ TeardownOK'
  BY <1>1, <1>5 DEF TypeOK, CallsOK, GraphOK, LoopsOK, TeardownOK
<1>7. \A j \in Kids : j # k => entry'[j] = entry[j]
  BY <1>1 DEF TypeOK, GraphOK
<1>8. entry'[k] = "none"
  BY <1>1 DEF TypeOK, GraphOK
<1>9. \A m : To(m)' = To(m)
  BY <1>1, ToSame
<1>10. ResidencyOK'
  <2>1. ASSUME NEW m \in Messages, fate'[m] \in {"accepted", "injected"}
        PROVE  To(m)' \in Kids /\ Present(To(m))'
    <3>1. CASE m = Notice(k) /\ fate'[m] = Told(k)
      <4>1. To(m)' = k - 1 /\ k - 1 \in Kids /\ k - 1 # k /\ entry[k - 1] # "none"
        BY <1>3, <1>4, <1>9, <2>1, <3>1 DEF Present
      <4> QED
        BY <1>7, <4>1 DEF Present
    <3>2. CASE fate'[m] = Cleared({k})[m]
      <4>1. fate[m] \in {"accepted", "injected"} /\ m \notin Inbox(k)
        BY <2>1, <3>2, ClearedEffect DEF TypeOK
      <4>2. To(m)' = To(m) /\ To(m) \in Kids /\ entry[To(m)] # "none" /\ To(m) # k
        BY <1>9, <4>1 DEF TypeOK, ResidencyOK, Present, Inbox, Accepted, Injected
      <4> QED
        BY <1>7, <4>2 DEF Present
    <3> QED
      BY <1>5, <3>1, <3>2
  <2>2. \A j \in Kids : drv'[j] # "idle" => j # k /\ Present(j)
    BY <1>1, <1>5 DEF TypeOK, ResidencyOK
  <2>3. \A j \in Kids : (drv'[j] # "idle" => Present(j)') /\ (Resident(j)' => watch'[j] # "off")
    BY <1>1, <1>7, <1>8, <2>2 DEF TypeOK, ResidencyOK, Present, Resident
  <2>4. \A j \in owned' \cup announced' : Present(j)'
    BY <1>1, <1>7 DEF TypeOK, ResidencyOK, GraphOK, Present
  <2> QED
    BY <2>1, <2>3, <2>4 DEF ResidencyOK
<1>11. LockInv'
  <2>1. \A c \in Calls : target[c] \in Kids
    BY DEF TypeOK, CallsOK
  <2>2. \A c \in Calls : Present(target[c])' => Present(target[c])
    BY <1>1, <1>7, <1>8, <2>1 DEF Present
  <2>3. \A j \in Kids : Present(j)' => Present(j)
    BY <1>7, <1>8 DEF Present
  <2> QED
    BY <1>1, <2>2, <2>3 DEF LockInv
<1>12. OwnerInv'
  <2>1. \A j \in owned : j # 1 /\ j - 1 \in Kids /\ j - 1 # k
    BY <1>1, Kinds DEF OwnerInv, TypeOK, GraphOK
  <2> QED
    BY <1>1, <1>7, <2>1 DEF OwnerInv
<1>13. SendInv'
  <2>1. \A c \in Calls : fate[Prompt(c)] = "unsent" => fate'[Prompt(c)] = "unsent"
    BY <1>2, <1>5, Prompts, ClearedEffect DEF TypeOK
  <2> QED
    BY <1>1, <2>1 DEF SendInv
<1>14. NobodyPresent => NobodyPresent'
  BY <1>7, <1>8 DEF NobodyPresent, Present
<1>15. BarrierInv'
  BY <1>1, <1>14 DEF BarrierInv, Barrier
<1> QED
  BY <1>6, <1>10, <1>11, <1>12, <1>13, <1>15 DEF TypeOK

\* The host leaves, and drains begin and return.
LEMMA TeardownStep ==
  ASSUME TeardownInv, UNCHANGED <<call, graph, watchers, loops>>, TeardownOK', BarrierInv'
  PROVE  TeardownInv'
<1> USE DEF TeardownInv, call, graph, watchers, loops
<1>1. CallsOK' /\ GraphOK' /\ LoopsOK'
  BY DEF TypeOK, CallsOK, GraphOK, LoopsOK
<1>2. \A j : Present(j)' = Present(j) /\ Resident(j)' = Resident(j) /\ To(j)' = To(j)
  BY ToSame DEF Present, Resident
<1>3. ResidencyOK' /\ LockInv' /\ OwnerInv' /\ SendInv'
  BY <1>2 DEF TypeOK, ResidencyOK, LockInv, OwnerInv, SendInv
<1> QED
  BY <1>1, <1>3 DEF TypeOK

-----------------------------------------------------------------------------
(* Every step, and the theorems *)

\* A call proceeds.
LEMMA ProceedsStep ==
  ASSUME TeardownInv, NEW c \in Calls, Proceeds(c)
  PROVE  TeardownInv'
<1>1. CASE Prepared(c)
  <2>1. PICK place \in {"queued", "failed"} : Goes(c, place)
    BY <1>1 DEF Prepared
  <2> QED
    BY <1>1, <2>1, GoesStep DEF Prepared, Places, Critical, Materializing
<1>2. CASE Enter(c)
  <2>1. PICK place \in {"creating", "inspecting", "awaiting", "failed"} :
          /\ Goes(c, place)
          /\ place = "creating" => Admitting(c) /\ epoch[target[c]] = 0
          /\ place = "inspecting" => ~Present(target[c])
    BY <1>2 DEF Enter
  <2>2. stage[c] = "queued" /\ Unlocked(target[c]) /\ UNCHANGED <<target, from, by, graph, watchers, loops, teardown>>
    BY <1>2 DEF Enter
  <2>3. place = "creating" => ~Present(target[c])
    BY <2>1 DEF TeardownInv, LockInv, TypeOK, CallsOK
  <2> QED
    BY <2>1, <2>2, <2>3, GoesStep DEF Places, Critical, Materializing
<1>3. CASE EnterLive(c)
  BY <1>3, AcceptsStep DEF EnterLive
<1>4. CASE Awaited(c)
  <2>1. PICK place \in {"queued", "failed"} : Goes(c, place)
    BY <1>4 DEF Awaited
  <2> QED
    BY <1>4, <2>1, GoesStep DEF Awaited, Places, Critical, Materializing
<1>5. CASE Inspected(c)
  <2>1. PICK place \in {"creating", "failed"} : Goes(c, place) /\ (place = "creating" => Admitting(c))
    BY <1>5 DEF Inspected
  <2>2. ~Present(target[c])
    BY <1>5 DEF Inspected, TeardownInv, LockInv
  <2> QED
    BY <1>5, <2>1, <2>2, GoesStep DEF Inspected, Places, Critical, Materializing
<1>6. CASE CreateFails(c)
  BY <1>6, GoesStep DEF CreateFails, Places, Critical, Materializing
<1>7. CASE Created(c)
  BY <1>7, CreatedStep
<1>8. CASE RolledBack(c)
  BY <1>8, GoesStep DEF RolledBack, Places, Critical, Materializing
<1>9. CASE Submitted(c)
  BY <1>9, AcceptsStep DEF Submitted
<1>10. CASE SubmitFails(c)
  <2>1. /\ stage[c] = "submitting" /\ stage' = [stage EXCEPT ![c] = "undoing"] /\ Dispose({target[c]})
        /\ UNCHANGED <<target, from, by, watch, teardown>>
    BY <1>10 DEF SubmitFails, Goes
  <2>2. {target[c]} \in SUBSET Kids /\ CallsOK' /\ TeardownOK' /\ watch' \in [Kids -> {"off", "racing", "locking", "parked"}]
    BY <2>1 DEF TeardownInv, TypeOK, CallsOK, GraphOK, TeardownOK, teardown, Places, Critical, Materializing
  <2>3. \A d \in Calls : stage'[d] = stage[d] \/ (stage[d] = "submitting" /\ stage'[d] = "undoing")
    BY <2>1 DEF TeardownInv, TypeOK, CallsOK
  <2> QED
    BY <2>1, <2>2, <2>3, DisposeStep DEF teardown
<1>11. CASE Undone(c)
  BY <1>11, GoesStep DEF Undone, Places, Critical, Materializing
<1> QED
  BY <1>1, <1>2, <1>3, <1>4, <1>5, <1>6, <1>7, <1>8, <1>9, <1>10, <1>11 DEF Proceeds

\* An agent, its watcher or its disposal takes a step.
LEMMA ChildStep ==
  ASSUME TeardownInv, NEW k \in Kids, Agent(k) \/ Watcher(k) \/ Disposal(k) \/ Interrupt(k) \/ Cancel(k) \/ Maintain(k)
  PROVE  TeardownInv'
<1> USE DEF call, graph, watchers, loops
<1>0. GraphOK /\ LoopsOK /\ ResidencyOK
  BY DEF TeardownInv, TypeOK
<1>1. CASE Claim(k)
  BY <1>1, ClaimStep
<1>2. CASE Stop(k) \/ Retire(k) \/ Interrupt(k) \/ Maintain(k)
  BY <1>0, <1>2, LoopStep DEF Stop, Retire, Interrupt, Maintain, Resident, Present, GraphOK, LoopsOK, ResidencyOK
<1>3. CASE WatcherRaces(k) \/ WatcherWaits(k) \/ WatcherPoked(k)
  BY <1>0, <1>3, LoopStep DEF WatcherRaces, WatcherWaits, WatcherPoked, Observes, GraphOK, LoopsOK, ResidencyOK
<1>4. CASE WatcherSettles(k)
  <2>1. watch' = [watch EXCEPT ![k] = "off"] /\ Dispose({k}) /\ UNCHANGED <<call, teardown>>
    BY <1>4 DEF WatcherSettles
  <2>2. /\ {k} \in SUBSET Kids /\ CallsOK' /\ TeardownOK' /\ watch' \in [Kids -> {"off", "racing", "locking", "parked"}]
        /\ \A j \in Kids : watch'[j] = watch[j] \/ j \in {k}
    BY <2>1 DEF TeardownInv, TypeOK, CallsOK, GraphOK, TeardownOK, teardown
  <2> QED
    BY <2>1, <2>2, DisposeStep DEF teardown
<1>5. CASE ChildrenReleased(k) \/ Quiesced(k) \/ HandleDisposed(k)
  BY <1>5, AdvanceStep DEF ChildrenReleased, Quiesced, HandleDisposed
<1>6. CASE Released(k)
  BY <1>6, ReleasedStep
<1>7. CASE Cancel(k)
  BY <1>7, CancelStep
<1> QED
  BY <1>1, <1>2, <1>3, <1>4, <1>5, <1>6, <1>7 DEF Agent, Watcher, Disposal

\* A drain, of everything or of the host's descendants, and the host's end.
LEMMA DrainStep ==
  ASSUME TeardownInv, Drains \/ DrainCalled \/ ScopeCloses \/ HostLeaves
  PROVE  TeardownInv'
<1> USE DEF call, graph, watchers, loops
<1>0. CallsOK /\ GraphOK /\ TeardownOK /\ BarrierInv
  BY DEF TeardownInv, TypeOK
<1>1. CASE DrainCalled \/ DrainReturns \/ ScopeReturns \/ HostLeaves
  <2>1. /\ UNCHANGED <<call, graph, watchers, loops>>
        /\ TeardownOK'
    BY <1>0, <1>1 DEF DrainCalled, DrainReturns, ScopeReturns, HostLeaves, TeardownOK
  <2>2. Barrier' = Barrier /\ NobodyPresent' = NobodyPresent
    BY <2>1 DEF Barrier, NobodyPresent, Present
  <2>3. BarrierInv'
    BY <1>0, <1>1, <2>2 DEF DrainCalled, DrainReturns, ScopeReturns, ScopeBarrier, HostLeaves, BarrierInv
  <2> QED
    BY <2>1, <2>3, TeardownStep
<1>2. CASE DrainDisposes
  <2> DEFINE roots == {k \in Kids : Present(k) /\ k \notin owned}
  <2>1. /\ Barrier /\ manager' = "disposing" /\ Dispose(roots)
        /\ UNCHANGED <<call, watch, host, scope, members>>
    BY <1>2 DEF DrainDisposes
  <2>2. roots \in SUBSET Kids /\ CallsOK' /\ TeardownOK'
    BY <1>0, <2>1 DEF CallsOK, TeardownOK
  <2> HIDE DEF roots
  <2> QED
    BY <1>0, <2>1, <2>2, DisposeStep DEF GraphOK
<1>3. CASE ScopeCloses
  <2> DEFINE roots == {k \in Kids : Present(k)}
  <2>1. /\ scope' = "closing" /\ Dispose(roots)
        /\ UNCHANGED <<call, watch, host, manager>>
    BY <1>3 DEF ScopeCloses
  <2>2. members' = {<<k, epoch[k]>> : k \in {j \in Kids : Present(j)}}
                     \cup {Caller(c) : c \in {d \in Calls : stage[d] \in Materializing}}
    BY <1>3 DEF ScopeCloses
  <2>3. \A k \in Kids : <<k, epoch[k]>> \in (0 .. Depth) \X (0 .. MaxEpochs)
    BY <1>0, Kinds DEF GraphOK, Kids
  <2>4. \A c \in Calls : Caller(c) \in (0 .. Depth) \X (0 .. MaxEpochs)
    BY <1>0, Kinds DEF CallsOK, Caller, Kids
  <2>5. members' \subseteq (0 .. Depth) \X (0 .. MaxEpochs)
    BY <2>2, <2>3, <2>4
  <2>6. roots \in SUBSET Kids /\ CallsOK' /\ TeardownOK'
    BY <1>0, <2>1, <2>5 DEF CallsOK, TeardownOK
  <2> HIDE DEF roots
  <2> QED
    BY <1>0, <2>1, <2>6, DisposeStep DEF GraphOK
<1> QED
  BY <1>1, <1>2, <1>3 DEF Drains

\* Every action of the module keeps the invariant.
LEMMA NextStep ==
  ASSUME TeardownInv, [Next]_vars
  PROVE  TeardownInv'
<1>1. CASE UNCHANGED vars
  <2>1. UNCHANGED <<call, graph, watchers, loops, teardown>>
    BY <1>1 DEF vars
  <2>2. TeardownOK'
    BY <2>1 DEF TeardownInv, TypeOK, TeardownOK, teardown
  <2>3. BarrierInv'
    BY <2>1 DEF TeardownInv, BarrierInv, Barrier, NobodyPresent, Present, teardown, call, graph
  <2> QED
    BY <2>1, <2>2, <2>3, TeardownStep
<1>2. ASSUME NEW c \in Calls, NEW k \in Kids, StartCalled(c, k) \/ FollowupCalled(c, k)
      PROVE  TeardownInv'
  BY <1>2, CalledStep DEF StartCalled, FollowupCalled
<1>3. ASSUME NEW c \in Calls, NEW k \in Kids, Report(c, k)
      PROVE  TeardownInv'
  BY <1>3, ReportStep
<1> QED
  BY <1>1, <1>2, <1>3, ProceedsStep, ChildStep, DrainStep DEF Next, Callers, Internal

\* The invariant holds to begin with.
LEMMA Beginning == Init => TeardownInv
<1> SUFFICES ASSUME Init PROVE TeardownInv
  OBVIOUS
<1>1. TypeOK
  BY Kinds DEF Init, TypeOK, CallsOK, GraphOK, LoopsOK, TeardownOK, ResidencyOK, Places, Fates, Resident
<1>2. LockInv /\ OwnerInv /\ BarrierInv
  BY DEF Init, LockInv, OwnerInv, BarrierInv, Critical, Materializing, Present
<1>3. SendInv
  BY Prompts DEF Init, SendInv
<1> QED
  BY <1>1, <1>2, <1>3 DEF TeardownInv

\* The locks, the ownership and the barriers of the manager keep what TeardownInv
\* says of them, in every behaviour.
THEOREM TeardownInvariant == Spec => []TeardownInv
<1>1. Init => TeardownInv
  BY Beginning
<1>2. TeardownInv /\ [Next]_vars => TeardownInv'
  BY NextStep
<1> QED
  BY <1>1, <1>2, PTL DEF Spec

\* SubagentContinuationManager: only a child with a place in activations is
\* owned, announced, driven or waited on by a message, and a resident one has its
\* settlement watcher.
THEOREM TypeCorrect == Spec => []TypeOK
<1>1. TeardownInv => TypeOK
  BY DEF TeardownInv
<1> QED
  BY <1>1, TeardownInvariant, PTL

\* finishDisposal, drain, drainDescendants: an Activation is released after those
\* it owns; a drain that returned left nothing, and nothing comes back.
THEOREM TeardownKeepsOrder == Spec => []TeardownInOrder
<1>1. TeardownInv => TeardownInOrder
  <2> SUFFICES ASSUME TeardownInv PROVE TeardownInOrder
    OBVIOUS
  <2>1. announced \subseteq Kids /\ owned \subseteq Kids
    BY DEF TeardownInv, TypeOK, GraphOK
  <2>2. \A k \in announced : k > 1 => Present(k - 1)
    BY <2>1, Kinds DEF TeardownInv, OwnerInv, Present
  <2>3. \A k \in owned : k > 1 => entry[k - 1] \in {"resident", "children"}
    BY DEF TeardownInv, OwnerInv
  <2> QED
    BY <2>2, <2>3 DEF TeardownInv, BarrierInv, TeardownInOrder
<1> QED
  BY <1>1, TeardownInvariant, PTL

-----------------------------------------------------------------------------
(* What was accepted *)

\* Nothing that was accepted is lost by a step that answers these conditions.
LEMMA NothingLost ==
  ASSUME AcceptedIsKept, Quiet' => Quiet, host = "gone" => host' = "gone",
         \A m \in Messages : fate'[m] = "unsent" => fate[m] = "unsent",
         Quiet' => \A m \in Messages : fate'[m] = "cleared" => fate[m] = "cleared",
         \A n \in Kids \X Epochs :
           fate'[n] = "dropped" => fate[n] = "dropped" \/ (n[1] = 1 /\ host' = "gone"),
         \A c \in Calls : stage'[c] = "done" =>
           \/ stage[c] = "done" /\ target'[c] = target[c] /\ by'[c] = by[c]
           \/ target'[c] \in announced' /\ epoch'[target'[c]] = by'[c],
         \A k \in announced :
           \/ k \in announced' /\ epoch'[k] = epoch[k]
           \/ epoch[k] # 0 /\ fate'[<<k, epoch[k]>>] # "unsent",
         CallsOK
  PROVE  AcceptedIsKept'
<1>1. \A m \in Messages : fate'[m] = "cleared" => ~Quiet'
  BY DEF AcceptedIsKept, Quiet
<1>2. \A n \in Kids \X Epochs : fate'[n] = "dropped" => n[1] = 1 /\ host' = "gone"
  BY DEF AcceptedIsKept
<1>3. ASSUME NEW c \in Calls, stage'[c] = "done"
      PROVE  \/ target'[c] \in announced' /\ epoch'[target'[c]] = by'[c]
             \/ by'[c] # 0 /\ fate'[<<target'[c], by'[c]>>] # "unsent"
  <2>1. CASE target'[c] \in announced' /\ epoch'[target'[c]] = by'[c]
    BY <2>1
  <2>2. CASE stage[c] = "done" /\ target'[c] = target[c] /\ by'[c] = by[c]
    <3>1. CASE target[c] \in announced /\ epoch[target[c]] = by[c]
      BY <2>2, <3>1
    <3>2. CASE by[c] # 0 /\ fate[<<target[c], by[c]>>] # "unsent"
      <4>1. target[c] \in Kids /\ by[c] \in Epochs
        BY <3>2, Kinds DEF CallsOK, Epochs
      <4>2. <<target[c], by[c]>> \in Messages
        BY <4>1, Prompts
      <4> QED
        BY <2>2, <3>2, <4>2
    <3> QED
      BY <2>2, <3>1, <3>2 DEF AcceptedIsKept
  <2> QED
    BY <1>3, <2>1, <2>2
<1> QED
  BY <1>1, <1>2, <1>3 DEF AcceptedIsKept, Quiet

\* A step that wakes nobody, sends nothing and lets nobody own more.
LEMMA FrameStep ==
  ASSUME TeardownInv, KeepInv, Quiet' => Quiet, host = "gone" => host' = "gone",
         UNCHANGED <<epoch, owned, announced>>,
         \A c \in Calls : stage'[c] = "submitting" => stage[c] = "submitting" /\ target'[c] = target[c],
         \A c \in Calls, k \in Kids :
           stage[c] = "submitting" /\ target[c] = k => stage'[c] = "submitting" \/ ~Resident(k)',
         \A c \in Calls : stage[c] \in {"done", "reported"} => target'[c] = target[c] /\ stage'[c] = stage[c],
         \A c \in Calls : stage'[c] = "done" => stage[c] = "done" /\ by'[c] = by[c],
         \A k \in Kids : drv'[k] \notin {"idle", "tending"} => drv[k] \notin {"idle", "tending"},
         \A k \in Kids : Resident(k)' => Resident(k),
         Quiet' => \A k \in Kids : Resident(k) /\ ~Resident(k)' => k + 1 \notin owned /\ Accepted(k) = {},
         \A m \in Messages :
           \/ fate'[m] = fate[m]
           \/ /\ fate[m] # "unsent" /\ fate'[m] \in {"taken", "unread", "cleared"}
              /\ fate'[m] = "cleared" => ~Quiet'
  PROVE  KeepInv'
<1> USE DEF TeardownInv, KeepInv
<1>0. CallsOK
  BY DEF TypeOK
<1>1. \A k : Submitting(k)' => Submitting(k)
  BY DEF Submitting
<1>2. \A k : Accepted(k)' \subseteq Accepted(k)
  BY ToStays DEF Accepted
<1>3. SubmittingInv'
  <2>1. ASSUME NEW k \in Kids, k # 1, Resident(k)'
        PROVE  k \in owned' \/ Submitting(k)'
    <3>1. k \in owned \/ Submitting(k)
      BY <2>1 DEF SubmittingInv
    <3>2. ASSUME NEW c \in Calls, stage[c] = "submitting", target[c] = k
          PROVE  Submitting(k)'
      <4>1. stage'[c] = "submitting"
        BY <2>1, <3>2
      <4> QED
        BY <3>2, <4>1 DEF Submitting
    <3> QED
      BY <3>1, <3>2 DEF Submitting
  <2>2. \A k \in Kids : k # 1 /\ Submitting(k)' => drv'[k] \in {"idle", "tending"}
    BY <1>1 DEF SubmittingInv
  <2> QED
    BY <2>1, <2>2 DEF SubmittingInv
<1>4. UnburdenedInv'
  BY <1>1, <1>2 DEF UnburdenedInv
<1>5. AcceptedIsKept'
  <2>1. Kids \X Epochs \subseteq Messages
    BY DEF Messages
  <2>2. \A c \in Calls : stage'[c] = "done" => stage[c] = "done" /\ target'[c] = target[c] /\ by'[c] = by[c]
    OBVIOUS
  <2>3. /\ \A m \in Messages : fate'[m] = "unsent" => fate[m] = "unsent"
        /\ \A m \in Messages : fate'[m] = "dropped" => fate[m] = "dropped"
        /\ Quiet' => \A m \in Messages : fate'[m] = "cleared" => fate[m] = "cleared"
    OBVIOUS
  <2>4. announced' = announced /\ epoch' = epoch
    OBVIOUS
  <2> QED
    BY <1>0, <2>1, <2>2, <2>3, <2>4, NothingLost
<1> QED
  BY <1>3, <1>4, <1>5

\* A cancel that meets no accepted message discards none.
LEMMA NothingCleared ==
  ASSUME NEW kids, \A k \in kids : Accepted(k) = {}
  PROVE  \A m \in Messages :
           Cleared(kids)[m] = fate[m] \/ (fate[m] = "injected" /\ Cleared(kids)[m] = "unread")
BY DEF Cleared, Inbox, Accepted, Injected

\* A transaction that opens on an Activation that owns nobody is its own alone.
LEMMA LoneDispose ==
  ASSUME GraphOK, LoopsOK, NEW k \in Kids, Dispose({k}), k + 1 \notin owned, Accepted(k) = {}
  PROVE  /\ \A j \in Kids : Resident(j) /\ ~Resident(j)' => j = k
         /\ \A m \in Messages : fate'[m] = fate[m] \/ (fate[m] = "injected" /\ fate'[m] = "unread")
<1> DEFINE opened == {j \in UNION {Chain(r) : r \in {k}} : Resident(j)}
<1>1. opened \subseteq {k}
  <2>1. k \in Nat /\ Depth \in Nat
    BY Kinds
  <2>2. ASSUME NEW j \in k .. Depth, \A i \in (k + 1) .. j : i \in owned
        PROVE  j = k
    <3>1. CASE j > k
      BY <2>1, <2>2, <3>1
    <3>2. CASE ~(j > k)
      BY <2>1, <3>2
    <3> QED
      BY <3>1, <3>2
  <2> QED
    BY <2>2 DEF Chain
<1>2. entry' = [j \in Kids |-> IF j \in opened THEN "children" ELSE entry[j]] /\ fate' = Cleared(opened)
  BY DEF Dispose, CancelAll
<1> HIDE DEF opened
<1>3. \A j \in Kids : Resident(j) /\ ~Resident(j)' => j = k
  BY <1>1, <1>2 DEF Resident
<1>4. \A j \in opened : Accepted(j) = {}
  BY <1>1
<1> QED
  BY <1>2, <1>3, <1>4, NothingCleared

\* An Agent, its watcher and its disposal keep what was accepted.
LEMMA ChildKeeps ==
  ASSUME TeardownInv, KeepInv, NEW k \in Kids,
         Agent(k) \/ Watcher(k) \/ ChildrenReleased(k) \/ Quiesced(k) \/ HandleDisposed(k)
           \/ Interrupt(k) \/ Cancel(k) \/ Maintain(k)
  PROVE  KeepInv'
<1> USE DEF call, graph, watchers, loops, teardown
<1>0. /\ GraphOK /\ LoopsOK /\ UNCHANGED <<call, epoch, owned, announced, teardown>>
      /\ SubmittingInv /\ UnburdenedInv
  BY DEF TeardownInv, KeepInv, TypeOK, Agent, Claim, Stop, Retire, Watcher, WatcherRaces, WatcherSettles,
         WatcherWaits, WatcherPoked, Dispose, ChildrenReleased, Quiesced, HandleDisposed, Interrupt, Cancel, Maintain
<1>1. Quiet' = Quiet
  BY <1>0 DEF Quiet
<1>2. CASE \/ Agent(k) \/ WatcherRaces(k) \/ WatcherWaits(k) \/ WatcherPoked(k)
           \/ Interrupt(k) \/ Cancel(k) \/ Maintain(k)
  <2>1. UNCHANGED entry /\ \A j : Resident(j)' = Resident(j)
    BY <1>2 DEF Agent, Claim, Stop, Retire, WatcherRaces, WatcherWaits, WatcherPoked, Interrupt, Cancel, Maintain, Resident
  <2>2. \A j \in Kids : drv'[j] \notin {"idle", "tending"} => drv[j] \notin {"idle", "tending"}
    BY <1>0, <1>2 DEF Agent, Claim, Stop, Retire, WatcherRaces, WatcherWaits, WatcherPoked, Interrupt, Cancel,
                      AbortedDriver, Maintain, LoopsOK
  <2>3. \A m \in Messages : fate'[m] = fate[m] \/ (fate[m] # "unsent" /\ fate'[m] \in {"taken", "unread"})
    BY <1>2 DEF Agent, Claim, Stop, Retire, WatcherRaces, WatcherWaits, WatcherPoked, Interrupt, Cancel, Maintain,
                Accepted, Injected
  <2> QED
    BY <1>0, <1>1, <2>1, <2>2, <2>3, FrameStep
<1>3. CASE WatcherSettles(k)
  <2>1. Dispose({k}) /\ Unlocked(k) /\ Resident(k) /\ Accepted(k) = {} /\ k + 1 \notin owned
    BY <1>3 DEF WatcherSettles, Settled, Running
  <2>2. /\ \A j \in Kids : Resident(j) /\ ~Resident(j)' => j = k
        /\ \A m \in Messages : fate'[m] = fate[m] \/ (fate[m] = "injected" /\ fate'[m] = "unread")
    BY <1>0, <2>1, LoneDispose
  <2>3. /\ \A j \in Kids : Resident(j)' => Resident(j)
        /\ \A j \in Kids : drv'[j] \notin {"idle", "tending"} => drv[j] \notin {"idle", "tending"}
    BY <1>0, <2>1, DisposeEffect
  <2> QED
    BY <1>0, <1>1, <2>1, <2>2, <2>3, FrameStep
<1>4. CASE ChildrenReleased(k) \/ Quiesced(k) \/ HandleDisposed(k)
  <2>1. PICK before \in {"children", "idle", "flush"}, after \in {"idle", "flush", "release"} :
          Advance(k, before, after)
    BY <1>4 DEF ChildrenReleased, Quiesced, HandleDisposed
  <2>2. UNCHANGED loops \/ CancelAll({k})
    BY <1>4 DEF ChildrenReleased, Quiesced, HandleDisposed
  <2>3. ~Resident(k) /\ \A j \in Kids : Resident(j)' = Resident(j)
    BY <1>0, <2>1 DEF Advance, Resident, GraphOK
  <2>4. \A j \in Kids : drv'[j] \notin {"idle", "tending"} => drv[j] \notin {"idle", "tending"}
    BY <1>0, <2>2 DEF CancelAll, AbortedDriver, LoopsOK
  <2>5. Quiet => Accepted(k) = {}
    BY <1>0, <2>3 DEF UnburdenedInv
  <2>6. \A m \in Messages :
          \/ fate'[m] = fate[m]
          \/ /\ fate[m] # "unsent" /\ fate'[m] \in {"unread", "cleared"}
             /\ fate'[m] = "cleared" => ~Quiet
    <3>1. CASE UNCHANGED loops
      BY <3>1
    <3>2. CASE CancelAll({k}) /\ Quiet
      BY <2>5, <3>2, NothingCleared DEF CancelAll
    <3>3. CASE CancelAll({k}) /\ ~Quiet
      BY <1>0, <3>3, ClearedEffect DEF CancelAll
    <3> QED
      BY <2>2, <3>1, <3>2, <3>3
  <2> QED
    BY <1>0, <1>1, <2>3, <2>4, <2>6, FrameStep
<1> QED
  BY <1>2, <1>3, <1>4 DEF Watcher

\* A drain cuts off what it cuts off; until it begins nothing is lost.
LEMMA DrainKeeps ==
  ASSUME TeardownInv, KeepInv, Drains \/ DrainCalled \/ ScopeCloses \/ HostLeaves
  PROVE  KeepInv'
<1> USE DEF call, graph, watchers, loops
<1>0. /\ GraphOK /\ LoopsOK /\ UNCHANGED <<call, epoch, owned, announced>>
      /\ Quiet' => Quiet
      /\ host = "gone" => host' = "gone"
  BY DEF TeardownInv, TypeOK, Drains, DrainDisposes, DrainReturns, ScopeReturns, DrainCalled, ScopeCloses, HostLeaves,
         Dispose, Quiet
<1>1. CASE DrainReturns \/ ScopeReturns \/ DrainCalled \/ HostLeaves
  <2>1. UNCHANGED <<entry, loops>> /\ \A k : Resident(k)' = Resident(k)
    BY <1>1 DEF DrainReturns, ScopeReturns, DrainCalled, HostLeaves, Resident
  <2> QED
    BY <1>0, <2>1, FrameStep
<1>2. CASE DrainDisposes \/ ScopeCloses
  <2>1. PICK roots \in SUBSET Kids : Dispose(roots)
    <3>1. {k \in Kids : Present(k) /\ k \notin owned} \in SUBSET Kids /\ {k \in Kids : Present(k)} \in SUBSET Kids
      OBVIOUS
    <3> QED
      BY <1>2, <3>1 DEF DrainDisposes, ScopeCloses
  <2>2. ~Quiet'
    BY <1>2 DEF DrainDisposes, ScopeCloses, Quiet
  <2>3. /\ \A k \in Kids : Resident(k)' => Resident(k)
        /\ \A k \in Kids : drv'[k] \notin {"idle", "tending"} => drv[k] \notin {"idle", "tending"}
        /\ \A m \in Messages :
             \/ fate'[m] = fate[m]
             \/ fate[m] \in {"accepted", "injected"} /\ fate'[m] \in {"cleared", "unread"}
    BY <1>0, <2>1, DisposeEffect
  <2> QED
    BY <1>0, <2>2, <2>3, FrameStep
<1> QED
  BY <1>1, <1>2 DEF Drains

\* A call that only moves on keeps what was accepted.
LEMMA MoveKeeps ==
  ASSUME TeardownInv, KeepInv, NEW c \in Calls, NEW place \in Places \ {"done", "reported", "submitting"},
         Goes(c, place), stage[c] \notin {"done", "reported", "submitting"},
         \A d \in Calls : d # c => target'[d] = target[d],
         UNCHANGED <<by, graph, watchers, loops, teardown>>
  PROVE  KeepInv'
<1>1. stage' = [stage EXCEPT ![c] = place]
  BY DEF Goes
<1>2. stage'[c] = place /\ \A d \in Calls : d # c => stage'[d] = stage[d]
  BY <1>1 DEF TeardownInv, TypeOK, CallsOK
<1>3. Quiet' = Quiet /\ \A k : Resident(k)' = Resident(k)
  BY DEF Quiet, Resident, teardown, graph
<1> QED
  BY <1>2, <1>3, FrameStep DEF graph, loops, teardown

\* An accepted message goes to an Activation its parent owns, which is neither
\* closing nor still to be submitted to.
LEMMA AcceptsKeeps ==
  ASSUME TeardownInv, KeepInv, NEW c \in Calls, Accepts(c),
         stage[c] = "submitting" \/ (stage[c] = "queued" /\ Unlocked(target[c]))
  PROVE  KeepInv'
<1> USE DEF TeardownInv, KeepInv
<1>1. PICK k \in Kids : k = target[c]
  BY DEF TypeOK, CallsOK
<1>2. /\ stage' = [stage EXCEPT ![c] = "done"]
      /\ owned' = Acquired(k) /\ announced' = announced \cup {k}
      /\ fate' = [fate EXCEPT ![Prompt(c)] = "accepted"] /\ drv' = [drv EXCEPT ![k] = Woken(k)]
      /\ by' = [by EXCEPT ![c] = epoch[k]]
      /\ UNCHANGED <<target, epoch, entry, teardown>>
  BY <1>1 DEF Accepts, Goes, Waking
<1>3. Resident(k) /\ (k = 1 \/ (k - 1 \in Kids /\ Resident(k - 1)))
  <2>1. Resident(k) /\ AgentLive(k - 1, from[c]) /\ Ownable(k)
    BY <1>1 DEF Accepts, MayAccept, Authorized, Caller
  <2>2. k # 1 => k > 1 /\ k - 1 # 0 /\ k - 1 \in Kids
    BY Kinds
  <2> QED
    BY <2>1, <2>2 DEF AgentLive, Ownable, Present, Resident
<1>4. owned' = IF k = 1 THEN owned ELSE owned \cup {k}
  BY <1>2, <1>3, Kinds DEF Acquired
<1>5. /\ stage'[c] = "done" /\ \A d \in Calls : d # c => stage'[d] = stage[d]
      /\ \A j : Resident(j)' = Resident(j)
      /\ Quiet' = Quiet
  BY <1>2 DEF TypeOK, CallsOK, Resident, Quiet, teardown
<1>6. \A d \in Calls : d # c /\ stage[d] = "submitting" => target[d] # k
  BY <1>1 DEF SubmittingInv, Unlocked, Critical
<1>7. \A j : Submitting(j)' => Submitting(j) /\ j # k
  BY <1>2, <1>5, <1>6 DEF Submitting
<1>8. SubmittingInv'
  <2>1. ASSUME NEW j \in Kids, j # 1, Resident(j)'
        PROVE  j \in owned' \/ Submitting(j)'
    <3>1. CASE j = k
      BY <1>4, <2>1, <3>1
    <3>2. CASE j # k
      BY <1>1, <1>2, <1>4, <1>5, <2>1, <3>2 DEF SubmittingInv, Submitting
    <3> QED
      BY <3>1, <3>2
  <2>2. \A j \in Kids : j # 1 /\ Submitting(j)' => drv'[j] \in {"idle", "tending"}
    BY <1>2, <1>7 DEF SubmittingInv, TypeOK, LoopsOK
  <2> QED
    BY <1>5, <2>1, <2>2 DEF SubmittingInv
<1>9. \A j \in Kids : j # k => Accepted(j)' \subseteq Accepted(j)
  <2>1. \A m \in Messages : m # Prompt(c) => fate'[m] = fate[m]
    BY <1>2 DEF TypeOK, LoopsOK
  <2>2. \A m \in Messages : m # Prompt(c) /\ fate[m] = "accepted" => To(m)' = To(m)
    BY <1>2, <1>5, ToStays
  <2>3. To(Prompt(c))' = k
    BY <1>1, <1>2, <1>5, Prompts DEF To
  <2> QED
    BY <2>1, <2>2, <2>3 DEF Accepted
<1>10. UnburdenedInv'
  <2> SUFFICES ASSUME Quiet, NEW j \in Kids, ~Resident(j) \/ Submitting(j)'
               PROVE  j + 1 \notin owned' /\ Accepted(j)' = {}
    BY <1>5 DEF UnburdenedInv
  <2>1. j # k /\ j + 1 \notin owned /\ Accepted(j) = {}
    BY <1>3, <1>7 DEF UnburdenedInv
  <2>2. ASSUME k # 1, j + 1 = k PROVE FALSE
    <3>1. j = k - 1 /\ Submitting(j)'
      BY <1>3, <2>2, Kinds
    <3>2. k \in owned \/ Submitting(k)
      BY <1>3, <2>2 DEF SubmittingInv
    <3>3. PICK d \in Calls : d # c /\ stage[d] = "submitting" /\ target[d] = j
      BY <1>2, <1>5, <3>1 DEF Submitting
    <3>4. Submitting(k)
      BY <2>1, <2>2, <3>2
    <3> QED
      BY <2>1, <3>3, <3>4 DEF Submitting, SubmittingInv
  <2> QED
    BY <1>4, <1>9, <2>1, <2>2
<1>11. AcceptedIsKept'
  <2>1. Kids \X Epochs \subseteq Messages /\ CallsOK
    BY DEF Messages, TypeOK
  <2>2. \A m \in Messages : fate'[m] = fate[m] \/ fate'[m] = "accepted"
    BY <1>2 DEF TypeOK, LoopsOK
  <2>3. \A d \in Calls : stage'[d] = "done" =>
          \/ stage[d] = "done" /\ target'[d] = target[d] /\ by'[d] = by[d]
          \/ target'[d] \in announced' /\ epoch'[target'[d]] = by'[d]
    <3>1. /\ by'[c] = epoch[k] /\ target'[c] = k /\ k \in announced' /\ epoch' = epoch
          /\ \A d \in Calls : d # c => by'[d] = by[d]
      BY <1>1, <1>2 DEF TypeOK, CallsOK
    <3> QED
      BY <1>2, <1>5, <3>1
  <2>4. host' = host /\ epoch' = epoch /\ announced \subseteq announced'
    BY <1>2 DEF teardown
  <2> QED
    BY <1>5, <2>1, <2>2, <2>3, <2>4, NothingLost
<1> QED
  BY <1>8, <1>10, <1>11

\* A new Activation owns nobody, and nothing waits for it.
LEMMA CreatedKeeps ==
  ASSUME TeardownInv, KeepInv, NEW c \in Calls, Created(c)
  PROVE  KeepInv'
<1> USE DEF TeardownInv, KeepInv
<1>1. PICK k \in Kids : k = target[c]
  BY DEF TypeOK, CallsOK
<1>2. /\ stage[c] = "creating" /\ \A d \in Calls : stage[d] # "submitting"
      /\ announced' = announced \ {k}
      /\ epoch' = [epoch EXCEPT ![k] = @ + 1]
      /\ UNCHANGED <<target, by, loops, teardown>>
  BY <1>1 DEF Created
<1>3. \/ /\ stage' = [stage EXCEPT ![c] = "submitting"] /\ entry' = [entry EXCEPT ![k] = "resident"]
         /\ owned' = Acquired(k)
      \/ /\ stage' = [stage EXCEPT ![c] = "rollingBack"] /\ entry' = [entry EXCEPT ![k] = "release"]
         /\ owned' = owned
  BY <1>1 DEF Created, Goes
<1>4. ~Present(k) /\ ~Resident(k) /\ drv[k] = "idle" /\ k \notin announced
  BY <1>1, <1>2 DEF LockInv, TypeOK, ResidencyOK, Present, Resident
<1>5. owned' = owned \/ (owned' = owned \cup {k} /\ Resident(k - 1) /\ k # 1 /\ k - 1 \in Kids)
  BY <1>3, Kinds DEF Acquired
<1>6. \A j \in Kids : j # k => Resident(j)' = Resident(j)
  BY <1>3 DEF Resident, TypeOK, GraphOK
<1>7. \A d \in Calls : stage'[d] = "submitting" => d = c
  BY <1>2, <1>3 DEF TypeOK, CallsOK
<1>8. \A j : ~Submitting(j) /\ (Submitting(j)' => j = k)
  BY <1>1, <1>2, <1>7 DEF Submitting
<1>9. Resident(k)' => Submitting(k)'
  <2>1. Resident(k)' => stage'[c] = "submitting"
    BY <1>3 DEF Resident, TypeOK, GraphOK, CallsOK
  <2> QED
    BY <1>1, <1>2, <2>1 DEF Submitting
<1>10. SubmittingInv'
  <2>1. \A j \in Kids : j # 1 /\ Resident(j)' => j \in owned' \/ Submitting(j)'
    BY <1>5, <1>6, <1>8, <1>9 DEF SubmittingInv
  <2>2. \A j \in Kids : Submitting(j)' => drv'[j] \in {"idle", "tending"}
    BY <1>2, <1>4, <1>8 DEF loops
  <2> QED
    BY <1>7, <2>1, <2>2 DEF SubmittingInv
<1>11. \A j : Accepted(j)' = Accepted(j)
  <2>1. \A m \in Messages : fate[m] = "accepted" => To(m)' = To(m)
    BY <1>2, <1>3, ToStays DEF TypeOK, CallsOK
  <2> QED
    BY <1>2, <2>1 DEF Accepted, loops
<1>12. UnburdenedInv'
  <2> SUFFICES ASSUME Quiet, NEW j \in Kids, ~Resident(j)' \/ Submitting(j)'
               PROVE  j + 1 \notin owned' /\ Accepted(j)' = {}
    BY <1>2 DEF UnburdenedInv, Quiet, teardown
  <2>1. ~Resident(j)
    BY <1>4, <1>6, <1>8
  <2>2. j + 1 \notin owned /\ Accepted(j) = {}
    BY <2>1 DEF UnburdenedInv
  <2>3. k # 1 /\ k - 1 \in Kids /\ Resident(k - 1) => j + 1 # k
    BY <2>1, Kinds
  <2> QED
    BY <1>5, <1>11, <2>2, <2>3
<1>13. AcceptedIsKept'
  <2>1. Kids \X Epochs \subseteq Messages /\ CallsOK
    BY DEF Messages, TypeOK
  <2>2. fate' = fate /\ host' = host /\ announced' = announced /\ Quiet' = Quiet
    BY <1>2, <1>4 DEF loops, teardown, Quiet
  <2>3. \A d \in Calls : stage'[d] = "done" => stage[d] = "done" /\ target'[d] = target[d] /\ by'[d] = by[d]
    BY <1>2, <1>3 DEF TypeOK, CallsOK
  <2>4. \A j \in announced : j \in announced' /\ epoch'[j] = epoch[j]
    BY <1>2, <1>4 DEF TypeOK, GraphOK
  <2> QED
    BY <2>1, <2>2, <2>3, <2>4, NothingLost
<1> QED
  BY <1>10, <1>12, <1>13

\* A resident child whose driver runs is owned by a parent that still waits.
LEMMA ParentWaits ==
  ASSUME KeepInv, OwnerInv, Quiet, NEW k \in Kids, k # 1, k - 1 \in Kids,
         k \in owned \/ (Resident(k) /\ drv[k] \notin {"idle", "tending"})
  PROVE  k \in owned /\ Resident(k - 1) /\ ~Submitting(k - 1)
<1>1. k \in owned
  BY DEF KeepInv, SubmittingInv
<1>2. (k - 1) + 1 = k
  BY Kinds
<1> QED
  BY <1>1, <1>2 DEF KeepInv, UnburdenedInv

\* A report finds its parent as it must.
LEMMA ReportKeeps ==
  ASSUME TeardownInv, KeepInv, NEW c \in Calls, NEW k \in Kids, Report(c, k)
  PROVE  KeepInv'
<1> USE DEF TeardownInv, KeepInv, graph, teardown
<1>1. /\ k > 1 /\ drv[k] \notin {"idle", "tending"} /\ Resident(k) /\ stage[c] = "new"
      /\ stage' = [stage EXCEPT ![c] = "reported"] /\ target' = [target EXCEPT ![c] = k]
      /\ UNCHANGED <<by, graph, teardown>>
  BY DEF Report, StatusIdle, Goes
<1>2. k # 1 /\ k - 1 \in Kids /\ k - 1 = 1
  BY <1>1, Kinds
<1>3. \/ fate' = [fate EXCEPT ![Prompt(c)] = "accepted"] /\ drv' = [drv EXCEPT ![k - 1] = Woken(k - 1)]
      \/ fate' = [fate EXCEPT ![Prompt(c)] = "injected"] /\ UNCHANGED drv
  BY DEF Report, Waking
<1>4. /\ stage'[c] = "reported" /\ \A d \in Calls : d # c => stage'[d] = stage[d] /\ target'[d] = target[d]
      /\ Quiet' = Quiet /\ \A j : Resident(j)' = Resident(j)
  BY <1>1 DEF TypeOK, CallsOK, Quiet, Resident
<1>5. \A j : Submitting(j)' = Submitting(j)
  BY <1>1, <1>4 DEF Submitting
<1>6. SubmittingInv'
  <2>1. \A j \in Kids : j # 1 => drv'[j] = drv[j]
    BY <1>2, <1>3 DEF TypeOK, LoopsOK
  <2> QED
    BY <1>1, <1>4, <1>5, <2>1 DEF SubmittingInv
<1>7. /\ \A m \in Messages : m # Prompt(c) => fate'[m] = fate[m]
      /\ fate'[Prompt(c)] \in {"accepted", "injected"}
  BY <1>3, Prompts DEF TypeOK, LoopsOK
<1>8. \A j \in Kids : j # k - 1 => Accepted(j)' \subseteq Accepted(j)
  <2>1. \A m \in Messages : m # Prompt(c) /\ fate[m] = "accepted" => To(m)' = To(m)
    BY <1>1, <1>4, ToStays
  <2>2. To(Prompt(c))' = k - 1
    BY <1>1, <1>4, Prompts DEF To, TypeOK, CallsOK
  <2> QED
    BY <1>7, <2>1, <2>2 DEF Accepted
<1>9. UnburdenedInv'
  <2>1. Quiet => Resident(k - 1) /\ ~Submitting(k - 1)
    BY <1>1, <1>2, ParentWaits
  <2> QED
    BY <1>1, <1>4, <1>5, <1>8, <2>1 DEF UnburdenedInv
<1>10. AcceptedIsKept'
  <2>1. Kids \X Epochs \subseteq Messages /\ CallsOK
    BY DEF Messages, TypeOK
  <2>2. \A m \in Messages : fate'[m] = fate[m] \/ fate'[m] \in {"accepted", "injected"}
    BY <1>7
  <2>3. \A d \in Calls : stage'[d] = "done" => stage[d] = "done" /\ target'[d] = target[d] /\ by'[d] = by[d]
    BY <1>1, <1>4
  <2> QED
    BY <1>1, <1>4, <2>1, <2>2, <2>3, NothingLost
<1> QED
  BY <1>6, <1>9, <1>10

\* A release loses nothing, and tells a parent that still waits for it.
LEMMA ReleasedKeeps ==
  ASSUME TeardownInv, KeepInv, NEW k \in Kids, Released(k)
  PROVE  KeepInv'
<1> USE DEF TeardownInv, KeepInv, call, teardown
<1>1. /\ entry[k] = "release" /\ entry' = [entry EXCEPT ![k] = "none"] /\ ~Resident(k)
      /\ owned' = owned \ {k} /\ announced' = announced \ {k}
      /\ UNCHANGED <<stage, target, by, epoch, manager, scope, host>>
  BY DEF Released, Advance, Resident
<1>2. <<k, epoch[k]>> \in Messages /\ epoch[k] \in Epochs /\ Notice(k) = <<k, epoch[k]>>
  <2>1. epoch[k] \in Epochs
    BY <1>1, Kinds DEF LockInv, Present, TypeOK, GraphOK, Epochs
  <2> QED
    BY <2>1, Prompts DEF Notice
<1>3. /\ Quiet' = Quiet
      /\ \A j : Submitting(j)' = Submitting(j) /\ \A m : To(m)' = To(m)
      /\ \A j \in Kids : Resident(j)' = Resident(j)
  BY <1>1, ToSame DEF Quiet, Submitting, Resident, TypeOK, GraphOK
<1>4. /\ \A m \in Messages :
           fate'[m] = Cleared({k})[m] \/ (k \in announced /\ m = Notice(k) /\ fate'[m] = Told(k))
      /\ k \in announced => fate'[Notice(k)] = Told(k)
      /\ \/ drv' = drv
         \/ k \in announced /\ Told(k) = "accepted" /\ drv' = [drv EXCEPT ![k - 1] = Woken(k - 1)]
  <2>1. CASE k \in announced
    <3>1. fate' = [Cleared({k}) EXCEPT ![Notice(k)] = Told(k)]
      BY <2>1 DEF Released
    <3>2. drv' = drv \/ (Told(k) = "accepted" /\ drv' = [drv EXCEPT ![k - 1] = Woken(k - 1)])
      BY <2>1 DEF Released
    <3> QED
      BY <1>2, <2>1, <3>1, <3>2, ClearedEffect DEF TypeOK
  <2>2. CASE k \notin announced
    BY <2>2 DEF Released
  <2> QED
    BY <2>1, <2>2
<1>5. k \in announced =>
        /\ Told(k) \in {"dropped", "told", "injected", "accepted"}
        /\ Told(k) = "dropped" => k = 1 /\ host = "gone"
        /\ Told(k) \in {"injected", "accepted"} => k # 1 /\ k \in owned /\ k - 1 \in Kids /\ k - 1 = 1
  <2>1. CASE k = 1
    BY <2>1, Kinds DEF Told, AgentLive, TypeOK, TeardownOK
  <2>2. CASE k # 1
    <3>1. k - 1 = 1 /\ k - 1 \in Kids
      BY <2>2, Kinds
    <3>2. k \in announced => k \in owned /\ Present(k - 1)
      BY <2>2 DEF OwnerInv, Present
    <3>3. k \in announced => AgentLive(k - 1, EpochOf(k - 1))
      BY <3>1, <3>2 DEF AgentLive, EpochOf
    <3> QED
      BY <2>2, <3>1, <3>2, <3>3 DEF Told
  <2> QED
    BY <2>1, <2>2
<1>6. SubmittingInv'
  <2>1. \A j \in Kids : j # 1 => drv'[j] = drv[j]
    BY <1>4, <1>5 DEF TypeOK, LoopsOK
  <2>2. \A j \in Kids : Resident(j) => j # k
    BY <1>1
  <2> QED
    BY <1>1, <1>3, <2>1, <2>2 DEF SubmittingInv
<1>7. \A j \in Kids : ~(k \in announced /\ Told(k) = "accepted" /\ j = k - 1) => Accepted(j)' \subseteq Accepted(j)
  <2>1. To(Notice(k)) = k - 1
    BY <1>2, Kinds DEF To
  <2>2. \A m \in Messages : Cleared({k})[m] = "accepted" => fate[m] = "accepted"
    BY ClearedEffect DEF TypeOK
  <2> QED
    BY <1>3, <1>4, <2>1, <2>2 DEF Accepted
<1>8. UnburdenedInv'
  <2> SUFFICES ASSUME Quiet, NEW j \in Kids, ~Resident(j) \/ Submitting(j)
               PROVE  j + 1 \notin owned' /\ Accepted(j)' = {}
    BY <1>3 DEF UnburdenedInv
  <2>1. j + 1 \notin owned /\ Accepted(j) = {}
    BY DEF UnburdenedInv
  <2>2. ~(k \in announced /\ Told(k) = "accepted" /\ j = k - 1)
    BY <1>5, ParentWaits
  <2> QED
    BY <1>1, <1>7, <2>1, <2>2
<1>9. AcceptedIsKept'
  <2>1. Kids \X Epochs \subseteq Messages /\ CallsOK
    BY DEF Messages, TypeOK
  <2>2. \A m \in Messages :
          \/ fate'[m] = fate[m]
          \/ fate[m] # "unsent" /\ fate'[m] \in {"unread", "cleared"}
          \/ k \in announced /\ m = Notice(k) /\ fate'[m] = Told(k)
    BY <1>4, ClearedEffect DEF TypeOK
  <2>3. \A m \in Messages : fate'[m] = "unsent" => fate[m] = "unsent"
    BY <1>5, <2>2
  <2>4. Quiet => \A m \in Messages : fate'[m] = "cleared" => fate[m] = "cleared"
    <3> SUFFICES ASSUME Quiet PROVE \A m \in Messages : fate'[m] = "cleared" => fate[m] = "cleared"
      OBVIOUS
    <3>1. Accepted(k) = {}
      BY <1>1 DEF UnburdenedInv
    <3>2. \A m \in Messages : Cleared({k})[m] = fate[m] \/ Cleared({k})[m] = "unread"
      BY <3>1, NothingCleared
    <3> QED
      BY <1>4, <1>5, <3>2
  <2>5. \A n \in Kids \X Epochs :
          fate'[n] = "dropped" => fate[n] = "dropped" \/ (n[1] = 1 /\ host' = "gone")
    BY <1>1, <1>2, <1>5, <2>1, <2>2
  <2>6. \A j \in announced :
          \/ j \in announced' /\ epoch'[j] = epoch[j]
          \/ epoch[j] # 0 /\ fate'[<<j, epoch[j]>>] # "unsent"
    <3>1. k \in announced => epoch[k] # 0 /\ fate'[<<k, epoch[k]>>] # "unsent"
      BY <1>2, <1>4, <1>5, Kinds
    <3> QED
      BY <1>1, <3>1
  <2>7. \A d \in Calls : stage'[d] = "done" => stage[d] = "done" /\ target'[d] = target[d] /\ by'[d] = by[d]
    BY <1>1
  <2> QED
    BY <1>1, <1>3, <2>1, <2>3, <2>4, <2>5, <2>6, <2>7, NothingLost
<1> QED
  BY <1>6, <1>8, <1>9

\* A call proceeds and keeps what was accepted.
LEMMA ProceedsKeeps ==
  ASSUME TeardownInv, KeepInv, NEW c \in Calls, Proceeds(c)
  PROVE  KeepInv'
<1>1. CASE Prepared(c) \/ Enter(c) \/ Awaited(c) \/ Inspected(c) \/ CreateFails(c) \/ RolledBack(c) \/ Undone(c)
  <2>1. /\ stage[c] \notin {"done", "reported", "submitting"}
        /\ UNCHANGED <<target, by, graph, watchers, loops, teardown>>
    BY <1>1 DEF Prepared, Enter, Awaited, Inspected, CreateFails, RolledBack, Undone
  <2>2. PICK place \in {"queued", "failed", "creating", "inspecting", "awaiting"} : Goes(c, place)
    BY <1>1 DEF Prepared, Enter, Awaited, Inspected, CreateFails, RolledBack, Undone
  <2> QED
    BY <2>1, <2>2, MoveKeeps DEF Places, Critical, Materializing
<1>2. CASE EnterLive(c) \/ Submitted(c)
  BY <1>2, AcceptsKeeps DEF EnterLive, Submitted
<1>3. CASE Created(c)
  BY <1>3, CreatedKeeps
<1>4. CASE SubmitFails(c)
  <2>1. PICK k \in Kids : k = target[c]
    BY DEF TeardownInv, TypeOK, CallsOK
  <2>2. /\ stage[c] = "submitting" /\ stage' = [stage EXCEPT ![c] = "undoing"] /\ Dispose({k})
        /\ UNCHANGED <<target, by, epoch, owned, announced, teardown>>
    BY <1>4, <2>1 DEF SubmitFails, Goes, Dispose
  <2>3. /\ stage'[c] = "undoing" /\ \A d \in Calls : d # c => stage'[d] = stage[d]
        /\ Quiet' = Quiet
    BY <2>2 DEF TeardownInv, TypeOK, CallsOK, Quiet, teardown
  <2>4. GraphOK /\ LoopsOK
    BY DEF TeardownInv, TypeOK
  <2>5. /\ \A j \in Kids : Resident(j)' => Resident(j) /\ j # k
        /\ \A j \in Kids : drv'[j] \notin {"idle", "tending"} => drv[j] \notin {"idle", "tending"}
        /\ \A m \in Messages :
             \/ fate'[m] = fate[m]
             \/ fate[m] \in {"accepted", "injected"} /\ fate'[m] \in {"cleared", "unread"}
    BY <2>2, <2>4, DisposeEffect
  <2>6. Quiet =>
          /\ k + 1 \notin owned /\ Accepted(k) = {}
          /\ \A j \in Kids : Resident(j) /\ ~Resident(j)' => j = k
          /\ \A m \in Messages : fate'[m] = fate[m] \/ (fate[m] = "injected" /\ fate'[m] = "unread")
    <3> SUFFICES ASSUME Quiet
                 PROVE  /\ k + 1 \notin owned /\ Accepted(k) = {}
                        /\ \A j \in Kids : Resident(j) /\ ~Resident(j)' => j = k
                        /\ \A m \in Messages : fate'[m] = fate[m] \/ (fate[m] = "injected" /\ fate'[m] = "unread")
      OBVIOUS
    <3>1. k + 1 \notin owned /\ Accepted(k) = {}
      BY <2>1, <2>2 DEF KeepInv, UnburdenedInv, Submitting
    <3> QED
      BY <2>2, <2>4, <3>1, LoneDispose
  <2> QED
    BY <2>1, <2>2, <2>3, <2>5, <2>6, FrameStep DEF teardown
<1> QED
  BY <1>1, <1>2, <1>3, <1>4 DEF Proceeds

\* Every action of the module keeps what was accepted.
LEMMA NextKeeps ==
  ASSUME TeardownInv, KeepInv, [Next]_vars
  PROVE  KeepInv'
<1>1. CASE UNCHANGED vars
  <2>1. UNCHANGED <<call, graph, loops, teardown>> /\ Quiet' = Quiet /\ \A k : Resident(k)' = Resident(k)
    BY <1>1 DEF vars, Quiet, Resident, graph, teardown
  <2> QED
    BY <2>1, FrameStep DEF call, graph, loops, teardown
<1>2. ASSUME NEW c \in Calls, NEW k \in Kids, StartCalled(c, k) \/ FollowupCalled(c, k)
      PROVE  KeepInv'
  <2>1. PICK place \in {"preparing", "queued"} : Called(c, k, place)
    BY <1>2 DEF StartCalled, FollowupCalled
  <2>2. /\ stage[c] = "new" /\ Goes(c, place) /\ target' = [target EXCEPT ![c] = k]
        /\ UNCHANGED <<by, graph, watchers, loops, teardown>>
    BY <1>2, <2>1 DEF Called, StartCalled, FollowupCalled
  <2>3. \A d \in Calls : d # c => target'[d] = target[d]
    BY <2>2 DEF TeardownInv, TypeOK, CallsOK
  <2> QED
    BY <2>2, <2>3, MoveKeeps DEF Places, Critical, Materializing
<1>3. ASSUME NEW c \in Calls, NEW k \in Kids, Report(c, k)
      PROVE  KeepInv'
  BY <1>3, ReportKeeps
<1>4. ASSUME NEW k \in Kids, Agent(k) \/ Watcher(k) \/ Disposal(k) \/ Interrupt(k) \/ Cancel(k) \/ Maintain(k)
      PROVE  KeepInv'
  BY <1>4, ChildKeeps, ReleasedKeeps DEF Disposal
<1> QED
  BY <1>1, <1>2, <1>3, <1>4, ProceedsKeeps, DrainKeeps DEF Next, Callers, Internal

\* watchSettlement, notifySettlement: no teardown discards accepted input while no
\* drain has begun, and a live parent is told of the end of the very Activation
\* that accepted a delivery.
THEOREM NothingAcceptedIsLost == Spec => []AcceptedIsKept
<1>1. Init => KeepInv
  <2> SUFFICES ASSUME Init PROVE KeepInv
    OBVIOUS
  <2>1. \A k \in Kids : ~Resident(k) /\ ~Submitting(k)
    BY DEF Init, Resident, Submitting
  <2>2. SubmittingInv
    BY <2>1 DEF Init, SubmittingInv
  <2>3. UnburdenedInv
    BY DEF Init, UnburdenedInv, Accepted
  <2>4. AcceptedIsKept
    BY DEF Init, AcceptedIsKept, Messages
  <2> QED
    BY <2>2, <2>3, <2>4 DEF KeepInv
<1>2. TeardownInv /\ KeepInv /\ [Next]_vars => KeepInv'
  BY NextKeeps
<1>3. KeepInv => AcceptedIsKept
  BY DEF KeepInv
<1> QED
  BY <1>1, <1>2, <1>3, TeardownInvariant, PTL DEF Spec

=============================================================================
