------------------------ MODULE GenerationLedgerProofs ------------------------
(***************************************************************************)
(* Proofs about GenerationLedger, for any number of generations, places,   *)
(* labels and concurrent request workers.                                  *)
(*                                                                         *)
(* OneCurrent and the two action properties follow from the types and the  *)
(* steps.  CurrentRootsAreCurrent needs one more fact, WritesNeverCurrent: *)
(* whatever a worker is about to write, it is not a current root, however  *)
(* long ago it read the row.                                               *)
(***************************************************************************)
EXTENDS GenerationLedger, TLAPS

\* No worker holds a root that it would write back as current.
WritesNeverCurrent ==
  \A w \in Workers : worker[w].op = "mutate" => worker[w].row.slot # "Current"

IInv == TypeOK /\ OneCurrent /\ WritesNeverCurrent /\ CurrentRootsAreCurrent

\* A live row is no absent row, whatever its slot; nor is a root.
LEMMA RowsArePresent ==
  /\ \A row \in LiveGeneration : row # NoRow
  /\ \A row \in GcRoot : row # NoRow
  /\ Idle.op = "idle"
BY DEF LiveGeneration, GcRoot, NoRow, Idle

\* Each step keeps the types: rows are only replaced by rows of their table.
LEMMA TypeStep == ASSUME TypeOK, [Next]_vars PROVE TypeOK'
<1>1. ASSUME NEW g \in Generations, NEW place \in Places, NEW slot \in ActivationSlots,
             RecordActivation(g, place, slot)
      PROVE  TypeOK'
  <2>1. liveSet' \in [Generations -> {NoRow} \union LiveGeneration]
    <3>1. \A h \in Replaced(slot, place) : Demote(liveSet[h]) \in LiveGeneration
      BY DEF Replaced, PriorCurrent, IsCurrent, Live, Demote, TypeOK, LiveGeneration,
             ActivationSlots
    <3>2. [place |-> place, slot |-> slot] \in LiveGeneration
      BY DEF LiveGeneration
    <3> QED BY <1>1, <3>1, <3>2 DEF RecordActivation, TypeOK
  <2>2. gcRoots' \in [Generations -> {NoRow} \union GcRoot]
    <3>1. \A h \in Generations : Rooted(h) => Demote(gcRoots[h]) \in GcRoot
      BY DEF Rooted, Demote, TypeOK, GcRoot, ActivationSlots
    <3>2. [node |-> place.node, slot |-> slot, label |-> NoLabel] \in GcRoot
      BY DEF GcRoot, Places
    <3> QED BY <1>1, <3>1, <3>2 DEF RecordActivation, TypeOK
  <2> QED BY <1>1, <2>1, <2>2 DEF RecordActivation, TypeOK
<1>2. ASSUME NEW w \in Workers, NEW request \in Worker, Prepare(w, request)
      PROVE  TypeOK'
  BY <1>2 DEF Prepare, TypeOK
<1>3. ASSUME NEW w \in Workers, Request(w)
      PROVE  \E request \in Worker : Prepare(w, request)
  <2>1. ASSUME NEW g \in Generations, NEW label \in Labels, Pin(w, g, label)
        PROVE  \E request \in Worker : Prepare(w, request)
    <3>1. [gcRoots[g] EXCEPT !.slot = "Pinned", !.label = label] \in GcRoot
      BY <2>1 DEF Pin, Rooted, TypeOK, GcRoot
    <3> QED BY <2>1, <3>1 DEF Pin, Worker
  <2>2. ASSUME NEW g \in Generations, Unpin(w, g)
        PROVE  \E request \in Worker : Prepare(w, request)
    <3>1. [gcRoots[g] EXCEPT !.slot = UnpinnedSlot, !.label = NoLabel] \in GcRoot
      BY <2>2 DEF Unpin, Rooted, TypeOK, GcRoot, UnpinnedSlot, ActivationSlots
    <3> QED BY <2>2, <3>1 DEF Unpin, Worker
  <2>3. ASSUME NEW g \in Generations, Retire(w, g)
        PROVE  \E request \in Worker : Prepare(w, request)
    BY <2>3 DEF Retire, Worker
  <2> QED BY <1>3, <2>1, <2>2, <2>3 DEF Request
<1>4. ASSUME NEW w \in Workers, Commit(w)
      PROVE  TypeOK'
  <2>1. worker[w].generation \in Generations
    BY <1>4 DEF Commit, TypeOK, Worker
  <2>2. worker[w].op = "mutate" => worker[w].row \in GcRoot
    BY <1>4 DEF Commit, TypeOK, Worker, Idle
  <2>3. worker' \in [Workers -> Worker]
    BY <1>4 DEF Commit, TypeOK, Worker
  <2> QED BY <1>4, <2>1, <2>2, <2>3 DEF Commit, TypeOK
<1>5. CASE Crash
  BY <1>5 DEF Crash, TypeOK, Worker
<1>6. CASE UNCHANGED vars
  BY <1>6 DEF TypeOK, vars
<1> QED BY <1>1, <1>2, <1>3, <1>4, <1>5, <1>6 DEF Next

\* What a worker is about to write was set to pinned or unpinned when it was read.
LEMMA WritesStep == ASSUME TypeOK, WritesNeverCurrent, [Next]_vars PROVE WritesNeverCurrent'
<1>1. ASSUME NEW w \in Workers, NEW request, Prepare(w, request),
             request.op = "mutate" => request.row.slot # "Current"
      PROVE  WritesNeverCurrent'
  BY <1>1 DEF Prepare, WritesNeverCurrent, TypeOK
<1>2. ASSUME NEW w \in Workers, NEW g \in Generations, NEW label \in Labels, Pin(w, g, label)
      PROVE  WritesNeverCurrent'
  <2>1. [gcRoots[g] EXCEPT !.slot = "Pinned", !.label = label].slot # "Current"
    BY <1>2 DEF Pin, Rooted, TypeOK, GcRoot
  <2> QED BY <1>1, <1>2, <2>1 DEF Pin
<1>3. ASSUME NEW w \in Workers, NEW g \in Generations, Unpin(w, g)
      PROVE  WritesNeverCurrent'
  <2>1. [gcRoots[g] EXCEPT !.slot = UnpinnedSlot, !.label = NoLabel].slot # "Current"
    BY <1>3 DEF Unpin, Rooted, TypeOK, GcRoot, UnpinnedSlot
  <2> QED BY <1>1, <1>3, <2>1 DEF Unpin
<1>4. ASSUME NEW w \in Workers, NEW g \in Generations, Retire(w, g)
      PROVE  WritesNeverCurrent'
  BY <1>1, <1>4 DEF Retire
<1>5. ASSUME NEW w \in Workers, Commit(w)
      PROVE  WritesNeverCurrent'
  BY <1>5 DEF Commit, WritesNeverCurrent, TypeOK, Idle
<1>6. CASE Crash
  BY <1>6 DEF Crash, WritesNeverCurrent, Idle
<1>7. ASSUME NEW g \in Generations, NEW place \in Places, NEW slot \in ActivationSlots,
             RecordActivation(g, place, slot)
      PROVE  WritesNeverCurrent'
  BY <1>7 DEF RecordActivation, WritesNeverCurrent
<1>8. CASE UNCHANGED vars
  BY <1>8 DEF WritesNeverCurrent, vars
<1> QED BY <1>2, <1>3, <1>4, <1>5, <1>6, <1>7, <1>8 DEF Next, Request

\* Only an activation makes a generation current, and it first demotes every
\* other current generation of its place.
LEMMA OneCurrentStep == ASSUME TypeOK, OneCurrent, [Next]_vars PROVE OneCurrent'
<1>1. ASSUME NEW g \in Generations, NEW place \in Places, NEW slot \in ActivationSlots,
             RecordActivation(g, place, slot)
      PROVE  OneCurrent'
  <2>1. ASSUME NEW h \in Generations, NEW p \in Places, h # g, IsCurrent(h, p)'
        PROVE  IsCurrent(h, p) /\ h \notin Replaced(slot, place)
    BY <1>1, <2>1 DEF RecordActivation, IsCurrent, Live, Demote, TypeOK, LiveGeneration,
                      Replaced, PriorCurrent
  <2>2. ASSUME NEW p \in Places, IsCurrent(g, p)'
        PROVE  p = place /\ slot = "Current"
    BY <1>1, <2>2 DEF RecordActivation, IsCurrent, TypeOK
  <2>3. ASSUME NEW h \in Generations, NEW p \in Places, h # g, IsCurrent(h, p)',
               IsCurrent(g, p)'
        PROVE  FALSE
    BY <2>1, <2>2, <2>3 DEF Replaced, PriorCurrent
  <2> SUFFICES ASSUME NEW h \in Generations, NEW k \in Generations, NEW p \in Places,
                      IsCurrent(h, p)', IsCurrent(k, p)'
               PROVE  h = k
    BY DEF OneCurrent
  <2>4. CASE h # g /\ k # g
    BY <2>1, <2>4 DEF OneCurrent
  <2>5. CASE h = g \/ k = g
    BY <2>3, <2>5
  <2> QED BY <2>4, <2>5
<1>2. CASE UNCHANGED liveSet
  BY <1>2 DEF OneCurrent, IsCurrent, Live
<1> QED BY <1>1, <1>2 DEF Next, Request, Pin, Unpin, Retire, Prepare, Commit, Crash, vars

\* An activation demotes a root with its generation, and no request writes a
\* current root.
LEMMA CurrentRootsStep ==
  ASSUME TypeOK, WritesNeverCurrent, CurrentRootsAreCurrent, [Next]_vars
  PROVE  CurrentRootsAreCurrent'
<1>1. ASSUME NEW g \in Generations, NEW place \in Places, NEW slot \in ActivationSlots,
             RecordActivation(g, place, slot)
      PROVE  CurrentRootsAreCurrent'
  <2> SUFFICES ASSUME NEW h \in Generations, gcRoots'[h] # NoRow, gcRoots'[h].slot = "Current"
               PROVE  liveSet'[h] # NoRow /\ liveSet'[h].slot = "Current"
    BY DEF CurrentRootsAreCurrent, Rooted, Live
  <2>1. CASE h = g
    BY <1>1, <2>1 DEF RecordActivation, NoRow, TypeOK
  <2>2. CASE h # g /\ h \in Replaced(slot, place)
    <3>1. Rooted(h) => gcRoots'[h].slot = "Recent"
      BY <1>1, <2>2 DEF RecordActivation, Rooted, Demote, TypeOK, GcRoot
    <3>2. ~ Rooted(h) => gcRoots'[h] = NoRow
      BY <1>1, <2>2 DEF RecordActivation, Rooted
    <3> QED BY <3>1, <3>2
  <2>3. CASE h # g /\ h \notin Replaced(slot, place)
    BY <1>1, <2>3 DEF RecordActivation, CurrentRootsAreCurrent, Rooted, Live
  <2> QED BY <2>1, <2>2, <2>3
<1>2. ASSUME NEW w \in Workers, Commit(w)
      PROVE  CurrentRootsAreCurrent'
  <2>1. worker[w].op = "mutate" => worker[w].row.slot # "Current"
    BY DEF WritesNeverCurrent
  <2> SUFFICES ASSUME NEW h \in Generations, gcRoots'[h] # NoRow, gcRoots'[h].slot = "Current"
               PROVE  gcRoots[h] = gcRoots'[h] /\ liveSet' = liveSet
    BY DEF CurrentRootsAreCurrent, Rooted, Live
  <2> QED BY <1>2, <2>1 DEF Commit, TypeOK
<1>3. CASE UNCHANGED <<liveSet, gcRoots>>
  BY <1>3 DEF CurrentRootsAreCurrent, Rooted, Live
<1> QED BY <1>1, <1>2, <1>3 DEF Next, Request, Pin, Unpin, Retire, Prepare, Crash, vars

\* All invariants hold in every state: nothing is live before the first activation.
THEOREM Invariant == Spec => []IInv
<1>1. Init => IInv
  BY RowsArePresent DEF Init, IInv, TypeOK, OneCurrent, WritesNeverCurrent, CurrentRootsAreCurrent,
     IsCurrent, Live, Rooted, Worker
<1>2. IInv /\ [Next]_vars => IInv'
  BY TypeStep, OneCurrentStep, WritesStep, CurrentRootsStep DEF IInv
<1> QED BY <1>1, <1>2, PTL DEF Spec

\* The rows of every reachable state have the types of their tables.
THEOREM TypeCorrect == Spec => []TypeOK
BY Invariant, PTL DEF IInv

\* The daemon never knows two current generations of one place, with any number
\* of places and concurrent requests (record_activation).
THEOREM CurrentIsUnique == Spec => []OneCurrent
BY Invariant, PTL DEF IInv

\* A stale request never makes a replaced generation's root current again.
THEOREM NoStaleCurrentRoot == Spec => []CurrentRootsAreCurrent
BY Invariant, PTL DEF IInv

\* A request that read a root before another one retired it does not bring the
\* root back (mutate_gc_root fails on a missing row).
THEOREM RetirementIsFinal == Spec => RetiredStaysRetired
<1>1. ASSUME [Next]_vars, NEW g \in Generations, Live(g), ~ Rooted(g)
      PROVE  ~ Rooted(g)'
  <2>1. ASSUME NEW h \in Generations, NEW place \in Places, NEW slot \in ActivationSlots,
               RecordActivation(h, place, slot)
        PROVE  ~ Rooted(g)'
    BY <1>1, <2>1 DEF RecordActivation, Rooted
  <2>2. ASSUME NEW w \in Workers, Commit(w)
        PROVE  ~ Rooted(g)'
    BY <1>1, <2>2 DEF Commit, Rooted, Writable
  <2>3. CASE UNCHANGED gcRoots
    BY <1>1, <2>3 DEF Rooted
  <2> QED BY <1>1, <2>1, <2>2, <2>3 DEF Next, Request, Pin, Unpin, Retire, Prepare, Crash, vars
<1>2. [Next]_vars => [\A g \in Generations : Live(g) /\ ~ Rooted(g) => ~ Rooted(g)']_vars
  BY <1>1
<1> QED BY <1>2, PTL DEF Spec, RetiredStaysRetired

\* The current generation of a place is only displaced by the activation of
\* another one there (record_activation).
THEOREM DemotionIsReplacement == Spec => DemotedOnlyByReplacement
<1>1. ASSUME TypeOK, [Next]_vars, NEW g \in Generations, NEW place \in Places,
             IsCurrent(g, place), ~ IsCurrent(g, place)'
      PROVE  \E h \in Generations : ~ Live(h) /\ IsCurrent(h, place)'
  <2>1. ASSUME NEW h \in Generations, NEW p \in Places, NEW slot \in ActivationSlots,
               RecordActivation(h, p, slot)
        PROVE  ~ Live(h) /\ IsCurrent(h, place)'
    <3>1. g # h
      BY <1>1, <2>1 DEF RecordActivation, IsCurrent
    <3>2. g \in Replaced(slot, p)
      BY <1>1, <2>1, <3>1 DEF RecordActivation, IsCurrent, Live
    <3>3. slot = "Current" /\ p = place
      BY <1>1, <3>2 DEF Replaced, PriorCurrent, IsCurrent
    <3> QED BY <2>1, <3>3 DEF RecordActivation, IsCurrent, Live, NoRow
  <2>2. CASE UNCHANGED liveSet
    BY <1>1, <2>2 DEF IsCurrent, Live
  <2> QED BY <1>1, <2>1, <2>2 DEF Next, Request, Pin, Unpin, Retire, Prepare, Commit, Crash, vars
<1>2. TypeOK /\ [Next]_vars =>
        [\A g \in Generations, place \in Places :
           IsCurrent(g, place) /\ ~ IsCurrent(g, place)' =>
             \E h \in Generations : ~ Live(h) /\ IsCurrent(h, place)']_vars
  BY <1>1
<1> QED BY <1>2, TypeCorrect, PTL DEF Spec, DemotedOnlyByReplacement
=============================================================================
