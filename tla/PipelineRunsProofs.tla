-------------------------- MODULE PipelineRunsProofs --------------------------
(***************************************************************************)
(* Proofs about PipelineRuns for any run ids and keys, any number of Stages, *)
(* any capacity and retention, and any number of process deaths.             *)
(***************************************************************************)
EXTENDS PipelineRuns, FiniteSetTheorems, WellFoundedInduction, TLAPS

\* A run id nobody was given yet has left nothing behind.
IdsUsed ==
  \A r \in RunIds \ issued : store[r] = None /\ manifest[r] = None /\ phase[r] = "none"

\* What the engine's manifest of a run can be in each phase of its task.
JournalShape ==
  \A r \in RunIds :
     /\ manifest[r] # None => /\ manifest[r].done + manifest[r].open <= Steps
                              /\ manifest[r].status = "running" => manifest[r].open = 0
     /\ phase[r] = "created" => manifest[r] = None
     /\ phase[r] = "running" => manifest[r] = None \/ manifest[r].status = "running"
     /\ phase[r] = "saving" => manifest[r] # None /\ manifest[r].status \in Ends

\* A client never sees more completed Stages than the engine has recorded.
ProgressShown ==
  \A r \in Unfinished :
     store[r].done <= IF manifest[r] = None THEN 0 ELSE manifest[r].done

\* Runs without verdict take capacity, whether or not a task works on them.
CapacityTaken == Cardinality(Unfinished) <= MaxActive

\* The inductive invariant.
IInv == RunsConsistent /\ IdsUsed /\ JournalShape /\ ProgressShown /\ CapacityTaken
-----------------------------------------------------------------------------
(***************************************************************************)
(* Retention.  s is any content of the store.                               *)
(***************************************************************************)
Contents == [RunIds -> Snapshots \cup {None}]
NewerThan(s, r) == {q \in Ended(s) : Newer(s, q, r)}
Kept(s) == Ended(s) \ Expired(s)

\* A nonempty set of naturals has a smallest member.
LEMMA SmallestOf ==
  ASSUME NEW S \in SUBSET Nat, S # {}
  PROVE  \E m \in S : \A n \in S : m <= n
  <1> DEFINE R == OpToRel(<, Nat)
  <1>1. IsWellFoundedOn(R, Nat)
    BY NatLessThanWellFounded
  <1>2. PICK m \in S : \A n \in S : <<n, m>> \notin R
    <2> HIDE DEF R
    <2> QED BY <1>1, WFMin
  <1>3. \A n \in S : ~(n < m)
    BY <1>2 DEF OpToRel
  <1> QED BY <1>3

\* (completed_at, run_id) orders the records that have one, strictly and totally.
LEMMA NewerIsOrder ==
  ASSUME NEW s, \A r \in Ended(s) : s[r].completedAt \in Nat,
         NEW p \in Ended(s), NEW q \in Ended(s), NEW r \in Ended(s)
  PROVE  /\ ~Newer(s, p, p)
         /\ Newer(s, p, q) /\ Newer(s, q, r) => Newer(s, p, r)
         /\ p = q \/ Newer(s, p, q) \/ Newer(s, q, p)
  <1>1. p \in Nat /\ q \in Nat /\ r \in Nat
    BY RunsAssumption DEF Ended
  <1> QED BY <1>1 DEF Newer

\* The later record has fewer records before it.
LEMMA NewerHasFewer ==
  ASSUME NEW s, \A r \in Ended(s) : s[r].completedAt \in Nat,
         NEW p \in Ended(s), NEW q \in Ended(s), Newer(s, p, q)
  PROVE  /\ Cardinality(NewerThan(s, p)) \in Nat /\ Cardinality(NewerThan(s, q)) \in Nat
         /\ Cardinality(NewerThan(s, p)) < Cardinality(NewerThan(s, q))
  <1>1. IsFiniteSet(NewerThan(s, q)) /\ IsFiniteSet(NewerThan(s, p))
    BY RunsAssumption, FS_Subset DEF NewerThan, Ended
  <1>2. NewerThan(s, p) \subseteq NewerThan(s, q)
    BY NewerIsOrder DEF NewerThan
  <1>3. p \in NewerThan(s, q) /\ p \notin NewerThan(s, p)
    BY NewerIsOrder DEF NewerThan
  <1>4. Cardinality(NewerThan(s, p)) \in Nat /\ Cardinality(NewerThan(s, q)) \in Nat
    BY <1>1, FS_CardinalityType
  <1>5. /\ Cardinality(NewerThan(s, p)) <= Cardinality(NewerThan(s, q))
        /\ Cardinality(NewerThan(s, p)) # Cardinality(NewerThan(s, q))
    BY <1>1, <1>2, <1>3, FS_Subset
  <1> QED BY <1>4, <1>5

\* _prune_terminal_locked leaves at most Retain records.
LEMMA KeptBounded ==
  ASSUME NEW s, \A r \in Ended(s) : s[r].completedAt \in Nat
  PROVE  Cardinality(Kept(s)) <= Retain
  <1> DEFINE Rank(r) == Cardinality(NewerThan(s, r))
             Ranks == {Retain - Rank(r) : r \in Kept(s)}
  <1>1. IsFiniteSet(Kept(s)) /\ \A r \in Ended(s) : IsFiniteSet(NewerThan(s, r))
    BY RunsAssumption, FS_Subset DEF Kept, NewerThan, Ended
  <1>2. \A r \in Kept(s) : r \in Ended(s) /\ Rank(r) \in Nat /\ Rank(r) < Retain
    BY <1>1, RunsAssumption, FS_CardinalityType DEF Kept, Expired, NewerThan
  <1>3. CASE Kept(s) = {}
    BY <1>3, FS_EmptySet, RunsAssumption
  <1>4. CASE Kept(s) # {}
    <2>1. Ranks # {} /\ Ranks \in SUBSET Nat
      <3> HIDE DEF Rank
      <3> QED BY <1>2, <1>4, RunsAssumption
    <2>2. PICK m \in Ranks : \A n \in Ranks : m <= n
      <3> HIDE DEF Ranks
      <3> QED BY <2>1, SmallestOf
    <2>3. PICK oldest \in Kept(s) : m = Retain - Rank(oldest)
      BY <2>2
    <2>4. \A r \in Kept(s) : Rank(r) <= Rank(oldest)
      <3> SUFFICES ASSUME NEW r \in Kept(s) PROVE Rank(r) <= Rank(oldest)
        OBVIOUS
      <3>1. Retain - Rank(oldest) <= Retain - Rank(r)
        BY <2>2, <2>3
      <3> HIDE DEF Rank, Ranks
      <3> QED BY <1>2, <3>1, RunsAssumption
    <2>5. Kept(s) \ {oldest} \subseteq NewerThan(s, oldest)
      <3> SUFFICES ASSUME NEW r \in Kept(s), r # oldest
                   PROVE  r \in NewerThan(s, oldest)
        OBVIOUS
      <3>1. r \in Ended(s) /\ oldest \in Ended(s)
        BY <1>2
      <3>2. ~Newer(s, oldest, r)
        BY <1>2, <2>4, <3>1, NewerHasFewer
      <3> QED BY <3>1, <3>2, NewerIsOrder DEF NewerThan
    <2>6. Cardinality(Kept(s) \ {oldest}) <= Rank(oldest)
      BY <1>1, <1>2, <2>5, FS_Subset
    <2>7. /\ Cardinality(Kept(s) \ {oldest}) = Cardinality(Kept(s)) - 1
          /\ Cardinality(Kept(s)) \in Nat
      BY <1>1, FS_RemoveElement, FS_CardinalityType
    <2> QED BY <1>2, <2>6, <2>7, RunsAssumption
  <1> QED BY <1>3, <1>4

\* What it drops is older than Retain records that it keeps.
LEMMA DroppedIsOlder ==
  ASSUME NEW s, \A r \in Ended(s) : s[r].completedAt \in Nat,
         NEW r \in Expired(s), NEW S, IsFiniteSet(S),
         \A q \in Kept(s) : s[q].completedAt >= s[r].completedAt => q \in S
  PROVE  Cardinality(S) >= Retain
  <1> DEFINE Rank(q) == Cardinality(NewerThan(s, q))
             Ranks == {Rank(q) : q \in Expired(s)}
  <1>1. \A q \in Ended(s) : IsFiniteSet(NewerThan(s, q))
    BY RunsAssumption, FS_Subset DEF NewerThan, Ended
  <1>2. \A q \in Expired(s) : q \in Ended(s) /\ Rank(q) \in Nat /\ Rank(q) >= Retain
    BY <1>1, FS_CardinalityType DEF Expired, NewerThan
  <1>3. Ranks # {} /\ Ranks \in SUBSET Nat
    <2> HIDE DEF Rank
    <2> QED BY <1>2
  <1>4. PICK m \in Ranks : \A n \in Ranks : m <= n
    <2> HIDE DEF Ranks
    <2> QED BY <1>3, SmallestOf
  <1>5. PICK newest \in Expired(s) : m = Rank(newest)
    BY <1>4
  <1>6. \A q \in Expired(s) : Rank(newest) <= Rank(q)
    BY <1>4, <1>5
  <1>7. NewerThan(s, newest) \subseteq S
    <2> SUFFICES ASSUME NEW q \in NewerThan(s, newest) PROVE q \in S
      OBVIOUS
    <2>1. q \in Ended(s) /\ Newer(s, q, newest)
      BY DEF NewerThan
    <2>2. q \in Kept(s)
      <3>1. Rank(q) \in Nat /\ Rank(newest) \in Nat /\ Rank(q) < Rank(newest)
        BY <1>2, <2>1, NewerHasFewer
      <3> HIDE DEF Rank
      <3> QED BY <1>6, <2>1, <3>1 DEF Kept
    <2>3. q # r /\ ~Newer(s, r, q)
      <3>1. newest = r \/ Newer(s, newest, r)
        <4>1. ~Newer(s, r, newest)
          <5> SUFFICES ASSUME Newer(s, r, newest) PROVE FALSE
            OBVIOUS
          <5>1. Rank(r) \in Nat /\ Rank(newest) \in Nat /\ Rank(r) < Rank(newest)
            BY <1>2, NewerHasFewer
          <5> HIDE DEF Rank
          <5> QED BY <1>6, <5>1
        <4> QED BY <1>2, <4>1, NewerIsOrder
      <3>2. Newer(s, q, r)
        BY <1>2, <2>1, <3>1, NewerIsOrder
      <3> QED BY <1>2, <2>1, <3>2, NewerIsOrder
    <2>4. s[q].completedAt >= s[r].completedAt
      BY <1>2, <2>1, <2>3, NewerIsOrder DEF Newer
    <2> QED BY <2>2, <2>4
  <1>8. Rank(newest) <= Cardinality(S) /\ Cardinality(S) \in Nat
    BY <1>7, FS_Subset, FS_CardinalityType
  <1>9. Rank(newest) \in Nat /\ Rank(newest) >= Retain
    BY <1>2
  <1> HIDE DEF Rank
  <1> QED BY <1>8, <1>9, RunsAssumption
-----------------------------------------------------------------------------
(***************************************************************************)
(* save() and the recovery write contents s and prune them.                  *)
(***************************************************************************)
\* completed_at is there exactly on terminal records.
DatesFit(s) == \A r \in RunIds : s[r] # None =>
                 (s[r].completedAt # None) = IsTerminal(s[r])

\* What pruning keeps, and how much.
LEMMA PrunedFacts ==
  ASSUME NEW s \in Contents, DatesFit(s), store' = Pruned(s)
  PROVE  /\ store' \in Contents /\ DatesFit(store')
         /\ \A r \in RunIds : store'[r] \in {None, s[r]}
         /\ \A r \in RunIds : s[r] # None /\ ~IsTerminal(s[r]) => store'[r] = s[r]
         /\ Ended(store') = Kept(s)
         /\ Cardinality(Terminal') <= Retain
         /\ \A r \in RunIds : s[r] # None /\ store'[r] = None =>
              r \in Ended(s) /\ Cardinality({q \in Ended(store') :
                 store'[q].completedAt >= s[r].completedAt}) >= Retain
  <1>1. \A r \in Ended(s) : s[r].completedAt \in Nat
    <2> SUFFICES ASSUME NEW r \in Ended(s) PROVE s[r].completedAt \in Nat
      OBVIOUS
    <2>1. s[r] \in Snapshots /\ s[r].completedAt # None
      BY DEF Ended, DatesFit, Contents
    <2> QED BY <2>1, RunsAssumption DEF Snapshots
  <1>2. \A r \in RunIds : store'[r] = IF r \in Expired(s) THEN None ELSE s[r]
    BY DEF Pruned
  <1>3. Expired(s) \subseteq Ended(s)
    BY DEF Expired
  <1>4. store' \in Contents /\ DatesFit(store')
    BY <1>2 DEF Pruned, Contents, DatesFit
  <1>5. Ended(store') = Kept(s)
    BY <1>2 DEF Ended, Kept, Expired
  <1>6. Terminal' = Ended(store')
    BY DEF Terminal, Stored, Ended
  <1>7. Cardinality(Terminal') <= Retain
    BY <1>1, <1>5, <1>6, KeptBounded
  <1>8. ASSUME NEW r \in RunIds, s[r] # None, store'[r] = None
        PROVE  r \in Ended(s) /\ Cardinality({q \in Ended(store') :
                 store'[q].completedAt >= s[r].completedAt}) >= Retain
    <2>1. r \in Expired(s) /\ r \in Ended(s)
      BY <1>2, <1>3, <1>8
    <2> DEFINE S == {q \in Ended(store') : store'[q].completedAt >= s[r].completedAt}
    <2>2. IsFiniteSet(S)
      BY RunsAssumption, FS_Subset DEF Ended
    <2>3. \A q \in Kept(s) : s[q].completedAt >= s[r].completedAt => q \in S
      BY <1>2, <1>5 DEF Kept, Ended
    <2>4. Cardinality(S) >= Retain
      <3> HIDE DEF S
      <3> QED BY <1>1, <2>1, <2>2, <2>3, DroppedIsOlder
    <2> QED BY <2>1, <2>4
  <1>9. \A r \in RunIds : s[r] # None /\ ~IsTerminal(s[r]) => store'[r] = s[r]
    BY <1>2, <1>3 DEF Ended
  <1> QED BY <1>2, <1>4, <1>5, <1>7, <1>8, <1>9

\* A snapshot that may take the place of the stored one of r: of its type, with
\* its key, and the same if that is terminal; if terminal, dated now.
Succeeds(r, snapshot) ==
  /\ snapshot \in Snapshots
  /\ (snapshot.completedAt # None) = IsTerminal(snapshot)
  /\ snapshot.key = store[r].key
  /\ IF r \in Terminal THEN snapshot = store[r]
     ELSE IsTerminal(snapshot) => snapshot.completedAt = now

\* What a single step must leave true of the repository alone.
StoreKept ==
  /\ store' \in [RunIds -> Snapshots \cup {None}]
  /\ \A r \in Stored' : (store'[r].completedAt # None) = IsTerminal(store'[r])
  /\ OneRunPerKey' /\ RetentionBound' /\ CapacityTaken'
  /\ \A r \in Terminal : store'[r] \in {store[r], None}
  /\ \A r \in Stored : store'[r] = None =>
       LET since == IF r \in Terminal THEN store[r].completedAt ELSE now
       IN Cardinality({q \in Ended(store') : store'[q].completedAt >= since})
            >= Retain

\* Stores with one record replaced by a successor.
LEMMA SaveKeeps ==
  ASSUME IInv, NEW r \in Stored, NEW snapshot, Succeeds(r, snapshot), Save(r, snapshot)
  PROVE  /\ StoreKept
         /\ \A q \in RunIds \ {r} : store'[q] \in {store[q], None}
         /\ store'[r] \in {snapshot, None}
         /\ \A q \in Unfinished \ {r} : store'[q] = store[q]
         /\ ~IsTerminal(snapshot) => store'[r] = snapshot
         /\ Unfinished' = {q \in Unfinished : q # r \/ ~IsTerminal(snapshot)}
  <1> DEFINE s == [store EXCEPT ![r] = snapshot]
  <1>1. /\ store \in Contents /\ r \in RunIds /\ snapshot \in Snapshots
        /\ \A q \in Stored : (store[q].completedAt # None) = IsTerminal(store[q])
    BY DEF IInv, RunsConsistent, TypeOK, Contents, Stored, Succeeds
  <1>2. /\ s \in Contents
        /\ \A q \in RunIds : s[q] = IF q = r THEN snapshot ELSE store[q]
    BY <1>1 DEF Contents
  <1>3. DatesFit(s)
    BY <1>1, <1>2 DEF DatesFit, Stored, Succeeds
  <1>4. store' = Pruned(s)
    BY DEF Save
  <1> HIDE DEF s
  <1>5. /\ store' \in Contents /\ DatesFit(store')
        /\ \A q \in RunIds : store'[q] \in {None, s[q]}
        /\ \A q \in RunIds : s[q] # None /\ ~IsTerminal(s[q]) => store'[q] = s[q]
        /\ Cardinality(Terminal') <= Retain
        /\ \A q \in RunIds : s[q] # None /\ store'[q] = None =>
              q \in Ended(s) /\ Cardinality({p \in Ended(store') :
                 store'[p].completedAt >= s[q].completedAt}) >= Retain
    BY <1>2, <1>3, <1>4, PrunedFacts
  <1>6. snapshot # None
    BY <1>1, NoneIsNoRecord
  <1>7. Unfinished' = {q \in Unfinished : q # r \/ ~IsTerminal(snapshot)}
    <2>1. ASSUME NEW q \in RunIds
          PROVE  q \in Unfinished' <=> s[q] # None /\ ~IsTerminal(s[q])
      BY <1>5 DEF Unfinished, Stored, Terminal
    <2>2. ASSUME NEW q \in RunIds
          PROVE  q \in Unfinished <=> store[q] # None /\ ~IsTerminal(store[q])
      BY DEF Unfinished, Stored, Terminal
    <2>3. r \notin Unfinished => IsTerminal(snapshot)
      BY <2>2 DEF Stored, Succeeds, Terminal
    <2>4. Unfinished \subseteq RunIds /\ Unfinished' \subseteq RunIds
      BY DEF Unfinished, Stored
    <2> QED BY <1>2, <1>6, <2>1, <2>2, <2>3, <2>4
  <1>8. CapacityTaken'
    <2>1. IsFiniteSet(Unfinished)
      BY RunsAssumption, FS_Subset DEF Unfinished, Stored
    <2>2. Cardinality(Unfinished') <= Cardinality(Unfinished)
      BY <1>7, <2>1, FS_Subset
    <2>3. Cardinality(Unfinished) \in Nat /\ Cardinality(Unfinished') \in Nat
      BY <1>7, <2>1, FS_Subset, FS_CardinalityType
    <2> QED BY <2>2, <2>3, RunsAssumption DEF IInv, CapacityTaken
  <1>9. OneRunPerKey'
    <2>1. \A q \in Stored' : q \in Stored /\ store'[q].key = store[q].key
      BY <1>2, <1>5 DEF Stored, Succeeds
    <2> QED BY <2>1 DEF IInv, RunsConsistent, OneRunPerKey
  <1>10. \A q \in Terminal : store'[q] \in {store[q], None}
    BY <1>2, <1>5 DEF Terminal, Stored, Succeeds
  <1>11. ASSUME NEW q \in Stored, store'[q] = None
         PROVE  LET since == IF q \in Terminal THEN store[q].completedAt ELSE now
                IN Cardinality({p \in Ended(store') : store'[p].completedAt >= since})
                     >= Retain
    <2>1. q \in RunIds /\ s[q] # None
      BY <1>2, <1>6 DEF Stored
    <2>2. q \in Ended(s) /\ Cardinality({p \in Ended(store') :
                 store'[p].completedAt >= s[q].completedAt}) >= Retain
      BY <1>5, <1>11, <2>1
    <2>3. s[q].completedAt = IF q \in Terminal THEN store[q].completedAt ELSE now
      BY <1>2, <2>2 DEF Succeeds, Terminal, Stored, Ended
    <2> QED BY <2>2, <2>3
  <1>12. StoreKept
    BY <1>5, <1>8, <1>9, <1>10, <1>11
       DEF StoreKept, Contents, DatesFit, Stored, RetentionBound
  <1> QED BY <1>2, <1>5, <1>6, <1>7, <1>12 DEF Unfinished, Terminal, Stored
-----------------------------------------------------------------------------
(***************************************************************************)
(* Steps.                                                                   *)
(***************************************************************************)
\* The parts of the invariant about one run, for the proofs of its actions.
LEMMA RunShape ==
  ASSUME IInv, NEW r \in RunIds
  PROVE  /\ store[r] \in Snapshots \cup {None} /\ manifest[r] \in Manifests \cup {None}
         /\ phase[r] \in Live \cup {"none", "ended"} /\ now \in 0..MaxTime
         /\ store[r] # None => /\ store[r] \in Snapshots
                               /\ (store[r].completedAt # None) = IsTerminal(store[r])
         /\ manifest[r] # None => manifest[r] \in Manifests
         /\ phase[r] \in Live => store[r] # None /\ ~IsTerminal(store[r])
         /\ r \in Stored <=> store[r] # None
         /\ r \in Terminal <=> store[r] # None /\ IsTerminal(store[r])
         /\ r \in Unfinished <=> store[r] # None /\ ~IsTerminal(store[r])
  BY DEF IInv, RunsConsistent, TypeOK, LiveRunsVisible, Stored, Terminal, Unfinished

RestTypeOK ==
  /\ manifest \in [RunIds -> Manifests \cup {None}]
  /\ phase \in [RunIds -> Live \cup {"none", "ended"}]
  /\ token \in [RunIds -> BOOLEAN]
  /\ issued \in SUBSET RunIds
  /\ now \in 0..MaxTime
  /\ restarts \in 0..MaxRestarts

ProgressStep ==
  \A r \in Stored : store'[r] # None =>
     store'[r].code = "INTERNAL" \/ store'[r].done >= store[r].done

\* A snapshot without verdict that no task works on is of a run whose writes fail.
UnfinishedWorkedOn == \A r \in Unfinished \ FaultyRuns : phase[r] \in Live

\* What a step leaves and what it does: the invariant, and a store in which
\* nothing was revised and only what is old was forgotten.
StepKeeps == IInv' /\ StoreKept /\ ProgressStep

\* The parts of the invariant that the repository does not see to.
LEMMA Assemble ==
  ASSUME StoreKept, RestTypeOK', LiveRunsVisible', VerdictTruthful', UnfinishedWorkedOn',
         IdsUsed', JournalShape', ProgressShown', ProgressStep
  PROVE  StepKeeps
  <1>1. TypeOK'
    BY DEF StoreKept, RestTypeOK, TypeOK
  <1>2. CapacityExact'
    <2> DEFINE L == {r \in RunIds : phase'[r] \in Live}
    <2>1. IsFiniteSet(Unfinished')
      BY RunsAssumption, FS_Subset DEF Unfinished, Stored
    <2>2. L \subseteq Unfinished'
      BY DEF LiveRunsVisible
    <2>3. Cardinality(L) <= Cardinality(Unfinished')
      BY <2>1, <2>2, FS_Subset
    <2>4. Cardinality(L) \in Nat /\ Cardinality(Unfinished') \in Nat
      BY <2>1, <2>2, FS_Subset, FS_CardinalityType
    <2>5. Cardinality(L) <= MaxActive
      <3> HIDE DEF L
      <3> QED BY <2>3, <2>4, RunsAssumption DEF StoreKept, CapacityTaken
    <2> QED BY <2>5 DEF CapacityExact, UnfinishedWorkedOn
  <1> QED BY <1>1, <1>2 DEF StepKeeps, IInv, RunsConsistent, StoreKept

\* A snapshot that says of r what the engine's manifest says, or rather less.
Honest(r, snapshot) ==
  /\ IsTerminal(snapshot) =>
       /\ snapshot.code \in {None, "PIPELINE"} =>
            manifest[r] # None /\ snapshot.status = manifest[r].status
       /\ snapshot.code = "INTERNAL" =>
            manifest[r] = None \/ manifest[r].status = "running"
  /\ ~IsTerminal(snapshot) =>
       snapshot.done <= IF manifest[r] = None THEN 0 ELSE manifest[r].done
  /\ snapshot.code = "INTERNAL" \/ snapshot.done >= store[r].done

\* Saving an honest successor of the snapshot of r.
LEMMA SavingKeeps ==
  ASSUME IInv, NEW r \in Stored, NEW snapshot,
         Succeeds(r, snapshot), Honest(r, snapshot), Save(r, snapshot),
         UNCHANGED <<manifest, issued>>, RestTypeOK', JournalShape',
         \A q \in RunIds \ {r} : phase'[q] = phase[q],
         phase'[r] \in Live => ~IsTerminal(snapshot),
         phase'[r] \in Live \/ IsTerminal(snapshot) \/ r \in FaultyRuns
  PROVE  StepKeeps
  <1>1. /\ StoreKept
        /\ \A q \in RunIds \ {r} : store'[q] \in {store[q], None}
        /\ store'[r] \in {snapshot, None}
        /\ \A q \in Unfinished \ {r} : store'[q] = store[q]
        /\ ~IsTerminal(snapshot) => store'[r] = snapshot
        /\ Unfinished' = {q \in Unfinished : q # r \/ ~IsTerminal(snapshot)}
    BY SaveKeeps
  <1>2. ~IsTerminal(snapshot) => r \in Unfinished
    BY DEF Succeeds, Unfinished, Terminal
  <1>3. r \in RunIds /\ Unfinished \subseteq RunIds
    BY DEF Stored, Unfinished
  <1>4. LiveRunsVisible'
    BY <1>1, <1>2, <1>3 DEF LiveRunsVisible, IInv, RunsConsistent
  <1>5. VerdictTruthful'
    <2>1. \A q \in Terminal' : q \in RunIds /\ (q # r => q \in Terminal /\ store'[q] = store[q])
      BY <1>1 DEF Terminal, Stored
    <2>2. r \in Terminal' => store'[r] = snapshot /\ IsTerminal(snapshot)
      BY <1>1 DEF Terminal, Stored
    <2> QED BY <2>1, <2>2 DEF VerdictTruthful, IInv, RunsConsistent, Honest
  <1>6. UnfinishedWorkedOn'
    BY <1>1, <1>3 DEF UnfinishedWorkedOn, IInv, RunsConsistent, CapacityExact
  <1>7. IdsUsed'
    <2>1. r \in issued
      BY <1>3 DEF IInv, IdsUsed, Stored
    <2> QED BY <1>1, <2>1 DEF IInv, IdsUsed
  <1>8. ProgressShown'
    BY <1>1, <1>3 DEF ProgressShown, IInv, Honest
  <1>9. ProgressStep
    <2>1. \A q \in RunIds : store[q] # None => store[q].done \in 0..Steps
      BY RunShape DEF Snapshots
    <2> QED BY <1>1, <1>3, <2>1 DEF ProgressStep, Honest, Stored
  <1> QED BY <1>1, <1>4, <1>5, <1>6, <1>7, <1>8, <1>9, Assemble

\* A step without a write: the engine records more in the manifests of running
\* tasks, tasks go on, end although a snapshot is missing, or are released.
LEMMA WritingNothingKeeps ==
  ASSUME IInv, UNCHANGED <<store, issued>>, RestTypeOK', JournalShape',
         \A r \in RunIds : manifest'[r] = manifest[r] \/
            /\ phase[r] = "running" /\ manifest'[r] # None
            /\ manifest[r] = None \/ manifest'[r].done >= manifest[r].done,
         \A r \in RunIds :
            \/ phase'[r] = phase[r]
            \/ phase[r] \in Live /\ (phase'[r] \in Live \/ r \in FaultyRuns)
            \/ phase[r] = "ended" /\ phase'[r] = "none"
  PROVE  StepKeeps
  <1>1. StoreKept
    BY DEF StoreKept, IInv, RunsConsistent, TypeOK, Stored, Terminal, Unfinished,
           OneRunPerKey, RetentionBound, CapacityTaken
  <1>2. Stored' = Stored /\ Terminal' = Terminal /\ Unfinished' = Unfinished
    BY DEF Stored, Terminal, Unfinished
  <1>3. Stored \subseteq RunIds /\ Terminal \subseteq Stored /\ Unfinished = Stored \ Terminal
    BY DEF Stored, Terminal, Unfinished
  <1>4. \A r \in RunIds : phase[r] = "running" => r \in Unfinished
    BY DEF IInv, RunsConsistent, LiveRunsVisible, Live
  <1>5. LiveRunsVisible'
    BY <1>2 DEF LiveRunsVisible, IInv, RunsConsistent, Live
  <1>6. VerdictTruthful'
    BY <1>2, <1>3, <1>4 DEF VerdictTruthful, IInv, RunsConsistent
  <1>7. UnfinishedWorkedOn'
    BY <1>2, <1>3 DEF UnfinishedWorkedOn, IInv, RunsConsistent, CapacityExact, Live
  <1>8. IdsUsed'
    BY <1>4 DEF IdsUsed, IInv, Live
  <1>9. ProgressShown'
    <2> SUFFICES ASSUME NEW r \in Unfinished
                 PROVE  store[r].done <= IF manifest'[r] = None THEN 0 ELSE manifest'[r].done
      BY <1>2 DEF ProgressShown
    <2>1. store[r].done <= IF manifest[r] = None THEN 0 ELSE manifest[r].done
      BY DEF IInv, ProgressShown
    <2>2. /\ r \in RunIds /\ store[r].done \in Nat
          /\ manifest[r] # None => manifest[r].done \in Nat
          /\ manifest'[r] # None => manifest'[r].done \in Nat
      BY <1>3, RunsAssumption
         DEF IInv, RunsConsistent, TypeOK, Snapshots, Manifests, RestTypeOK, Stored
    <2> QED BY <2>1, <2>2
  <1>10. ProgressStep
    <2>1. \A q \in Stored : store[q].done \in 0..Steps
      BY RunShape DEF Snapshots, Stored
    <2> QED BY <2>1 DEF ProgressStep
  <1> QED BY <1>1, <1>5, <1>6, <1>7, <1>8, <1>9, <1>10, Assemble
-----------------------------------------------------------------------------
(***************************************************************************)
(* The actions.                                                             *)
(***************************************************************************)
\* A verdict on an unfinished run is a successor of its snapshot.
LEMMA VerdictSucceeds ==
  ASSUME IInv, NEW r \in Unfinished, NEW status \in Ends, NEW done \in 0..Steps,
         NEW code \in Codes
  PROVE  /\ Succeeds(r, Verdict(store[r], status, done, code))
         /\ IsTerminal(Verdict(store[r], status, done, code))
         /\ Verdict(store[r], status, done, code).status = status
         /\ Verdict(store[r], status, done, code).done = done
         /\ Verdict(store[r], status, done, code).code = code
  <1> DEFINE v == Verdict(store[r], status, done, code)
  <1>1. r \in RunIds
    BY DEF Unfinished, Stored
  <1>2. /\ store[r] \in Snapshots /\ ~IsTerminal(store[r]) /\ now \in 0..MaxTime
        /\ r \notin Terminal
    BY <1>1, RunShape
  <1>3. /\ v \in Snapshots /\ v.status = status /\ v.done = done /\ v.code = code
        /\ v.completedAt = now /\ v.key = store[r].key
    BY <1>2 DEF Snapshots, Verdict
  <1>4. now # None
    BY <1>2, RunsAssumption
  <1>5. IsTerminal(v)
    BY <1>3 DEF IsTerminal
  <1> HIDE DEF v
  <1>6. Succeeds(r, v)
    BY <1>2, <1>3, <1>4, <1>5 DEF Succeeds
  <1> QED BY <1>3, <1>5, <1>6 DEF v

\* What _refresh returns follows the stored snapshot and is honest; it ends no
\* run whose task is at work.
LEMMA RefreshedFacts ==
  ASSUME IInv, LoopFree, NEW r \in Stored
  PROVE  /\ Succeeds(r, Refreshed(r)) /\ Honest(r, Refreshed(r))
         /\ phase[r] \in Live => ~IsTerminal(Refreshed(r))
         /\ phase[r] \in Live \/ IsTerminal(Refreshed(r)) \/ r \in FaultyRuns
  <1> DEFINE old == store[r]
             m == manifest[r]
  <1>1. r \in RunIds
    BY DEF Stored
  <1>2. /\ old \in Snapshots /\ (old.completedAt # None) = IsTerminal(old)
        /\ m # None => m \in Manifests
        /\ phase[r] \in Live => ~IsTerminal(old)
        /\ r \in Terminal <=> IsTerminal(old)
        /\ r \in Unfinished <=> ~IsTerminal(old)
        /\ phase[r] \in Live \cup {"none", "ended"}
    BY <1>1, RunShape DEF Stored
  <1>3. /\ m # None => /\ m.done + m.open <= Steps
                       /\ m.status = "running" => m.open = 0
        /\ phase[r] \in Live => m = None \/ m.status = "running"
    BY <1>1 DEF IInv, JournalShape, LoopFree, Live
  <1>4. ~IsTerminal(old) => /\ old.done <= IF m = None THEN 0 ELSE m.done
                            /\ phase[r] \in Live \/ r \in FaultyRuns
    BY <1>2 DEF IInv, RunsConsistent, CapacityExact, ProgressShown
  <1>5. old.done \in 0..Steps /\ (m # None => m.done \in 0..Steps /\ m.open \in 0..1)
    BY <1>2 DEF Snapshots, Manifests
  <1>6. CASE IsTerminal(old)
    <2>1. Refreshed(r) = old
      BY <1>6 DEF Refreshed
    <2>2. Honest(r, old)
      BY <1>2, <1>5, <1>6, RunsAssumption
         DEF Honest, IInv, RunsConsistent, VerdictTruthful
    <2> QED BY <1>2, <1>6, <2>1, <2>2 DEF Succeeds
  <1>7. CASE ~IsTerminal(old) /\ ~Registered(r)
    <2>1. Refreshed(r) = Verdict(old, "failed", old.done, "RUN_INTERRUPTED")
      BY <1>7 DEF Refreshed, Interrupted
    <2>2. /\ Succeeds(r, Refreshed(r)) /\ IsTerminal(Refreshed(r))
          /\ Refreshed(r).code = "RUN_INTERRUPTED" /\ Refreshed(r).done = old.done
      BY <1>2, <1>5, <1>7, <2>1, VerdictSucceeds DEF Ends, Codes
    <2>3. Honest(r, Refreshed(r))
      BY <1>5, <2>2, RunsAssumption DEF Honest
    <2>4. phase[r] \notin Live
      BY <1>7 DEF Registered, Live
    <2> QED BY <2>2, <2>3, <2>4
  <1>8. CASE ~IsTerminal(old) /\ Registered(r) /\ (m = None \/ m.status = "running")
    <2> DEFINE new == Refreshed(r)
    <2>1. new = IF m = None THEN old
                ELSE [old EXCEPT !.status = "running", !.done = m.done]
      BY <1>8 DEF Refreshed
    <2>2. /\ new \in Snapshots /\ ~IsTerminal(new) /\ new.key = old.key
          /\ new.completedAt = old.completedAt
          /\ new.done = IF m = None THEN old.done ELSE m.done
      BY <1>2, <1>5, <1>8, <2>1 DEF Snapshots, IsTerminal, Ends
    <2> HIDE DEF new
    <2>3. Succeeds(r, new)
      <3>1. old.completedAt = None /\ r \notin Terminal
        BY <1>2, <1>8
      <3> QED BY <2>2, <3>1 DEF Succeeds, IsTerminal
    <2>4. Honest(r, new)
      BY <1>4, <1>5, <1>8, <2>2 DEF Honest
    <2> QED BY <1>4, <1>8, <2>2, <2>3, <2>4 DEF new
  <1>9. CASE ~IsTerminal(old) /\ Registered(r) /\ m # None /\ m.status # "running"
    <2>1. Refreshed(r) = Verdict(old, m.status, Completed(m), CodeOf(m.status))
      BY <1>9 DEF Refreshed
    <2>2. /\ m.status \in Ends /\ Completed(m) \in 0..Steps /\ CodeOf(m.status) \in Codes
          /\ Completed(m) >= m.done
      BY <1>2, <1>3, <1>5, <1>9, RunsAssumption DEF Manifests, Completed, CodeOf, Codes
    <2>3. /\ Succeeds(r, Refreshed(r)) /\ IsTerminal(Refreshed(r))
          /\ Refreshed(r).status = m.status /\ Refreshed(r).done = Completed(m)
          /\ Refreshed(r).code = CodeOf(m.status)
      BY <1>2, <1>9, <2>1, <2>2, VerdictSucceeds
    <2>4. Honest(r, Refreshed(r))
      <3>1. Refreshed(r).done >= old.done
        BY <1>4, <1>5, <1>9, <2>2, <2>3
      <3>2. Refreshed(r).code # "INTERNAL"
        BY <2>3, RunsAssumption DEF CodeOf
      <3> QED BY <1>9, <2>3, <3>1, <3>2 DEF Honest
    <2>5. phase[r] \notin Live
      BY <1>3, <1>9
    <2> QED BY <2>3, <2>4, <2>5
  <1> QED BY <1>6, <1>7, <1>8, <1>9

LEMMA GetKeeps ==
  ASSUME IInv, NEW r \in RunIds, Get(r)
  PROVE  StepKeeps
  <1>1. /\ LoopFree /\ r \in Stored /\ Save(r, Refreshed(r)) /\ now' \in 0..MaxTime
        /\ UNCHANGED <<manifest, phase, token, issued, restarts>>
    BY DEF Get, TimePasses
  <1>2. RestTypeOK' /\ JournalShape'
    BY <1>1 DEF IInv, RunsConsistent, TypeOK, RestTypeOK, JournalShape
  <1> QED BY <1>1, <1>2, RefreshedFacts, SavingKeeps

LEMMA CancelKeeps ==
  ASSUME IInv, NEW r \in RunIds, Cancel(r)
  PROVE  StepKeeps
  <1>1. /\ LoopFree /\ r \in Stored /\ Save(r, Refreshed(r)) /\ now' \in 0..MaxTime
        /\ UNCHANGED <<manifest, phase, issued, restarts>>
    BY DEF Cancel, TimePasses
  <1>2. token' \in [RunIds -> BOOLEAN]
    <2>1. token' = [token EXCEPT ![r] = token[r] \/ ~IsTerminal(Refreshed(r))]
      BY DEF Cancel
    <2>2. token \in [RunIds -> BOOLEAN]
      BY DEF IInv, RunsConsistent, TypeOK
    <2>3. (token[r] \/ ~IsTerminal(Refreshed(r))) \in BOOLEAN
      OBVIOUS
    <2> QED BY <2>1, <2>2, <2>3
  <1>3. RestTypeOK' /\ JournalShape'
    BY <1>1, <1>2 DEF IInv, RunsConsistent, TypeOK, RestTypeOK, JournalShape
  <1> QED BY <1>1, <1>3, RefreshedFacts, SavingKeeps

LEMMA ExecuteBeginsKeeps ==
  ASSUME IInv, NEW r \in RunIds, ExecuteBegins(r)
  PROVE  StepKeeps
  <1> DEFINE new == [Queued(store[r].key) EXCEPT !.status = "running"]
  <1>1. /\ phase[r] = "created"
        /\ UNCHANGED <<manifest, token, issued, now, restarts>>
    BY DEF ExecuteBegins
  <1>2. /\ r \in Unfinished /\ r \in Stored /\ r \notin Terminal
        /\ store[r] \in Snapshots /\ manifest[r] = None
        /\ store[r].done \in 0..Steps /\ store[r].done <= 0
    <2>1. r \in Unfinished /\ manifest[r] = None
      BY <1>1, RunShape DEF Live, IInv, JournalShape
    <2>2. store[r].done <= 0
      BY <2>1 DEF IInv, ProgressShown
    <2> QED BY <2>1, <2>2, RunShape DEF Snapshots
  <1>3. CASE Save(r, new) /\ phase' = [phase EXCEPT ![r] = "running"]
    <2>1. /\ new \in Snapshots /\ new.completedAt = None /\ new.key = store[r].key
          /\ new.status = "running" /\ new.done = 0 /\ new.code = None
      BY <1>2, RunsAssumption DEF Queued, Snapshots, Codes
    <2> HIDE DEF new
    <2>2. ~IsTerminal(new)
      BY <2>1 DEF IsTerminal, Ends
    <2>3. Succeeds(r, new)
      BY <1>2, <2>1, <2>2 DEF Succeeds, IsTerminal
    <2>4. Honest(r, new)
      BY <1>2, <2>1, <2>2 DEF Honest
    <2>5. RestTypeOK' /\ JournalShape'
      BY <1>1, <1>2, <1>3
         DEF IInv, RunsConsistent, TypeOK, RestTypeOK, JournalShape, Live
    <2>6. /\ phase'[r] = "running"
          /\ \A q \in RunIds \ {r} : phase'[q] = phase[q]
      BY <1>3 DEF IInv, RunsConsistent, TypeOK
    <2> QED BY <1>1, <1>2, <1>3, <2>2, <2>3, <2>4, <2>5, <2>6, SavingKeeps DEF Live
  <1>4. CASE r \in FaultyRuns /\ phase' = [phase EXCEPT ![r] = "ended"] /\ UNCHANGED store
    <2>1. RestTypeOK' /\ JournalShape'
      BY <1>1, <1>4 DEF IInv, RunsConsistent, TypeOK, RestTypeOK, JournalShape, Live
    <2>2. \A q \in RunIds : phase'[q] = IF q = r THEN "ended" ELSE phase[q]
      BY <1>4 DEF IInv, RunsConsistent, TypeOK
    <2> QED BY <1>1, <1>4, <2>1, <2>2, WritingNothingKeeps DEF Live
  <1> QED BY <1>3, <1>4 DEF ExecuteBegins

LEMMA EngineProgressKeeps ==
  ASSUME IInv, NEW r \in RunIds, EngineProgress(r)
  PROVE  StepKeeps
  <1>1. phase[r] = "running" /\ UNCHANGED <<store, phase, token, issued, now, restarts>>
    BY DEF EngineProgress
  <1>2. /\ manifest \in [RunIds -> Manifests \cup {None}]
        /\ manifest[r] # None => /\ manifest[r] \in Manifests
                                 /\ manifest[r].status = "running"
                                 /\ manifest[r].open = 0
    BY <1>1, RunShape DEF IInv, RunsConsistent, TypeOK, JournalShape
  <1>3. /\ \A q \in RunIds \ {r} : manifest'[q] = manifest[q]
        /\ manifest'[r] \in Manifests /\ manifest'[r].status = "running"
        /\ manifest'[r].open = 0
        /\ manifest[r] = None \/ manifest'[r].done >= manifest[r].done
        /\ manifest' \in [RunIds -> Manifests \cup {None}]
    <2>1. CASE manifest[r] = None /\ manifest' = [manifest EXCEPT ![r] = Journal]
      <3>1. Journal \in Manifests /\ Journal.status = "running" /\ Journal.open = 0
        BY RunsAssumption DEF Journal, Manifests
      <3> QED BY <1>2, <2>1, <3>1
    <2>2. CASE /\ manifest[r] # None /\ manifest[r].done < Steps
               /\ manifest' = [manifest EXCEPT ![r].done = @ + 1]
      <3> DEFINE new == [manifest[r] EXCEPT !.done = manifest[r].done + 1]
      <3>1. /\ new \in Manifests /\ new.status = "running" /\ new.open = 0
            /\ new.done >= manifest[r].done
        BY <1>2, <2>2, RunsAssumption DEF Manifests
      <3>2. manifest' = [manifest EXCEPT ![r] = new]
        BY <2>2
      <3> HIDE DEF new
      <3> QED BY <1>2, <3>1, <3>2
    <2> QED BY <2>1, <2>2 DEF EngineProgress
  <1>4. manifest'[r] # None
    BY <1>3, NoneIsNoRecord
  <1>5. RestTypeOK'
    BY <1>1, <1>3 DEF IInv, RunsConsistent, TypeOK, RestTypeOK
  <1>6. JournalShape'
    <2>1. manifest'[r].done + manifest'[r].open <= Steps
      BY <1>3, RunsAssumption DEF Manifests
    <2> QED BY <1>1, <1>3, <2>1 DEF IInv, JournalShape
  <1> QED BY <1>1, <1>3, <1>4, <1>5, <1>6, WritingNothingKeeps

LEMMA EngineReturnsKeeps ==
  ASSUME IInv, NEW r \in RunIds, EngineReturns(r)
  PROVE  StepKeeps
  <1>1. /\ phase[r] = "running" /\ manifest[r] # None
        /\ phase' = [phase EXCEPT ![r] = "saving"]
        /\ UNCHANGED <<store, token, issued, now, restarts>>
    BY DEF EngineReturns
  <1>2. PICK status \in Ends, open \in 0..1 :
          /\ IF status = "succeeded" THEN manifest[r].done = Steps /\ open = 0
                                     ELSE manifest[r].done < Steps
          /\ manifest' = [manifest EXCEPT ![r].status = status, ![r].open = open]
    BY DEF EngineReturns
  <1> DEFINE new == [manifest[r] EXCEPT !.status = status, !.open = open]
  <1>3. /\ manifest \in [RunIds -> Manifests \cup {None}] /\ manifest[r] \in Manifests
        /\ phase \in [RunIds -> Live \cup {"none", "ended"}]
    BY <1>1, RunShape DEF IInv, RunsConsistent, TypeOK
  <1>4. /\ new \in Manifests /\ new.status = status /\ new.open = open
        /\ new.done = manifest[r].done /\ new.done + new.open <= Steps
    <2>1. manifest[r].done \in Nat /\ manifest[r].done + open <= Steps
      <3>1. manifest[r].done \in 0..Steps
        BY <1>3 DEF Manifests
      <3> QED BY <1>2, <3>1, RunsAssumption
    <2>2. /\ new \in Manifests /\ new.status = status /\ new.open = open
          /\ new.done = manifest[r].done
      BY <1>3 DEF Manifests
    <2> HIDE DEF new
    <2> QED BY <2>1, <2>2
  <1>5. manifest' = [manifest EXCEPT ![r] = new]
    BY <1>2, <1>3
  <1> HIDE DEF new
  <1>6. /\ \A q \in RunIds \ {r} : manifest'[q] = manifest[q] /\ phase'[q] = phase[q]
        /\ manifest'[r] = new /\ phase'[r] = "saving" /\ new # None
        /\ manifest' \in [RunIds -> Manifests \cup {None}]
        /\ phase' \in [RunIds -> Live \cup {"none", "ended"}]
    BY <1>1, <1>3, <1>4, <1>5, NoneIsNoRecord DEF Live
  <1>7. RestTypeOK'
    BY <1>1, <1>6 DEF IInv, RunsConsistent, TypeOK, RestTypeOK
  <1>8. JournalShape'
    BY <1>1, <1>4, <1>6 DEF IInv, JournalShape, Ends
  <1>9. new.done >= manifest[r].done
    BY <1>3, <1>4 DEF Manifests
  <1> QED BY <1>1, <1>6, <1>7, <1>8, <1>9, WritingNothingKeeps DEF Live

LEMMA SaveResultKeeps ==
  ASSUME IInv, NEW r \in RunIds, SaveResult(r)
  PROVE  StepKeeps
  <1> DEFINE m == manifest[r]
             new == Verdict(store[r], m.status, Completed(m), CodeOf(m.status))
  <1>1. /\ phase[r] = "saving" /\ phase' = [phase EXCEPT ![r] = "ended"]
        /\ Save(r, new) \/ (r \in FaultyRuns /\ UNCHANGED store)
        /\ now' \in 0..MaxTime /\ UNCHANGED <<manifest, token, issued, restarts>>
    BY DEF SaveResult, TimePasses
  <1>2. /\ r \in Unfinished /\ r \in Stored /\ m # None /\ m \in Manifests
        /\ store[r] \in Snapshots /\ m.status \in Ends /\ m.done + m.open <= Steps
    BY <1>1, RunShape DEF Live, IInv, JournalShape
  <1>3. /\ \A q \in RunIds : phase'[q] = IF q = r THEN "ended" ELSE phase[q]
        /\ phase' \in [RunIds -> Live \cup {"none", "ended"}]
    BY <1>1 DEF IInv, RunsConsistent, TypeOK
  <1>4. RestTypeOK' /\ JournalShape'
    BY <1>1, <1>3 DEF IInv, RunsConsistent, TypeOK, RestTypeOK, JournalShape
  <1>5. CASE Save(r, new)
    <2>1. /\ Completed(m) \in 0..Steps /\ CodeOf(m.status) \in Codes
          /\ Completed(m) >= m.done /\ store[r].done <= m.done /\ m.done \in Nat
          /\ store[r].done \in Nat
      BY <1>2, RunsAssumption
         DEF Manifests, Snapshots, Completed, CodeOf, Codes, IInv, ProgressShown
    <2>2. /\ Succeeds(r, new) /\ IsTerminal(new) /\ new.status = m.status
          /\ new.done = Completed(m) /\ new.code = CodeOf(m.status)
      BY <1>2, <2>1, VerdictSucceeds
    <2> HIDE DEF new
    <2>3. new.code # "INTERNAL" /\ new.done >= store[r].done
      <3>1. new.code # "INTERNAL"
        BY <2>2, RunsAssumption DEF CodeOf
      <3>2. Completed(m) \in Nat
        BY <2>1
      <3> QED BY <2>1, <2>2, <3>1, <3>2
    <2>4. Honest(r, new)
      BY <1>2, <2>2, <2>3 DEF Honest
    <2>5. phase'[r] \notin Live
      BY <1>2, <1>3 DEF Live, Unfinished, Stored
    <2> QED BY <1>1, <1>2, <1>3, <1>4, <1>5, <2>2, <2>4, <2>5, SavingKeeps
  <1>6. CASE r \in FaultyRuns /\ UNCHANGED store
    BY <1>1, <1>3, <1>4, <1>6, WritingNothingKeeps DEF Live
  <1> QED BY <1>1, <1>5, <1>6

LEMMA EngineRaisesKeeps ==
  ASSUME IInv, NEW r \in RunIds, EngineRaises(r)
  PROVE  StepKeeps
  <1> DEFINE new == Verdict(store[r], "failed", 0, "INTERNAL")
  <1>1. /\ phase[r] = "running" /\ phase' = [phase EXCEPT ![r] = "ended"]
        /\ Save(r, new) \/ (r \in FaultyRuns /\ UNCHANGED store)
        /\ now' \in 0..MaxTime /\ UNCHANGED <<manifest, token, issued, restarts>>
    BY DEF EngineRaises, TimePasses
  <1>2. /\ r \in Unfinished /\ r \in Stored
        /\ manifest[r] = None \/ manifest[r].status = "running"
    BY <1>1, RunShape DEF Live, IInv, JournalShape
  <1>3. /\ \A q \in RunIds : phase'[q] = IF q = r THEN "ended" ELSE phase[q]
        /\ phase' \in [RunIds -> Live \cup {"none", "ended"}]
    BY <1>1 DEF IInv, RunsConsistent, TypeOK
  <1>4. RestTypeOK' /\ JournalShape'
    BY <1>1, <1>3 DEF IInv, RunsConsistent, TypeOK, RestTypeOK, JournalShape
  <1>5. CASE Save(r, new)
    <2>1. "failed" \in Ends /\ 0 \in 0..Steps /\ "INTERNAL" \in Codes
      BY RunsAssumption DEF Ends, Codes
    <2>2. Succeeds(r, new) /\ IsTerminal(new) /\ new.code = "INTERNAL"
      BY <1>2, <2>1, VerdictSucceeds
    <2> HIDE DEF new
    <2>3. Honest(r, new)
      BY <1>2, <2>2, RunsAssumption DEF Honest
    <2>4. phase'[r] \notin Live
      BY <1>3 DEF Live
    <2> QED BY <1>1, <1>2, <1>3, <1>4, <1>5, <2>2, <2>3, <2>4, SavingKeeps
  <1>6. CASE r \in FaultyRuns /\ UNCHANGED store
    BY <1>1, <1>3, <1>4, <1>6, WritingNothingKeeps DEF Live
  <1> QED BY <1>1, <1>5, <1>6

LEMMA ReleaseKeeps ==
  ASSUME IInv, NEW r \in RunIds, Release(r)
  PROVE  StepKeeps
  <1>1. /\ phase[r] = "ended" /\ phase' = [phase EXCEPT ![r] = "none"]
        /\ token' = [token EXCEPT ![r] = FALSE]
        /\ UNCHANGED <<store, manifest, issued, now, restarts>>
    BY DEF Release
  <1>2. \A q \in RunIds : phase'[q] = IF q = r THEN "none" ELSE phase[q]
    BY <1>1 DEF IInv, RunsConsistent, TypeOK
  <1>3. RestTypeOK' /\ JournalShape'
    BY <1>1, <1>2 DEF IInv, RunsConsistent, TypeOK, RestTypeOK, JournalShape
  <1> QED BY <1>1, <1>2, <1>3, WritingNothingKeeps

LEMMA ShutdownKeeps ==
  ASSUME IInv, Shutdown
  PROVE  StepKeeps
  <1>1. UNCHANGED <<store, manifest, phase, issued, now, restarts>>
    BY DEF Shutdown
  <1>2. token' \in [RunIds -> BOOLEAN]
    BY DEF Shutdown, IInv, RunsConsistent, TypeOK
  <1>3. RestTypeOK' /\ JournalShape'
    BY <1>1, <1>2 DEF IInv, RunsConsistent, TypeOK, RestTypeOK, JournalShape
  <1> QED BY <1>1, <1>3, WritingNothingKeeps

LEMMA CreateKeeps ==
  ASSUME IInv, NEW k \in Keys, Create(k)
  PROVE  StepKeeps
  <1>1. PICK r \in RunIds \ issued :
          /\ issued' = issued \cup {r}
          /\ Save(r, Queued(k))
          /\ phase' = [phase EXCEPT ![r] = "created"]
    BY DEF Create
  <1>2. /\ ~KeyTaken(k) /\ ActiveCount < MaxActive
        /\ UNCHANGED <<manifest, token, now, restarts>>
    BY DEF Create
  <1>3. store[r] = None /\ manifest[r] = None /\ phase[r] = "none"
    BY DEF IInv, IdsUsed
  <1> DEFINE s == [store EXCEPT ![r] = Queued(k)]
  <1>4. /\ Queued(k) \in Snapshots /\ ~IsTerminal(Queued(k)) /\ Queued(k).key = k
        /\ Queued(k).completedAt = None /\ Queued(k).done = 0 /\ Queued(k) # None
    BY RunsAssumption, NoneIsNoRecord DEF Queued, Snapshots, IsTerminal, Ends, Codes
  <1>5. /\ s \in Contents
        /\ \A q \in RunIds : s[q] = IF q = r THEN Queued(k) ELSE store[q]
    BY <1>4 DEF Contents, IInv, RunsConsistent, TypeOK
  <1>6. store' = Pruned(s)
    BY <1>1 DEF Save
  <1> HIDE DEF s
  <1>7. DatesFit(s)
    BY <1>4, <1>5, RunShape DEF DatesFit, IsTerminal
  <1>8. /\ store' \in Contents /\ DatesFit(store')
        /\ \A q \in RunIds : store'[q] \in {None, s[q]}
        /\ \A q \in RunIds : s[q] # None /\ ~IsTerminal(s[q]) => store'[q] = s[q]
        /\ Cardinality(Terminal') <= Retain
        /\ \A q \in RunIds : s[q] # None /\ store'[q] = None =>
              q \in Ended(s) /\ Cardinality({p \in Ended(store') :
                 store'[p].completedAt >= s[q].completedAt}) >= Retain
    BY <1>5, <1>6, <1>7, PrunedFacts
  <1>9. /\ store'[r] = Queued(k)
        /\ \A q \in RunIds \ {r} : store'[q] \in {store[q], None}
        /\ \A q \in Unfinished : store'[q] = store[q]
    <2>1. \A q \in Unfinished : q \in RunIds \ {r}
      BY <1>3 DEF Unfinished, Stored
    <2> QED BY <1>4, <1>5, <1>8, <2>1, RunShape
  <1>10. Unfinished' = Unfinished \cup {r} /\ r \notin Unfinished
    BY <1>3, <1>4, <1>9 DEF Unfinished, Stored, Terminal
  <1>11. CapacityTaken'
    <2>1. IsFiniteSet(Unfinished) /\ Cardinality(Unfinished) \in Nat
      BY RunsAssumption, FS_Subset, FS_CardinalityType DEF Unfinished, Stored
    <2>2. Cardinality(Unfinished') = Cardinality(Unfinished) + 1
      BY <1>10, <2>1, FS_AddElement
    <2> QED BY <1>2, <2>1, <2>2, RunsAssumption DEF ActiveCount, CapacityTaken
  <1>12. OneRunPerKey'
    <2>1. \A q \in Stored' : IF q = r THEN store'[q].key = k
                             ELSE q \in Stored /\ store'[q] = store[q]
      BY <1>4, <1>9 DEF Stored
    <2>2. \A q \in Stored : store[q].key # k
      BY <1>2 DEF KeyTaken
    <2> QED BY <2>1, <2>2 DEF IInv, RunsConsistent, OneRunPerKey
  <1>13. \A q \in Terminal : store'[q] \in {store[q], None}
    BY <1>3, <1>9 DEF Terminal, Stored
  <1>14. ASSUME NEW q \in Stored, store'[q] = None
         PROVE  LET since == IF q \in Terminal THEN store[q].completedAt ELSE now
                IN Cardinality({p \in Ended(store') : store'[p].completedAt >= since})
                     >= Retain
    <2>1. q \in RunIds /\ q # r /\ s[q] = store[q] /\ s[q] # None
      BY <1>3, <1>5 DEF Stored
    <2>2. q \in Ended(s) /\ Cardinality({p \in Ended(store') :
                 store'[p].completedAt >= s[q].completedAt}) >= Retain
      BY <1>8, <1>14, <2>1
    <2>3. q \in Terminal
      BY <2>1, <2>2 DEF Terminal, Ended
    <2> QED BY <2>1, <2>2, <2>3
  <1>15. StoreKept
    BY <1>8, <1>11, <1>12, <1>13, <1>14
       DEF StoreKept, Contents, DatesFit, Stored, RetentionBound
  <1>16. \A q \in RunIds : phase'[q] = IF q = r THEN "created" ELSE phase[q]
    BY <1>1 DEF IInv, RunsConsistent, TypeOK
  <1>17. RestTypeOK' /\ JournalShape'
    BY <1>1, <1>2, <1>3, <1>16
       DEF IInv, RunsConsistent, TypeOK, RestTypeOK, JournalShape, Live
  <1>18. LiveRunsVisible' /\ UnfinishedWorkedOn'
    BY <1>10, <1>16 DEF LiveRunsVisible, UnfinishedWorkedOn, IInv, RunsConsistent,
                        CapacityExact, Live, Unfinished, Stored
  <1>19. VerdictTruthful'
    <2>1. \A q \in Terminal' : q \in Terminal /\ store'[q] = store[q]
      BY <1>4, <1>9 DEF Terminal, Stored
    <2> QED BY <1>2, <2>1 DEF VerdictTruthful, IInv, RunsConsistent
  <1>20. IdsUsed'
    BY <1>1, <1>2, <1>9, <1>16 DEF IdsUsed, IInv
  <1>21. ProgressShown'
    BY <1>2, <1>3, <1>4, <1>9, <1>10 DEF ProgressShown, IInv
  <1>22. ProgressStep
    <2>1. \A q \in Stored : q \in RunIds \ {r} /\ store[q].done \in 0..Steps
      BY <1>3, RunShape DEF Stored, Snapshots
    <2> QED BY <1>9, <2>1 DEF ProgressStep
  <1> QED BY <1>15, <1>17, <1>18, <1>19, <1>20, <1>21, <1>22, Assemble

LEMMA RestartKeeps ==
  ASSUME IInv, Restart
  PROVE  StepKeeps
  <1> DEFINE s == [r \in RunIds |-> IF r \in Unfinished THEN Interrupted(store[r])
                                    ELSE store[r]]
  <1>1. /\ restarts' \in 0..MaxRestarts /\ phase' = [r \in RunIds |-> "none"]
        /\ token' = [r \in RunIds |-> FALSE] /\ now' \in 0..MaxTime
        /\ UNCHANGED <<manifest, issued>>
    BY RunsAssumption DEF Restart, TimePasses, IInv, RunsConsistent, TypeOK
  <1>2. store' = Pruned(s)
    BY DEF Restart
  <1>3. ASSUME NEW r \in Unfinished
        PROVE  /\ Succeeds(r, Interrupted(store[r])) /\ IsTerminal(Interrupted(store[r]))
               /\ Interrupted(store[r]).done = store[r].done
               /\ Interrupted(store[r]).code = "RUN_INTERRUPTED"
               /\ Interrupted(store[r]) # None
    <2>1. store[r].done \in 0..Steps
      BY RunShape DEF Unfinished, Stored, Snapshots
    <2>2. "failed" \in Ends /\ "RUN_INTERRUPTED" \in Codes
      BY DEF Ends, Codes
    <2>3. /\ Succeeds(r, Interrupted(store[r])) /\ IsTerminal(Interrupted(store[r]))
          /\ Interrupted(store[r]).done = store[r].done
          /\ Interrupted(store[r]).code = "RUN_INTERRUPTED"
      BY <2>1, <2>2, VerdictSucceeds DEF Interrupted
    <2> QED BY <2>3, NoneIsNoRecord DEF Succeeds
  <1>4. \A r \in RunIds : s[r] = IF r \in Unfinished THEN Interrupted(store[r])
                                 ELSE store[r]
    OBVIOUS
  <1>5. s \in Contents
    <2>1. \A r \in RunIds : s[r] \in Snapshots \cup {None}
      BY <1>3, <1>4, RunShape DEF Succeeds
    <2> QED BY <2>1 DEF Contents
  <1> HIDE DEF s
  <1>6. DatesFit(s)
    BY <1>3, <1>4, RunShape DEF DatesFit, Succeeds
  <1>7. /\ store' \in Contents /\ DatesFit(store')
        /\ \A q \in RunIds : store'[q] \in {None, s[q]}
        /\ Cardinality(Terminal') <= Retain
        /\ \A q \in RunIds : s[q] # None /\ store'[q] = None =>
              q \in Ended(s) /\ Cardinality({p \in Ended(store') :
                 store'[p].completedAt >= s[q].completedAt}) >= Retain
    BY <1>2, <1>5, <1>6, PrunedFacts
  <1>8. Unfinished' = {}
    <2>1. \A q \in RunIds : s[q] # None => IsTerminal(s[q])
      BY <1>3, <1>4, RunShape
    <2> QED BY <1>7, <2>1 DEF Unfinished, Stored, Terminal
  <1>9. CapacityTaken'
    BY <1>8, FS_EmptySet, RunsAssumption DEF CapacityTaken
  <1>10. \A q \in Stored' : /\ q \in Stored /\ store'[q] = s[q]
                            /\ store'[q].key = store[q].key
    <2>1. \A q \in Stored' : q \in RunIds /\ store'[q] = s[q] /\ s[q] # None
      BY <1>7 DEF Stored
    <2>2. \A q \in RunIds : s[q] # None => q \in Stored /\ s[q].key = store[q].key
      BY <1>3, <1>4, RunShape DEF Succeeds
    <2> QED BY <2>1, <2>2
  <1>11. OneRunPerKey'
    BY <1>10 DEF IInv, RunsConsistent, OneRunPerKey
  <1>12. \A q \in Terminal : q \in RunIds /\ s[q] = store[q] /\ store'[q] \in {store[q], None}
    BY <1>4, <1>7 DEF Terminal, Stored, Unfinished
  <1>13. ASSUME NEW q \in Stored, store'[q] = None
         PROVE  LET since == IF q \in Terminal THEN store[q].completedAt ELSE now
                IN Cardinality({p \in Ended(store') : store'[p].completedAt >= since})
                     >= Retain
    <2>1. q \in RunIds /\ s[q] # None
      BY <1>3, <1>4 DEF Stored
    <2>2. Cardinality({p \in Ended(store') :
                 store'[p].completedAt >= s[q].completedAt}) >= Retain
      BY <1>7, <1>13, <2>1
    <2>3. s[q].completedAt = IF q \in Terminal THEN store[q].completedAt ELSE now
      BY <1>3, <1>4, <1>12, <2>1 DEF Succeeds, Unfinished
    <2> QED BY <2>2, <2>3
  <1>14. StoreKept
    BY <1>7, <1>9, <1>11, <1>12, <1>13
       DEF StoreKept, Contents, DatesFit, Stored, RetentionBound
  <1>15. RestTypeOK' /\ JournalShape'
    BY <1>1 DEF IInv, RunsConsistent, TypeOK, RestTypeOK, JournalShape
  <1>16. LiveRunsVisible' /\ UnfinishedWorkedOn' /\ ProgressShown'
    BY <1>1, <1>8 DEF LiveRunsVisible, UnfinishedWorkedOn, ProgressShown, Live
  <1>17. VerdictTruthful'
    <2>1. \A q \in Terminal' : q \in Stored /\ store'[q] = s[q]
      BY <1>10 DEF Terminal
    <2>2. ASSUME NEW q \in Terminal', q \notin Unfinished
          PROVE  q \in Terminal /\ store'[q] = store[q]
      BY <1>4, <2>1, <2>2 DEF Unfinished, Stored
    <2>3. ASSUME NEW q \in Terminal', q \in Unfinished
          PROVE  store'[q].code = "RUN_INTERRUPTED"
      BY <1>3, <1>4, <2>1, <2>3 DEF Stored
    <2> QED BY <1>1, <2>2, <2>3, RunsAssumption DEF VerdictTruthful, IInv, RunsConsistent
  <1>18. IdsUsed'
    <2>1. \A q \in RunIds \ issued : q \notin Stored
      BY DEF IInv, IdsUsed, Stored
    <2>2. \A q \in RunIds \ issued : store'[q] = None
      BY <1>10, <2>1 DEF Stored
    <2> QED BY <1>1, <2>2 DEF IInv, IdsUsed
  <1>19. ProgressStep
    <2>1. ASSUME NEW q \in Stored, store'[q] # None
          PROVE  store'[q].done = store[q].done /\ store[q].done \in 0..Steps
      <3>1. q \in RunIds /\ store'[q] = s[q] /\ store[q] \in Snapshots
        BY <1>7, <2>1, RunShape DEF Stored
      <3> QED BY <1>3, <1>4, <3>1 DEF Snapshots
    <2> QED BY <2>1 DEF ProgressStep
  <1> QED BY <1>14, <1>15, <1>16, <1>17, <1>18, <1>19, Assemble

LEMMA StutterKeeps ==
  ASSUME IInv, UNCHANGED vars
  PROVE  StepKeeps
  <1>1. UNCHANGED <<store, manifest, phase, token, issued, now, restarts>>
    BY DEF vars
  <1>2. RestTypeOK' /\ JournalShape'
    BY <1>1 DEF IInv, RunsConsistent, TypeOK, RestTypeOK, JournalShape
  <1> QED BY <1>1, <1>2, WritingNothingKeeps

LEMMA NextKeeps ==
  ASSUME IInv, [Next]_vars
  PROVE  StepKeeps
  <1>1. CASE \E k \in Keys : Create(k)
    BY <1>1, CreateKeeps
  <1>2. CASE \E r \in RunIds : Get(r) \/ Cancel(r) \/ ExecuteBegins(r)
    BY <1>2, GetKeeps, CancelKeeps, ExecuteBeginsKeeps
  <1>3. CASE \E r \in RunIds : EngineProgress(r) \/ EngineReturns(r) \/ EngineRaises(r)
    BY <1>3, EngineProgressKeeps, EngineReturnsKeeps, EngineRaisesKeeps
  <1>4. CASE \E r \in RunIds : SaveResult(r) \/ Release(r)
    BY <1>4, SaveResultKeeps, ReleaseKeeps
  <1>5. CASE Shutdown \/ Restart
    BY <1>5, ShutdownKeeps, RestartKeeps
  <1>6. CASE UNCHANGED vars
    BY <1>6, StutterKeeps
  <1> QED BY <1>1, <1>2, <1>3, <1>4, <1>5, <1>6 DEF Next

LEMMA InitIInv == Init => IInv
  <1> SUFFICES ASSUME Init PROVE IInv
    OBVIOUS
  <1>1. Stored = {} /\ Terminal = {} /\ Unfinished = {}
    BY DEF Init, Stored, Terminal, Unfinished
  <1>2. TypeOK
    BY <1>1, RunsAssumption DEF Init, TypeOK
  <1>3. {r \in RunIds : phase[r] \in Live} = {}
    BY DEF Init, Live
  <1>4. Cardinality({}) = 0
    BY FS_EmptySet
  <1>5. LiveRunsVisible /\ OneRunPerKey /\ VerdictTruthful
    BY <1>1 DEF Init, LiveRunsVisible, OneRunPerKey, VerdictTruthful, Live
  <1>6. RetentionBound /\ CapacityExact /\ CapacityTaken
    BY <1>1, <1>3, <1>4, RunsAssumption DEF RetentionBound, CapacityExact, CapacityTaken
  <1>7. IdsUsed /\ JournalShape /\ ProgressShown
    BY <1>1 DEF Init, IdsUsed, JournalShape, ProgressShown
  <1> QED BY <1>2, <1>5, <1>6, <1>7 DEF IInv, RunsConsistent
-----------------------------------------------------------------------------
(***************************************************************************)
(* The theorems.                                                            *)
(***************************************************************************)
LEMMA Invariance == Spec => []IInv
  <1>1. IInv /\ [Next]_vars => IInv'
    BY NextKeeps DEF StepKeeps
  <1> QED BY <1>1, InitIInv, PTL DEF Spec

\* However many runs there are, of however many Stages, and whatever the capacity
\* and the retention: runs at work are visible, no two share a key, verdicts are
\* those of the engine, and neither retention nor capacity is exceeded.
THEOREM RunsAlwaysConsistent == Spec => []RunsConsistent
  BY Invariance, PTL DEF IInv

\* No verdict changes and no progress is taken back, across polls, late cancels,
\* failed writes and process deaths.
THEOREM NothingIsRevised == Spec => NothingRevised
  <1>1. ASSUME IInv, [Next]_vars
        PROVE  /\ [\A r \in Terminal : store'[r] \in {store[r], None}]_vars
               /\ [\A r \in Stored : store'[r] # None =>
                     store'[r].code = "INTERNAL" \/ store'[r].done >= store[r].done]_vars
    BY <1>1, NextKeeps DEF StepKeeps, StoreKept, ProgressStep
  <1> QED BY <1>1, Invariance, PTL DEF Spec, NothingRevised, VerdictFinal, ProgressKept

\* A run is forgotten only while Retain runs that ended no earlier are kept.
THEOREM OnlyTheOldestForgotten == Spec => ForgetsOnlyOldest
  <1>1. ASSUME IInv, [Next]_vars
        PROVE  [\A r \in Stored : store'[r] = None =>
                  LET since == IF r \in Terminal THEN store[r].completedAt ELSE now
                  IN Cardinality({q \in Ended(store') : store'[q].completedAt >= since})
                       >= Retain]_vars
    BY <1>1, NextKeeps DEF StepKeeps, StoreKept
  <1> QED BY <1>1, Invariance, PTL DEF Spec, ForgetsOnlyOldest
=============================================================================
