------------------------ MODULE OutputWorkspaceProofs ------------------------
(***************************************************************************)
(* Proofs about OutputWorkspace, for every registry the planner accepts and *)
(* any settings, videos, model revisions and run ids: the stored documents  *)
(* can be believed, a run that ends SUCCEEDED left its own results, a       *)
(* preview foretells what an undisturbed run does, and no run mixes videos. *)
(***************************************************************************)
EXTENDS OutputWorkspace, FiniteSetTheorems, WellFoundedInduction, TLAPS

Outcomes == {"pending", "failed"} \cup Good

\* What load_run may find under run id r
RunManifestOK(r) ==
  runManifest[r] # Nothing =>
     /\ DOMAIN runManifest[r] = {"status", "inputs", "stages"}
     /\ runManifest[r].status \in {"running", "failed", "succeeded"}
     /\ runManifest[r].stages \subseteq Stages
     /\ DOMAIN runManifest[r].inputs \subseteq Paths

\* A manifest is filed under its Stage, and a succeeded one is true.
ManifestOK(m, s) ==
  m # Nothing =>
     /\ DOMAIN m = {"key", "status", "model", "output"}
     /\ m.key.stage = s
     /\ m.status \in {"failed"} \cup Good
     /\ m.status = "succeeded" => m.output = Compute(s, m.key.config, m.model, m.key.inputs)

\* The index documents hold run ids, each once.
IndexOK(i) ==
  \A k \in DOMAIN i :
     i[k] \in Seq(RunIds) /\ i[k] # <<>> /\ \A a, b \in 1..Len(i[k]) : i[k][a] = i[k][b] => a = b

\* The documents and files whatever is under way
StoreOK ==
  /\ source \in {BytesOf(v) : v \in Videos} /\ revision \in Revisions
  /\ changes \in Nat
  /\ DOMAIN files = Paths
  /\ DOMAIN runManifest = RunIds /\ \A r \in RunIds : RunManifestOK(r)
  /\ DOMAIN stageManifest = RunIds
  /\ \A r \in RunIds :
        DOMAIN stageManifest[r] = Stages /\ \A s \in Stages : ManifestOK(stageManifest[r][s], s)
  /\ IndexOK(index)
  /\ pc \in {"idle", "choosing", "submitted", "writing", "done"}
  /\ (pc = "idle") = (job = NoJob)

\* The execution under way has its parts, and knows the model that is deployed.
JobShape ==
  /\ DOMAIN job = {"run", "settings", "plan", "force", "available", "outcome",
                   "stage", "models", "changes", "previewed"}
  /\ job.run \in RunIds /\ job.settings \in Settings
  /\ job.plan \in Seq(Stages)
  /\ DOMAIN job.available \subseteq Paths
  /\ job.outcome \in [Stages -> Outcomes]
  /\ job.changes \in Nat /\ job.changes <= changes
  /\ revision \in job.models

\* The running manifest and the available artifacts are those of the Stages that
\* have ended; inputs of a submitted Stage are among them.
RunKept ==
  /\ runManifest[job.run] # Nothing
  /\ runManifest[job.run].stages = {s \in Stages : job.outcome[s] # "pending"}
  /\ \A s \in Stages : job.outcome[s] # "pending" => s \in Range(job.plan)
  /\ \A s \in Range(job.plan) : s \in DOMAIN job.available <=> job.outcome[s] \in Good
  /\ pc \in {"submitted", "writing"} =>
        /\ job.stage \in Range(job.plan) /\ job.outcome[job.stage] = "pending"
        /\ Reads[job.stage] \subseteq DOMAIN job.available
  /\ pc = "writing" => InputsIntact(job.stage)

\* A Stage that ended well has this run's own manifest, computed or copied from
\* the artifacts of this run, and can be found by its key.
ResultKept(s) ==
  LET m == stageManifest[job.run][s] IN
  /\ Reads[s] \subseteq DOMAIN job.available
  /\ m # Nothing /\ m.key = KeyOf(s) /\ m.status = job.outcome[s]
  /\ m.output = job.available[s]
  /\ m.output = Compute(s, ConfigOf(s), m.model, InputsOf(s, job.available))
  /\ m.model \in IF s \in ModelBound /\ job.outcome[s] = "succeeded"
                 THEN job.models ELSE {NoModel}
  /\ job.outcome[s] = "succeeded" =>
        KeyOf(s) \in DOMAIN index /\ job.run \in Range(index[KeyOf(s)])

\* Nobody interferes with a run in an unchanged world.
Undisturbed ==
  job.changes = changes =>
     /\ job.models = {revision}
     /\ \A x \in DOMAIN job.available : files[x] = job.available[x]

\* What Finish has verified stays while the process is still there.
Verdict ==
  (pc = "done" /\ runManifest[job.run].status = "succeeded") =>
     \A s \in Range(job.plan) :
        job.outcome[s] \in Good /\ files[s] = job.available[s]

\* What holds while an execution is under way
ActiveOK ==
  /\ JobShape /\ RunKept /\ Undisturbed /\ Verdict
  /\ \A s \in Stages : job.outcome[s] \in Good => ResultKept(s)

\* The inductive invariant.
IInv == StoreOK /\ (pc # "idle" => ActiveOK)
-----------------------------------------------------------------------------
(***************************************************************************)
(* The planner.  Recursive definitions over 0..N exist, whatever is          *)
(* repeated; the rest is induction over the naturals, by least elements.    *)
(***************************************************************************)
\* A nonempty set of naturals has a smallest member.
LEMMA SmallestOf ==
  ASSUME NEW S \in SUBSET Nat, S # {}
  PROVE  \E m \in S : \A n \in S : m <= n
  <1> DEFINE R == OpToRel(<, Nat)
  <1>1. IsWellFoundedOn(R, Nat)
    BY NatLessThanWellFounded
  <1>2. PICK m \in S : \A n \in S : <<n, m>> \notin R
    <2> HIDE DEF R
    <2> QED BY <1>1, WFMin
  <1>3. \A n \in S : ~(n < m)
    BY <1>2 DEF OpToRel
  <1> QED BY <1>3

\* A set of naturals with 0 that every member's successor belongs to has them all.
LEMMA Induction ==
  ASSUME NEW S \in SUBSET Nat, 0 \in S, \A n \in S : n + 1 \in S
  PROVE  \A n \in Nat : n \in S
  <1> SUFFICES ASSUME Nat \ S # {}
               PROVE  FALSE
    OBVIOUS
  <1>1. PICK m \in Nat \ S : \A n \in Nat \ S : m <= n
    BY SmallestOf
  <1>2. m - 1 \in Nat /\ m - 1 \notin Nat \ S
    BY <1>1
  <1> QED BY <1>1, <1>2

\* A value of A and a function that gives the next one can be iterated.
StepsIn(A, F) == F \in [Nat -> [A -> A]]

Iterated(A, a, F, N) ==
  \E g \in [0..N -> A] : g[0] = a /\ \A n \in 1..N : g[n] = F[n][g[n - 1]]

LEMMA Iterates ==
  ASSUME NEW A, NEW a \in A, NEW F, StepsIn(A, F)
  PROVE  \A N \in Nat : Iterated(A, a, F, N)
  <1> USE DEF StepsIn
  <1> DEFINE Has(N) == \E g \in [0..N -> A] :
                          g[0] = a /\ \A n \in 1..N : g[n] = F[n][g[n - 1]]
             S == {N \in Nat : Has(N)}
  <1>1. Has(0)
    <2> DEFINE g == [n \in 0..0 |-> a]
    <2>1. g \in [0..0 -> A] /\ g[0] = a
      OBVIOUS
    <2>2. \A n \in 1..0 : FALSE
      OBVIOUS
    <2> HIDE DEF g
    <2> QED BY <2>1, <2>2
  <1>2. ASSUME NEW N \in Nat, Has(N)
        PROVE  Has(N + 1)
    <2>1. PICK g \in [0..N -> A] :
                 g[0] = a /\ \A n \in 1..N : g[n] = F[n][g[n - 1]]
      BY <1>2
    <2> DEFINE h == [n \in 0..(N + 1) |-> IF n <= N THEN g[n] ELSE F[n][g[N]]]
    <2>2. F[N + 1][g[N]] \in A
      BY <2>1
    <2>3. h \in [0..(N + 1) -> A]
      BY <2>1, <2>2
    <2>4. h[0] = a
      BY <2>1
    <2>5. ASSUME NEW n \in 1..(N + 1)
          PROVE  h[n] = F[n][h[n - 1]]
      <3>1. CASE n <= N
        BY <3>1, <2>1
      <3>2. CASE n = N + 1
        BY <3>2, <2>1
      <3> QED BY <3>1, <3>2
    <2> HIDE DEF h
    <2> QED BY <2>3, <2>4, <2>5
  <1> HIDE DEF Has
  <1>3. 0 \in S /\ \A N \in S : N + 1 \in S
    BY <1>1, <1>2
  <1>4. \A N \in Nat : Has(N)
    <2> HIDE DEF S
    <2>1. S \in SUBSET Nat
      BY DEF S
    <2>2. \A N \in Nat : N \in S
      BY <1>3, <2>1, Induction
    <2> QED BY <2>2 DEF S
  <1> QED BY <1>4 DEF Has, Iterated

\* The dependencies of a registry: its names are finitely many naturals.
IsRegistered(deps) == DOMAIN deps \subseteq Nat /\ IsFiniteSet(DOMAIN deps)

\* A beginning of an order in which every Stage comes after its dependencies.
Sorted(deps, o) ==
  /\ o \in Seq(DOMAIN deps)
  /\ \A i, j \in 1..Len(o) : o[i] = o[j] => i = j
  /\ \A i \in 1..Len(o) : \A d \in deps[o[i]] : \E j \in 1..(i - 1) : o[j] = d

\* What Kahn's algorithm adds to an order.
Extended(deps, before) ==
  LET done == Members(before)
      ready == {s \in DOMAIN deps \ done : deps[s] \subseteq done}
  IN IF ready = {} THEN before ELSE Append(before, Least(ready))

LEMMA ExtendedIsSorted ==
  ASSUME NEW D, DOMAIN D \subseteq Nat, NEW o, Sorted(D, o)
  PROVE  Sorted(D, Extended(D, o))
  <1> DEFINE done == Members(o)
             ready == {s \in DOMAIN D \ done : D[s] \subseteq done}
  <1>1. CASE ready = {}
    BY <1>1 DEF Extended
  <1>2. CASE ready # {}
    <2>1. ready \in SUBSET Nat
      OBVIOUS
    <2>2. \E m \in ready : \A n \in ready : m <= n
      <3> HIDE DEF ready
      <3> QED BY <1>2, <2>1, SmallestOf
    <2>3. Least(ready) \in ready
      <3> HIDE DEF ready
      <3> QED BY <2>2 DEF Least
    <2> DEFINE x == Least(ready)
               p == Append(o, x)
    <2>4. Extended(D, o) = p
      BY <1>2 DEF Extended
    <2>5. /\ o \in Seq(DOMAIN D) /\ x \in DOMAIN D
          /\ \A i \in 1..Len(o) : o[i] # x
          /\ \A d \in D[x] : \E j \in 1..Len(o) : o[j] = d
      <3>1. o \in Seq(DOMAIN D) /\ DOMAIN o = 1..Len(o)
        BY DEF Sorted
      <3>2. x \in DOMAIN D /\ x \notin done /\ D[x] \subseteq done
        BY <2>3
      <3>3. done = {o[j] : j \in 1..Len(o)}
        BY <3>1 DEF Members
      <3> HIDE DEF x, done
      <3> QED BY <3>1, <3>2, <3>3
    <2> HIDE DEF x, ready
    <2>6. /\ p \in Seq(DOMAIN D) /\ Len(p) = Len(o) + 1 /\ Len(o) \in Nat
          /\ \A i \in 1..Len(o) : p[i] = o[i]
          /\ p[Len(o) + 1] = x
      BY <2>5
    <2> HIDE DEF p
    <2>7. ASSUME NEW i \in 1..Len(p), NEW j \in 1..Len(p), p[i] = p[j]
          PROVE  i = j
      <3>1. ASSUME NEW k \in 1..Len(p), k # Len(o) + 1
            PROVE  k \in 1..Len(o) /\ p[k] # x
        <4>1. k \in 1..Len(o)
          BY <3>1, <2>6
        <4>2. p[k] = o[k] /\ o[k] # x
          BY <4>1, <2>5, <2>6
        <4> QED BY <4>1, <4>2
      <3>2. CASE i \in 1..Len(o) /\ j \in 1..Len(o)
        <4>1. o[i] = o[j]
          BY <3>2, <2>6, <2>7
        <4> QED BY <3>2, <4>1 DEF Sorted
      <3>3. CASE i \notin 1..Len(o) \/ j \notin 1..Len(o)
        BY <3>1, <3>3, <2>6, <2>7
      <3> QED BY <3>2, <3>3
    <2>8. ASSUME NEW i \in 1..Len(p), NEW d \in D[p[i]]
          PROVE  \E j \in 1..(i - 1) : p[j] = d
      <3>1. CASE i = Len(o) + 1
        <4>1. i - 1 = Len(o) /\ p[i] = x
          BY <3>1, <2>6
        <4>2. d \in D[x]
          BY <4>1, <2>8
        <4>3. PICK j \in 1..Len(o) : o[j] = d
          BY <4>2, <2>5
        <4>4. j \in 1..(i - 1) /\ p[j] = d
          BY <4>1, <4>3, <2>6
        <4> QED BY <4>4
      <3>2. CASE i # Len(o) + 1
        <4>1. i \in 1..Len(o) /\ p[i] = o[i]
          BY <3>2, <2>6
        <4>2. PICK j \in 1..(i - 1) : o[j] = d
          BY <4>1, <2>8 DEF Sorted
        <4>3. j \in 1..Len(o)
          BY <4>1, <2>6
        <4> QED BY <4>2, <4>3, <2>6
      <3> QED BY <3>1, <3>2
    <2> QED BY <2>4, <2>6, <2>7, <2>8 DEF Sorted
  <1> QED BY <1>1, <1>2

\* The planner's order has every dependency before the Stage that has it.
LEMMA OrderedIsSorted ==
  ASSUME NEW D, IsRegistered(D)
  PROVE  Sorted(D, Ordered(D))
  <1> DEFINE A == {o \in Seq(DOMAIN D) : Sorted(D, o)}
             N == Cardinality(DOMAIN D)
             F == [n \in Nat |-> [o \in A |-> Extended(D, o)]]
             Is(f) == f = [n \in 0..N |-> IF n = 0 THEN <<>>
                                          ELSE Extended(D, f[n - 1])]
  <1>1. N \in Nat
    BY FS_CardinalityType DEF IsRegistered
  <1>2. <<>> \in A
    BY DEF Sorted
  <1>3. \A o \in A : Extended(D, o) \in A
    BY ExtendedIsSorted DEF Sorted, IsRegistered
  <1>4. F \in [Nat -> [A -> A]]
    BY <1>3
  <1>5. PICK g \in [0..N -> A] :
               g[0] = <<>> /\ \A n \in 1..N : g[n] = F[n][g[n - 1]]
    <2> DEFINE a == <<>>
    <2> HIDE DEF A, F, N, a, Is
    <2>1. a \in A
      BY <1>2 DEF a
    <2>2. StepsIn(A, F)
      BY <1>4 DEF StepsIn
    <2>3. Iterated(A, a, F, N)
      BY <2>1, <2>2, <1>1, Iterates
    <2> QED BY <2>3 DEF a, Iterated
  <1>6. Is(g)
    <2>1. ASSUME NEW n \in 0..N
          PROVE  g[n] = IF n = 0 THEN <<>> ELSE Extended(D, g[n - 1])
      <3>1. CASE n = 0
        BY <3>1, <1>5
      <3>2. CASE n # 0
        <4>1. n \in 1..N /\ n - 1 \in 0..N
          BY <3>2, <1>1
        <4>2. g[n] = F[n][g[n - 1]] /\ g[n - 1] \in A /\ n \in Nat
          <5> HIDE DEF A, F, N
          <5> QED BY <4>1, <1>5, <1>1
        <4> HIDE DEF A
        <4> QED BY <3>2, <4>2
      <3> QED BY <3>1, <3>2
    <2> HIDE DEF A, F, N
    <2> QED BY <2>1, <1>5
  <1> DEFINE prefix == CHOOSE f : Is(f)
  <1>7. Is(prefix)
    <2> HIDE DEF Is
    <2> QED BY <1>6
  <1>8. Ordered(D) = prefix[N]
    BY DEF Ordered, Extended
  <1> DEFINE S == {n \in Nat : n <= N => prefix[n] \in A}
  <1>9. 0 \in S
    <2> HIDE DEF A, prefix, N
    <2> QED BY <1>7, <1>2, <1>1
  <1>10. ASSUME NEW n \in S
         PROVE  n + 1 \in S
    <2>1. CASE n + 1 <= N
      <3>1. n \in Nat /\ prefix[n] \in A
        BY <2>1, <1>1
      <3> HIDE DEF A, prefix, N
      <3>2. n + 1 \in 0..N /\ n + 1 # 0 /\ (n + 1) - 1 = n
        BY <3>1, <2>1, <1>1
      <3>3. prefix[n + 1] = Extended(D, prefix[n])
        BY <1>7, <3>2
      <3> QED BY <3>1, <3>3, <1>3
    <2>2. CASE ~(n + 1 <= N)
      BY <2>2
    <2> QED BY <2>1, <2>2
  <1>11. N \in S
    <2> HIDE DEF S
    <2>1. S \in SUBSET Nat
      BY DEF S
    <2> QED BY <1>9, <1>10, <1>1, <2>1, Induction
  <1>12. prefix[N] \in A
    BY <1>11, <1>1
  <1> HIDE DEF prefix, N
  <1> QED BY <1>8, <1>12

\* p holds those of the first n Stages of o that are in S: each once, and after
\* those of its dependencies that are in S.
Filtered(deps, o, S, n, p) ==
  /\ p \in Seq(DOMAIN deps)
  /\ \A x : (\E i \in 1..Len(p) : p[i] = x) <=> x \in S /\ \E i \in 1..n : o[i] = x
  /\ \A i, j \in 1..Len(p) : p[i] = p[j] => i = j
  /\ \A i \in 1..Len(p) : \A d \in deps[p[i]] \cap S : \E j \in 1..(i - 1) : p[j] = d

\* What PlanOf does with one more Stage.
Taken(o, S, n, p) == IF o[n] \in S THEN Append(p, o[n]) ELSE p

LEMMA TakenIsFiltered ==
  ASSUME NEW D, NEW o, Sorted(D, o), NEW S, NEW n \in 1..Len(o), NEW p,
         Filtered(D, o, S, n - 1, p)
  PROVE  Filtered(D, o, S, n, Taken(o, S, n, p))
  <1>1. /\ o \in Seq(DOMAIN D) /\ Len(o) \in Nat /\ n \in Nat /\ n - 1 \in Nat
        /\ o[n] \in DOMAIN D
        /\ \A i, j \in 1..Len(o) : o[i] = o[j] => i = j
    BY DEF Sorted
  <1>2. \A x : (\E i \in 1..n : o[i] = x) <=> x = o[n] \/ \E i \in 1..(n - 1) : o[i] = x
    <2>1. \A i : i \in 1..n <=> i = n \/ i \in 1..(n - 1)
      BY <1>1
    <2> QED BY <2>1, Zenon
  <1>3. CASE o[n] \notin S
    BY <1>2, <1>3 DEF Taken, Filtered
  <1>4. CASE o[n] \in S
    <2> DEFINE q == Append(p, o[n])
               x == o[n]
    <2>1. Taken(o, S, n, p) = q
      BY <1>4 DEF Taken
    <2>2. /\ p \in Seq(DOMAIN D) /\ Len(p) \in Nat
          /\ \A i \in 1..Len(p) : p[i] # x
      <3>1. ~ \E i \in 1..(n - 1) : o[i] = x
        BY <1>1
      <3>2. ~ \E i \in 1..Len(p) : p[i] = x
        BY <3>1 DEF Filtered
      <3> QED BY <3>2 DEF Filtered
    <2>3. /\ q \in Seq(DOMAIN D) /\ Len(q) = Len(p) + 1
          /\ \A i \in 1..Len(p) : q[i] = p[i]
          /\ q[Len(p) + 1] = x
      BY <1>1, <2>2
    <2> HIDE DEF q
    <2>4. \A i \in 1..Len(q) : i = Len(p) + 1 \/ i \in 1..Len(p)
      BY <2>2, <2>3
    <2>5. \A i \in 1..Len(p) : i \in 1..Len(q)
      BY <2>2, <2>3
    <2>6. Len(p) + 1 \in 1..Len(q)
      BY <2>2, <2>3
    <2>7. ASSUME NEW y
          PROVE  (\E i \in 1..Len(q) : q[i] = y) <=> y \in S /\ \E i \in 1..n : o[i] = y
      <3>1. (\E i \in 1..Len(q) : q[i] = y) <=> y = x \/ \E i \in 1..Len(p) : p[i] = y
        <4> HIDE DEF x
        <4> QED BY <2>3, <2>4, <2>5, <2>6, Zenon
      <3>2. (\E i \in 1..Len(p) : p[i] = y) <=> y \in S /\ \E i \in 1..(n - 1) : o[i] = y
        BY DEF Filtered
      <3> QED BY <3>1, <3>2, <1>2, <1>4, Zenon
    <2>8. ASSUME NEW i \in 1..Len(q), NEW j \in 1..Len(q), q[i] = q[j]
          PROVE  i = j
      <3>1. CASE i \in 1..Len(p) /\ j \in 1..Len(p)
        <4>1. p[i] = p[j]
          BY <2>3, <2>8, <3>1
        <4> QED BY <4>1, <3>1 DEF Filtered
      <3>2. CASE i \notin 1..Len(p) \/ j \notin 1..Len(p)
        <4> HIDE DEF x
        <4> QED BY <2>2, <2>3, <2>4, <2>8, <3>2
      <3> QED BY <3>1, <3>2
    <2>9. ASSUME NEW i \in 1..Len(q), NEW d \in D[q[i]] \cap S
          PROVE  \E j \in 1..(i - 1) : q[j] = d
      <3>1. CASE i = Len(p) + 1
        <4>1. d \in D[o[n]] /\ d \in S
          BY <3>1, <2>3, <2>9
        <4>2. \E j \in 1..(n - 1) : o[j] = d
          BY <4>1 DEF Sorted
        <4>3. PICK j \in 1..Len(p) : p[j] = d
          BY <4>1, <4>2 DEF Filtered
        <4> QED BY <4>3, <2>3, <3>1, <2>2
      <3>2. CASE i \in 1..Len(p)
        <4>1. d \in D[p[i]] \cap S
          BY <3>2, <2>3, <2>9
        <4>2. PICK j \in 1..(i - 1) : p[j] = d
          BY <4>1, <3>2 DEF Filtered
        <4>3. j \in 1..Len(p)
          BY <3>2, <4>2, <2>2
        <4> QED BY <4>2, <4>3, <2>3
      <3> QED BY <3>1, <3>2, <2>4
    <2> QED BY <2>1, <2>3, <2>7, <2>8, <2>9 DEF Filtered
  <1> QED BY <1>3, <1>4

\* The Stages of S in the order o, taken one by one.
LEMMA TakingAll ==
  ASSUME NEW D, NEW o, Sorted(D, o), NEW S,
         NEW f, f = [n \in 0..Len(o) |-> IF n = 0 THEN <<>> ELSE Taken(o, S, n, f[n - 1])]
  PROVE  Filtered(D, o, S, Len(o), f[Len(o)])
  <1> DEFINE N == Len(o)
             Holds(n) == n <= N => Filtered(D, o, S, n, f[n])
             G == {n \in Nat : Holds(n)}
  <1>1. N \in Nat
    BY DEF Sorted
  <1>2. f[0] = <<>> /\ \A n \in 1..N : f[n] = Taken(o, S, n, f[n - 1])
    <2>1. \A n \in 0..N : f[n] = IF n = 0 THEN <<>> ELSE Taken(o, S, n, f[n - 1])
      OBVIOUS
    <2> HIDE DEF N
    <2>2. 0 \in 0..N /\ \A n \in 1..N : n \in 0..N /\ n # 0
      BY <1>1
    <2> QED BY <2>1, <2>2
  <1>3. Filtered(D, o, S, 0, <<>>)
    BY DEF Filtered
  <1> HIDE DEF N
  <1>4. 0 \in G
    BY <1>2, <1>3
  <1>5. ASSUME NEW n \in G
        PROVE  n + 1 \in G
    <2>1. CASE n + 1 <= N
      <3>1. n + 1 \in 1..N /\ (n + 1) - 1 = n /\ n \in Nat /\ n <= N
        BY <2>1, <1>1
      <3>2. Filtered(D, o, S, n, f[n])
        BY <3>1
      <3>3. f[n + 1] = Taken(o, S, n + 1, f[n])
        BY <1>2, <3>1
      <3>4. Filtered(D, o, S, n + 1, f[n + 1])
        BY <3>1, <3>2, <3>3, TakenIsFiltered DEF N
      <3> QED BY <3>1, <3>4
    <2>2. CASE ~(n + 1 <= N)
      BY <2>2
    <2> QED BY <2>1, <2>2
  <1>6. N \in G
    <2> HIDE DEF G
    <2>1. G \in SUBSET Nat
      BY DEF G
    <2> QED BY <2>1, <1>4, <1>5, <1>1, Induction
  <1> QED BY <1>6, <1>1 DEF N

\* They can be taken one by one.
LEMMA TakingExists ==
  ASSUME NEW D, NEW o, Sorted(D, o), NEW S
  PROVE  \E f : f = [n \in 0..Len(o) |-> IF n = 0 THEN <<>> ELSE Taken(o, S, n, f[n - 1])]
  <1> DEFINE A == Seq(DOMAIN D)
             N == Len(o)
             F == [n \in Nat |-> [p \in A |-> IF n \in 1..N THEN Taken(o, S, n, p) ELSE p]]
  <1>1. N \in Nat
    BY DEF Sorted
  <1>2. ASSUME NEW n \in 1..N, NEW p \in A
        PROVE  Taken(o, S, n, p) \in A
    <2>1. o[n] \in DOMAIN D /\ p \in Seq(DOMAIN D)
      BY DEF Sorted
    <2>2. Append(p, o[n]) \in Seq(DOMAIN D)
      BY <2>1
    <2> QED BY <2>1, <2>2 DEF Taken
  <1>3. F \in [Nat -> [A -> A]]
    <2> HIDE DEF A, N
    <2> QED BY <1>2
  <1>4. PICK g \in [0..N -> A] : g[0] = <<>> /\ \A n \in 1..N : g[n] = F[n][g[n - 1]]
    <2> DEFINE a == <<>>
    <2>1. a \in A
      OBVIOUS
    <2> HIDE DEF A, F, N, a
    <2>2. StepsIn(A, F)
      BY <1>3 DEF StepsIn
    <2>3. Iterated(A, a, F, N)
      BY <2>1, <2>2, <1>1, Iterates
    <2> QED BY <2>3 DEF a, Iterated
  <1>5. ASSUME NEW n \in 0..N
        PROVE  g[n] = IF n = 0 THEN <<>> ELSE Taken(o, S, n, g[n - 1])
    <2>1. CASE n = 0
      BY <2>1, <1>4
    <2>2. CASE n # 0
      <3>1. n \in 1..N /\ n - 1 \in 0..N
        BY <2>2, <1>1
      <3>2. g[n] = F[n][g[n - 1]] /\ g[n - 1] \in A /\ n \in Nat
        <4> HIDE DEF A, F, N
        <4> QED BY <3>1, <1>4, <1>1
      <3> HIDE DEF A, N
      <3> QED BY <2>2, <3>1, <3>2
    <2> QED BY <2>1, <2>2
  <1> HIDE DEF F
  <1> QED BY <1>4, <1>5

\* The planner's plan is the selection, in the planner's order.
LEMMA PlanIsFiltered ==
  ASSUME NEW reg, IsRegistered(reg.deps), NEW sel
  PROVE  Filtered(reg.deps, Ordered(reg.deps), Selected(reg, sel),
                  Len(Ordered(reg.deps)), PlanOf(reg, sel))
  <1> DEFINE o == Ordered(reg.deps)
             S == Selected(reg, sel)
             Is(f) == f = [n \in 0..Len(o) |-> IF n = 0 THEN <<>>
                                              ELSE Taken(o, S, n, f[n - 1])]
             kept == CHOOSE f : Is(f)
  <1>1. Sorted(reg.deps, o)
    BY OrderedIsSorted
  <1>2. PlanOf(reg, sel) = kept[Len(o)]
    BY DEF PlanOf, Taken
  <1> HIDE DEF o, S
  <1>3. Is(kept)
    <2>1. PICK D : D = reg.deps
      OBVIOUS
    <2>2. Sorted(D, o)
      BY <1>1, <2>1
    <2>3. \E f : Is(f)
      BY SMTT(30), <2>2, TakingExists
    <2> HIDE DEF Is
    <2> QED BY <2>3
  <1>4. Filtered(reg.deps, o, S, Len(o), kept[Len(o)])
    <2> HIDE DEF kept
    <2> QED BY <1>1, <1>3, TakingAll
  <1> HIDE DEF kept
  <1> QED BY <1>2, <1>4 DEF o, S

LEMMA RegistryIsSorted ==
  /\ Registry.deps = Deps /\ Names(Registry) = Stages
  /\ IsRegistered(Deps) /\ Sorted(Deps, Ordered(Deps))
  /\ Len(Ordered(Deps)) = Cardinality(Stages)
  /\ 0 \notin Stages
  <1>1. Registry.deps = Deps /\ Names(Registry) = Stages
    BY DEF Registry, Names, Stages
  <1>2. IsRegistered(Deps) /\ 0 \notin Stages
    BY WorkspaceAssumption DEF IsRegistered, Stages
  <1>3. ~ HasCycle(Deps)
    BY <1>1, WorkspaceAssumption DEF PlannerRefuses
  <1>4. Len(Ordered(Deps)) = Cardinality(Stages)
    BY <1>3 DEF HasCycle, Stages
  <1> QED BY <1>1, <1>2, <1>4, OrderedIsSorted

\* An order that is as long as the registry has each of its Stages.
LEMMA EveryStageIsOrdered == \A s \in Stages : \E i \in 1..Len(Ordered(Deps)) : Ordered(Deps)[i] = s
  <1> DEFINE o == Ordered(Deps)
             N == Len(o)
  <1>1. o \in Seq(Stages) /\ \A i, j \in 1..N : o[i] = o[j] => i = j
    BY RegistryIsSorted DEF Sorted, Stages
  <1>2. N \in Nat /\ N = Cardinality(Stages) /\ IsFiniteSet(Stages)
    BY RegistryIsSorted, <1>1, WorkspaceAssumption
  <1> HIDE DEF o
  <1> DEFINE T == {o[i] : i \in 1..N}
             f == [i \in 1..N |-> o[i]]
  <1>3. T \in SUBSET Stages
    BY <1>1
  <1>4. Cardinality(T) = N
    <2>1. f \in Bijection(1..N, T)
      BY <1>1 DEF Bijection, Injection, Surjection, IsInjective
    <2>2. IsFiniteSet(1..N) /\ Cardinality(1..N) = N
      BY <1>2, FS_Interval
    <2>3. ExistsBijection(1..N, T)
      BY <2>1 DEF ExistsBijection
    <2> QED BY <2>2, <2>3, FS_Bijection
  <1>5. T = Stages
    BY <1>2, <1>3, <1>4, FS_Subset
  <1> QED BY <1>5 DEF o

\* No dependency goes round: some Stage of every set depends on none of it.
LEMMA NoCycle ==
  ASSUME NEW S \in SUBSET Stages, S # {}
  PROVE  \E s \in S : Deps[s] \cap S = {}
  <1> DEFINE o == Ordered(Deps)
             P == {i \in 1..Len(o) : o[i] \in S}
  <1>1. P \in SUBSET Nat /\ P # {}
    BY EveryStageIsOrdered
  <1>2. PICK m \in P : \A n \in P : m <= n
    <2> HIDE DEF P
    <2> QED BY <1>1, SmallestOf
  <1>3. ASSUME NEW d \in Deps[o[m]] \cap S
        PROVE  FALSE
    <2>1. PICK j \in 1..(m - 1) : o[j] = d
      BY RegistryIsSorted DEF Sorted
    <2>2. j \in P /\ j < m
      BY <2>1, RegistryIsSorted DEF Sorted
    <2> QED BY <1>2, <2>2
  <1> QED BY <1>3

\* DAGPlanner.plan: a selection that is not refused is planned completely, each
\* Stage once and after those of its dependencies that are planned too.
THEOREM PlansAreOrdered ==
  ASSUME NEW sel, ~ SelectionRefused(Registry, sel)
  PROVE  LET plan == PlanOf(Registry, sel) IN
         /\ plan \in Seq(Stages)
         /\ Range(plan) = Selected(Registry, sel)
         /\ \A i, j \in DOMAIN plan : plan[i] = plan[j] => i = j
         /\ \A i \in DOMAIN plan : \A d \in Deps[plan[i]] \cap Range(plan) :
               \E j \in 1..(i - 1) : plan[j] = d
  <1> DEFINE plan == PlanOf(Registry, sel)
             S == Selected(Registry, sel)
  <1>1. Filtered(Deps, Ordered(Deps), S, Len(Ordered(Deps)), plan)
    BY RegistryIsSorted, PlanIsFiltered
  <1>2. S \subseteq Stages
    BY RegistryIsSorted DEF SelectionRefused, Selected, None
  <1> HIDE DEF plan, S
  <1>3. plan \in Seq(Stages) /\ DOMAIN plan = 1..Len(plan)
    BY <1>1 DEF Filtered, Stages
  <1>4. \A x : (\E i \in 1..Len(plan) : plan[i] = x) <=> x \in S
    BY <1>1, <1>2, EveryStageIsOrdered DEF Filtered
  <1>5. Range(plan) = S
    BY <1>3, <1>4 DEF Range
  <1> QED BY <1>1, <1>3, <1>5 DEF Filtered, plan, S
-----------------------------------------------------------------------------
(***************************************************************************)
(* Candidates and the index.                                                *)
(***************************************************************************)
LEMMA FirstHitIs ==
  ASSUME NEW A, NEW c \in Seq(A), NEW key, NEW models, NEW store
  PROVE  LET hit == FirstHit(c, key, models, store) IN
         \/ hit = Nothing /\ \A i \in 1..Len(c) : ~ Reusable(c[i], key, models, store)
         \/ \E i \in 1..Len(c) : hit = c[i] /\ Reusable(c[i], key, models, store)
  <1> DEFINE I == {i \in 1..Len(c) : Reusable(c[i], key, models, store)}
             first == IF I # {} THEN Min(I) ELSE 0
  <1>1. FirstHit(c, key, models, store) = IF first = 0 THEN Nothing ELSE c[first]
    BY DEF FirstHit, SelectInSeq
  <1>2. CASE I = {}
    BY <1>1, <1>2
  <1>3. CASE I # {}
    <2>1. I \in SUBSET Nat
      OBVIOUS
    <2>2. \E m \in I : \A n \in I : m <= n
      <3> HIDE DEF I
      <3> QED BY <1>3, <2>1, SmallestOf
    <2>3. Min(I) \in I
      <3> HIDE DEF I
      <3> QED BY <2>2 DEF Min
    <2>4. Min(I) # 0 /\ Min(I) \in 1..Len(c) /\ Reusable(c[Min(I)], key, models, store)
      BY <2>3
    <2>5. first = Min(I)
      BY <1>3
    <2> HIDE DEF I, first
    <2> QED BY <1>1, <2>4, <2>5
  <1> QED BY <1>2, <1>3

\* Where a run looks for results of a key: in its own manifests, and in those
\* that the index names.
Offers(run, key, r) == r = run \/ (key \in DOMAIN index /\ r \in Range(index[key]))

\* c holds what is filed there, and nothing else.
AreOffered(c, run, s, key) ==
  /\ c \in Seq({stageManifest[r][s] : r \in RunIds})
  /\ \A r \in RunIds : Offers(run, key, r) => \E i \in 1..Len(c) : c[i] = stageManifest[r][s]
  /\ \A i \in 1..Len(c) :
        \E r \in RunIds : Offers(run, key, r) /\ c[i] = stageManifest[r][s]

LEMMA CandidatesAre ==
  ASSUME NEW run \in RunIds, NEW s, NEW key,
         \A k \in DOMAIN index : index[k] \in Seq(RunIds)
  PROVE  AreOffered(Candidates(run, s, key), run, s, key)
  <1> DEFINE A == {stageManifest[r][s] : r \in RunIds}
             e == Indexed(key)
             runs == <<run>> \o e
  <1>1. e \in Seq(RunIds)
    BY DEF Indexed, Reverse
  <1>2. /\ runs \in Seq(RunIds) /\ Len(runs) = Len(e) + 1 /\ Len(e) \in Nat
        /\ \A i \in 1..Len(e) : runs[i + 1] = e[i]
        /\ runs[1] = run /\ \A i \in 2..Len(runs) : runs[i] = e[i - 1]
    <2> HIDE DEF e
    <2> QED BY <1>1
  <1>3. Candidates(run, s, key) = [i \in 1..Len(runs) |-> stageManifest[runs[i]][s]]
    <2>1. DOMAIN runs = 1..Len(runs)
      <3> HIDE DEF runs
      <3> QED BY <1>2
    <2> QED BY <2>1 DEF Candidates
  <1> DEFINE c == [i \in 1..Len(runs) |-> stageManifest[runs[i]][s]]
  <1>4. c \in Seq(A) /\ Len(c) = Len(runs)
    <2>1. \A i \in 1..Len(runs) : runs[i] \in RunIds
      <3> HIDE DEF runs
      <3> QED BY <1>2
    <2> HIDE DEF runs
    <2>2. Len(runs) \in Nat
      BY <1>2
    <2>3. \A i \in 1..Len(runs) : stageManifest[runs[i]][s] \in A
      BY <2>1
    <2> HIDE DEF A
    <2> QED BY <2>2, <2>3
  <1>5. ASSUME key \in DOMAIN index, NEW r \in Range(index[key])
        PROVE  \E i \in 1..Len(c) : c[i] = stageManifest[r][s]
    <2>1. index[key] \in Seq(RunIds)
      BY <1>5
    <2>2. PICK j \in 1..Len(index[key]) : index[key][j] = r
      BY <2>1 DEF Range
    <2> DEFINE n == Len(index[key]) - j + 1
    <2>3. /\ e = [i \in 1..Len(index[key]) |-> index[key][(Len(index[key]) - i) + 1]]
          /\ n \in 1..Len(index[key]) /\ (Len(index[key]) - n) + 1 = j
      BY <1>5, <2>1 DEF Indexed, Reverse
    <2>4. Len(e) = Len(index[key]) /\ e[n] = r
      <3>1. Len(index[key]) \in Nat
        BY <2>1
      <3> HIDE DEF e, n
      <3> QED BY <2>2, <2>3, <3>1
    <2>5. n + 1 \in 1..Len(runs) /\ runs[n + 1] = r
      <3> HIDE DEF e, n
      <3> QED BY <2>3, <2>4, <1>2
    <2> HIDE DEF runs, n
    <2> QED BY <2>5, <1>4
  <1>6. ASSUME NEW i \in 1..Len(runs)
        PROVE  runs[i] \in RunIds /\ Offers(run, key, runs[i])
    <2>1. CASE i = 1
      BY <2>1, <1>2 DEF Offers
    <2>2. CASE i # 1
      <3>1. i - 1 \in 1..Len(e) /\ runs[i] = e[i - 1]
        <4> HIDE DEF e, runs
        <4> QED BY <2>2, <1>2
      <3>2. key \in DOMAIN index
        BY <3>1 DEF Indexed
      <3>3. index[key] \in Seq(RunIds) /\ Len(index[key]) \in Nat
        BY <3>2
      <3>4. e = [n \in 1..Len(index[key]) |-> index[key][(Len(index[key]) - n) + 1]]
        BY <3>2 DEF Indexed, Reverse
      <3>5. Len(e) = Len(index[key])
        <4> HIDE DEF e
        <4> QED BY <3>3, <3>4
      <3>6. e[i - 1] = index[key][(Len(index[key]) - (i - 1)) + 1]
        <4> HIDE DEF e
        <4> QED BY <3>1, <3>4, <3>5
      <3>7. (Len(index[key]) - (i - 1)) + 1 \in DOMAIN index[key]
        <4> HIDE DEF e
        <4> QED BY <3>1, <3>3, <3>5
      <3>8. e[i - 1] \in Range(index[key]) /\ e[i - 1] \in RunIds
        <4> HIDE DEF e
        <4> QED BY <3>3, <3>6, <3>7 DEF Range
      <3> HIDE DEF e, runs
      <3> QED BY <3>1, <3>2, <3>8 DEF Offers
    <2> QED BY <2>1, <2>2
  <1>7. 1 \in 1..Len(runs)
    <2> HIDE DEF e, runs
    <2> QED BY <1>2
  <1>8. /\ \E i \in 1..Len(c) : c[i] = stageManifest[run][s]
        /\ \A i \in 1..Len(c) :
              \E r \in RunIds : Offers(run, key, r) /\ c[i] = stageManifest[r][s]
    <2>1. c[1] = stageManifest[run][s]
      <3> HIDE DEF runs
      <3> QED BY <1>2, <1>7
    <2>2. \A i \in 1..Len(c) : c[i] = stageManifest[runs[i]][s]
      <3> HIDE DEF runs
      <3> QED BY <1>4
    <2> HIDE DEF c, runs
    <2> QED BY <2>1, <2>2, <1>4, <1>6, <1>7
  <1>9. Candidates(run, s, key) = c
    BY <1>3
  <1> HIDE DEF c, runs, e
  <1> QED BY <1>4, <1>5, <1>8, <1>9 DEF AreOffered, Offers

LEMMA RemovedFirst ==
  ASSUME NEW A, NEW e \in Seq(A), NEW x,
         \A i, j \in 1..Len(e) : e[i] = e[j] => i = j
  PROVE  LET o == RemoveFirst(e, x) IN
         /\ o \in Seq(A)
         /\ \A i, j \in 1..Len(o) : o[i] = o[j] => i = j
         /\ \A i \in 1..Len(o) : o[i] # x
         /\ \A i \in 1..Len(e) : e[i] # x => \E j \in 1..Len(o) : o[j] = e[i]
  <1>1. CASE ~ \E i \in 1..Len(e) : e[i] = x
    BY <1>1 DEF RemoveFirst
  <1>2. CASE \E i \in 1..Len(e) : e[i] = x
    <2> DEFINE I == {i \in 1..Len(e) : e[i] = x}
               k == Min(I)
               o == RemoveAt(e, k)
    <2>1. RemoveFirst(e, x) = o
      BY <1>2 DEF RemoveFirst, SelectInSeq
    <2>2. k \in 1..Len(e) /\ e[k] = x
      <3>1. I \in SUBSET Nat /\ I # {}
        BY <1>2
      <3>2. \E m \in I : \A n \in I : m <= n
        <4> HIDE DEF I
        <4> QED BY <3>1, SmallestOf
      <3>3. Min(I) \in I
        <4> HIDE DEF I
        <4> QED BY <3>2 DEF Min
      <3> QED BY <3>3
    <2> HIDE DEF k
    <2>3. /\ o \in Seq(A) /\ Len(o) = Len(e) - 1 /\ Len(e) \in Nat
          /\ \A i \in 1..Len(o) : o[i] = e[IF i < k THEN i ELSE i + 1]
      <3> DEFINE p == SubSeq(e, 1, k - 1)
                 q == SubSeq(e, k + 1, Len(e))
      <3>1. /\ p \in Seq(A) /\ Len(p) = k - 1
            /\ \A i \in 1..Len(p) : p[i] = e[i]
        BY <2>2
      <3>2. /\ q \in Seq(A) /\ Len(q) = Len(e) - k
            /\ \A i \in 1..Len(q) : q[i] = e[k + i]
        BY <2>2
      <3>3. o = p \o q
        BY DEF RemoveAt
      <3> HIDE DEF p, q, o
      <3>4. o \in Seq(A) /\ Len(o) = Len(e) - 1 /\ Len(e) \in Nat
        BY <3>1, <3>2, <3>3, <2>2
      <3>5. ASSUME NEW i \in 1..Len(o)
            PROVE  o[i] = e[IF i < k THEN i ELSE i + 1]
        <4>1. CASE i < k
          <5>1. i \in 1..Len(p) /\ o[i] = p[i]
            BY <4>1, <3>1, <3>2, <3>3, <3>4, <2>2
          <5> QED BY <4>1, <5>1, <3>1
        <4>2. CASE ~(i < k)
          <5>1. i - (k - 1) \in 1..Len(q) /\ o[i] = q[i - (k - 1)]
            BY <4>2, <3>1, <3>2, <3>3, <3>4, <2>2
          <5>2. k + (i - (k - 1)) = i + 1
            BY <2>2
          <5> QED BY <4>2, <5>1, <5>2, <3>2
        <4> QED BY <4>1, <4>2
      <3> QED BY <3>4, <3>5
    <2> HIDE DEF o
    <2>4. \A i \in 1..Len(o) : (IF i < k THEN i ELSE i + 1) \in (1..Len(e)) \ {k}
      BY <2>2, <2>3
    <2>5. \A i, j \in 1..Len(o) : o[i] = o[j] => i = j
      <3> SUFFICES ASSUME NEW i \in 1..Len(o), NEW j \in 1..Len(o), o[i] = o[j]
                   PROVE  i = j
        OBVIOUS
      <3> DEFINE u == IF i < k THEN i ELSE i + 1
                 v == IF j < k THEN j ELSE j + 1
      <3>1. u \in 1..Len(e) /\ v \in 1..Len(e) /\ e[u] = e[v]
        BY <2>3, <2>4
      <3>2. u = v
        <4> HIDE DEF u, v
        <4> QED BY <3>1
      <3> QED BY <3>2, <2>2, <2>3
    <2>6. \A i \in 1..Len(o) : o[i] # x
      <3> SUFFICES ASSUME NEW i \in 1..Len(o) PROVE o[i] # x
        OBVIOUS
      <3> DEFINE u == IF i < k THEN i ELSE i + 1
      <3>1. u \in 1..Len(e) /\ u # k /\ o[i] = e[u]
        BY <2>3, <2>4
      <3> HIDE DEF u
      <3> QED BY <3>1, <2>2
    <2>7. ASSUME NEW i \in 1..Len(e), e[i] # x
          PROVE  \E j \in 1..Len(o) : o[j] = e[i]
      <3> DEFINE j == IF i < k THEN i ELSE i - 1
      <3>1. i # k
        BY <2>2, <2>7
      <3>2. j \in 1..Len(o) /\ (IF j < k THEN j ELSE j + 1) = i
        BY <3>1, <2>2, <2>3
      <3> HIDE DEF j
      <3> QED BY <3>2, <2>3
    <2> QED BY <2>1, <2>3, <2>5, <2>6, <2>7
  <1> QED BY <1>1, <1>2

\* save_stage files a succeeded manifest, and moves nothing else out of the index.
LEMMA IndexedAfterKeeps ==
  ASSUME IndexOK(index), job.run \in RunIds, NEW m
  PROVE  LET after == IndexedAfter(m) IN
         /\ IndexOK(after)
         /\ \A k \in DOMAIN index : k \in DOMAIN after /\ Range(index[k]) \subseteq Range(after[k])
         /\ m.status = "succeeded" => m.key \in DOMAIN after /\ job.run \in Range(after[m.key])
  <1>1. CASE m.status # "succeeded"
    BY <1>1 DEF IndexedAfter
  <1>2. CASE m.status = "succeeded"
    <2> DEFINE e == IF m.key \in DOMAIN index THEN index[m.key] ELSE <<>>
               o == RemoveFirst(e, job.run)
               p == Append(o, job.run)
               after == IndexedAfter(m)
    <2>1. /\ DOMAIN after = DOMAIN index \cup {m.key}
          /\ after[m.key] = p
          /\ \A k \in DOMAIN index : k # m.key => after[k] = index[k]
      BY <1>2 DEF IndexedAfter
    <2>2. e \in Seq(RunIds) /\ \A a, b \in 1..Len(e) : e[a] = e[b] => a = b
      BY DEF IndexOK
    <2> HIDE DEF e, after
    <2>3. /\ o \in Seq(RunIds)
          /\ \A i, j \in 1..Len(o) : o[i] = o[j] => i = j
          /\ \A i \in 1..Len(o) : o[i] # job.run
          /\ \A i \in 1..Len(e) : e[i] # job.run => \E j \in 1..Len(o) : o[j] = e[i]
      BY <2>2, RemovedFirst
    <2> HIDE DEF o
    <2>4. /\ p \in Seq(RunIds) /\ Len(p) = Len(o) + 1 /\ Len(o) \in Nat /\ p # <<>>
          /\ \A i \in 1..Len(o) : p[i] = o[i]
          /\ p[Len(o) + 1] = job.run
      <3>1. PICK run \in RunIds : run = job.run
        OBVIOUS
      <3>2. o \in Seq(RunIds)
        BY <2>3
      <3> QED BY <3>1, <3>2
    <2> HIDE DEF p
    <2>5. \A i \in 1..Len(p) : i = Len(o) + 1 \/ i \in 1..Len(o)
      BY <2>4
    <2>6. \A i, j \in 1..Len(p) : p[i] = p[j] => i = j
      BY <2>3, <2>4, <2>5
    <2>7. \A x \in Range(p) : x \in RunIds
      BY <2>4 DEF Range
    <2>8. DOMAIN p = 1..Len(p) /\ job.run \in Range(p)
      <3>1. DOMAIN p = 1..Len(p) /\ Len(o) + 1 \in 1..Len(p)
        BY <2>4
      <3> QED BY <3>1, <2>4 DEF Range
    <2>9. Range(e) \subseteq Range(p)
      <3> SUFFICES ASSUME NEW x \in Range(e), x # job.run
                   PROVE  x \in Range(p)
        BY <2>8
      <3>1. PICK i \in 1..Len(e) : e[i] = x
        BY <2>2 DEF Range
      <3>2. PICK j \in 1..Len(o) : o[j] = x
        BY <3>1, <2>3
      <3>3. j \in DOMAIN p /\ p[j] = x
        BY <3>2, <2>4, <2>8
      <3> QED BY <3>3 DEF Range
    <2>10. IndexOK(after)
      <3> SUFFICES ASSUME NEW k \in DOMAIN after
                   PROVE  /\ after[k] \in Seq(RunIds) /\ after[k] # <<>>
                          /\ \A a, b \in 1..Len(after[k]) :
                                after[k][a] = after[k][b] => a = b
        BY DEF IndexOK
      <3>1. CASE k = m.key
        BY <3>1, <2>1, <2>4, <2>6
      <3>2. CASE k # m.key
        BY <3>2, <2>1 DEF IndexOK
      <3> QED BY <3>1, <3>2
    <2>11. \A k \in DOMAIN index : k \in DOMAIN after /\ Range(index[k]) \subseteq Range(after[k])
      <3> SUFFICES ASSUME NEW k \in DOMAIN index
                   PROVE  k \in DOMAIN after /\ Range(index[k]) \subseteq Range(after[k])
        OBVIOUS
      <3>1. CASE k = m.key
        <4>1. index[k] = e
          BY <3>1 DEF e
        <4> QED BY <3>1, <4>1, <2>1, <2>9
      <3>2. CASE k # m.key
        BY <3>2, <2>1
      <3> QED BY <3>1, <3>2
    <2> QED BY <2>1, <2>8, <2>10, <2>11 DEF after
  <1> QED BY <1>1, <1>2

\* Artifacts that join the available ones do not change the key of a Stage whose
\* inputs were there before.
LEMMA InputsStay ==
  ASSUME NEW s, NEW a, NEW b, Reads[s] \subseteq DOMAIN a, DOMAIN a \subseteq DOMAIN b,
         \A x \in DOMAIN a : b[x] = a[x]
  PROVE  InputsOf(s, b) = InputsOf(s, a)
  <1>1. Reads[s] \cap DOMAIN a = Reads[s] /\ Reads[s] \cap DOMAIN b = Reads[s]
    OBVIOUS
  <1> QED BY <1>1 DEF InputsOf
-----------------------------------------------------------------------------
(***************************************************************************)
(* What the invariant says of the checked properties.                        *)
(***************************************************************************)
LEMMA IInvStore == IInv => TypeOK /\ ManifestsTrue
  <1> SUFFICES ASSUME IInv PROVE TypeOK /\ ManifestsTrue
    OBVIOUS
  <1>1. \A m \in Manifests : \E s \in Stages : m # Nothing /\ ManifestOK(m, s)
    BY DEF IInv, StoreOK, Manifests
  <1>2. ManifestsTrue
    BY <1>1 DEF ManifestsTrue, Succeeded, ManifestOK, Compute
  <1>3. \A m \in Manifests : m.status \in {"failed"} \cup Good
    BY <1>1 DEF ManifestOK
  <1>4. \A k \in DOMAIN index :
           index[k] # <<>> /\ Range(index[k]) \subseteq RunIds /\ IsInjective(index[k])
    <2> SUFFICES ASSUME NEW k \in DOMAIN index
                 PROVE  index[k] # <<>> /\ Range(index[k]) \subseteq RunIds
                        /\ IsInjective(index[k])
      OBVIOUS
    <2>1. /\ index[k] \in Seq(RunIds) /\ index[k] # <<>>
          /\ \A a, b \in 1..Len(index[k]) : index[k][a] = index[k][b] => a = b
      BY DEF IInv, StoreOK, IndexOK
    <2>2. DOMAIN index[k] = 1..Len(index[k])
      BY <2>1
    <2> QED BY <2>1, <2>2 DEF Range, IsInjective
  <1>5. pc \in {"submitted", "writing"} => job.outcome[job.stage] = "pending"
    BY DEF IInv, ActiveOK, RunKept
  <1> QED BY <1>2, <1>3, <1>4, <1>5 DEF IInv, StoreOK, TypeOK, RunManifestOK

LEMMA PlannedIsStage ==
  ASSUME JobShape, NEW s \in Range(job.plan)
  PROVE  s \in Stages
  BY DEF JobShape, Range

LEMMA IInvCurrent == IInv => SucceededRunCurrent
  <1> SUFFICES ASSUME IInv, pc = "done", runManifest[job.run].status = "succeeded",
                      NEW s \in Range(job.plan)
               PROVE  /\ job.outcome[s] \in Good
                      /\ \E model \in IF s \in ModelBound /\ job.outcome[s] = "succeeded"
                                      THEN job.models ELSE {NoModel} :
                           files[s] = Compute(s, ConfigOf(s), model,
                                              InputsOf(s, job.available))
    BY DEF SucceededRunCurrent
  <1>1. s \in Stages /\ job.outcome[s] \in Good /\ files[s] = job.available[s]
    BY PlannedIsStage DEF IInv, ActiveOK, Verdict
  <1>2. ResultKept(s)
    BY <1>1 DEF IInv, ActiveOK
  <1> QED BY <1>1, <1>2 DEF ResultKept

LEMMA IInvComplete == IInv => CacheComplete
  <1> SUFFICES ASSUME IInv, pc = "done", runManifest[job.run].status = "succeeded",
                      job.changes = changes,
                      NEW s \in Range(job.plan), NEW r \in RunIds,
                      job.outcome[s] = "succeeded"
               PROVE  FirstHit(Candidates(r, s, KeyOf(s)), KeyOf(s),
                               IF s \in ModelBound THEN revision ELSE NoModel, files) # Nothing
    BY DEF CacheComplete
  <1> DEFINE key == KeyOf(s)
             model == IF s \in ModelBound THEN revision ELSE NoModel
             m == stageManifest[job.run][s]
             c == Candidates(r, s, key)
  <1>1. s \in Stages /\ files[s] = job.available[s] /\ "succeeded" \in Good
    BY PlannedIsStage DEF IInv, ActiveOK, Verdict, Good
  <1>2. /\ ResultKept(s) /\ job.run \in RunIds /\ job.models = {revision}
        /\ \A x \in DOMAIN job.available : files[x] = job.available[x]
        /\ ManifestOK(m, s)
    BY <1>1 DEF IInv, ActiveOK, Undisturbed, JobShape, StoreOK
  <1>3. key.inputs = InputsOf(s, job.available) /\ key.stage = s
    BY DEF KeyOf, CacheKey
  <1>4. \A x \in DOMAIN key.inputs : files[x] = key.inputs[x]
    BY <1>2, <1>3 DEF InputsOf
  <1>5. model # Unresolved
    BY WorkspaceAssumption DEF IInv, StoreOK, NoModel, Unresolved
  <1>6. Reusable(m, key, model, files)
    <2>1. m # Nothing /\ m.key = key /\ m.status = "succeeded" /\ m.output = files[s]
      BY <1>1, <1>2 DEF ResultKept
    <2>2. m.model = model
      BY <1>1, <1>2 DEF ResultKept
    <2> HIDE DEF m, key, model
    <2> QED BY <2>1, <2>2, <1>3, <1>4, <1>5 DEF Reusable
  <1>7. key \in DOMAIN index /\ job.run \in Range(index[key])
    BY <1>1, <1>2 DEF ResultKept
  <1>8. /\ c \in Seq({stageManifest[q][s] : q \in RunIds})
        /\ \E i \in 1..Len(c) : c[i] = m
    <2>1. \A k \in DOMAIN index : index[k] \in Seq(RunIds)
      BY DEF IInv, StoreOK, IndexOK
    <2>2. PICK k : k = key
      OBVIOUS
    <2> DEFINE d == Candidates(r, s, k)
    <2>3. AreOffered(d, r, s, k)
      BY <2>1, CandidatesAre
    <2>4. d = c
      BY <2>2
    <2>5. Offers(r, k, job.run)
      BY <1>7, <2>2 DEF Offers
    <2> HIDE DEF c, d, key
    <2> QED BY <1>2, <2>3, <2>4, <2>5 DEF AreOffered
  <1> HIDE DEF key, model, m, c
  <1>9. PICK i \in 1..Len(c) : Reusable(c[i], key, model, files)
    BY <1>6, <1>8
  <1>10. \A q \in 1..Len(c) : Reusable(c[q], key, model, files) => c[q] # Nothing
    BY DEF Reusable
  <1>11. FirstHit(c, key, model, files) # Nothing
    BY <1>8, <1>9, <1>10, FirstHitIs
  <1> QED BY <1>11 DEF key, model, c
-----------------------------------------------------------------------------
(***************************************************************************)
(* The steps.                                                                *)
(***************************************************************************)
LEMMA InitIInv == Init => IInv
  <1> SUFFICES ASSUME Init PROVE IInv
    OBVIOUS
  <1>1. \A r \in RunIds : RunManifestOK(r)
    BY DEF Init, RunManifestOK
  <1>2. \A r \in RunIds : \A s \in Stages : ManifestOK(stageManifest[r][s], s)
    BY DEF Init, ManifestOK
  <1>3. IndexOK(index)
    BY DEF Init, IndexOK
  <1> QED BY <1>1, <1>2, <1>3 DEF Init, IInv, StoreOK

\* What journal.record_stage is given: the result of a Stage for the key of its
\* task, and if it ended well, what the Stage computes from the run's artifacts.
Justified(s, m) ==
  /\ DOMAIN m = {"key", "status", "model", "output"}
  /\ m.key = KeyOf(s) /\ m.status \in {"failed"} \cup Good
  /\ m.status = "failed" => m.output = Nothing
  /\ m.status \in Good =>
        /\ Reads[s] \subseteq DOMAIN job.available
        /\ m.output = Compute(s, ConfigOf(s), m.model, InputsOf(s, job.available))
        /\ m.model \in IF s \in ModelBound /\ m.status = "succeeded"
                       THEN job.models ELSE {NoModel}

LEMMA JustifiedIsOK ==
  ASSUME NEW s, NEW m, Justified(s, m)
  PROVE  m # Nothing /\ ManifestOK(m, s)
  <1>1. m # Nothing
    BY DEF Justified, Nothing
  <1>2. /\ KeyOf(s).stage = s /\ KeyOf(s).config = ConfigOf(s)
        /\ KeyOf(s).inputs = InputsOf(s, job.available)
    BY DEF KeyOf, CacheKey
  <1> QED BY <1>1, <1>2 DEF Justified, ManifestOK, Good

\* The job after a recorded result
LEMMA EndsIs ==
  ASSUME JobShape, NEW s \in Stages, NEW m, m.status \in {"failed"} \cup Good,
         job' = Ends(s, m)
  PROVE  /\ DOMAIN job' = DOMAIN job /\ job' # NoJob
         /\ job'.run = job.run /\ job'.settings = job.settings /\ job'.plan = job.plan
         /\ job'.stage = job.stage /\ job'.models = job.models
         /\ job'.changes = job.changes
         /\ job'.outcome = [job.outcome EXCEPT ![s] = m.status]
         /\ m.status = "failed" => job'.available = job.available
         /\ m.status # "failed" =>
               /\ DOMAIN job'.available = DOMAIN job.available \cup {s}
               /\ job'.available[s] = m.output
               /\ \A x \in DOMAIN job.available : x # s => job'.available[x] = job.available[x]
  <1>1. CASE m.status = "failed"
    <2>1. job' = [job EXCEPT !.outcome[s] = "failed"]
      BY <1>1 DEF Ends, Fails
    <2> QED BY <1>1, <2>1 DEF JobShape, NoJob
  <1>2. CASE m.status # "failed"
    <2> DEFINE a == [x \in DOMAIN job.available \cup {s} |->
                       IF x = s THEN m.output ELSE job.available[x]]
    <2>1. job' = [job EXCEPT !.outcome[s] = m.status, !.available = a]
      BY <1>2 DEF Ends, JobShape
    <2>2. /\ DOMAIN a = DOMAIN job.available \cup {s} /\ a[s] = m.output
          /\ \A x \in DOMAIN job.available : x # s => a[x] = job.available[x]
      OBVIOUS
    <2> HIDE DEF a
    <2>3. DOMAIN job' = DOMAIN job /\ job'.available = a
      BY <2>1 DEF JobShape
    <2>4. /\ job'.run = job.run /\ job'.settings = job.settings /\ job'.plan = job.plan
          /\ job'.stage = job.stage /\ job'.models = job.models
          /\ job'.changes = job.changes
      BY <2>1 DEF JobShape
    <2>5. job'.outcome = [job.outcome EXCEPT ![s] = m.status]
      BY <2>1 DEF JobShape
    <2>6. job' # NoJob
      BY <2>3 DEF JobShape, NoJob
    <2> QED BY <1>2, <2>2, <2>3, <2>4, <2>5, <2>6
  <1> QED BY <1>1, <1>2

\* Nothing but the output file of s may have changed.
OthersStay(s) ==
  /\ DOMAIN files' = Paths /\ \A x \in Paths : x # s => files'[x] = files[x]
  /\ UNCHANGED <<world, execs, changes>>

\* journal.record_stage keeps the documents true, however far it gets.
LEMMA RecordKeepsStore ==
  ASSUME StoreOK, JobShape, runManifest[job.run] # Nothing,
         NEW s \in Stages, NEW m, Justified(s, m), OthersStay(s),
         NEW store, Record(s, m, store)
  PROVE  /\ StoreOK'
         /\ \A t \in Stages : t # s => stageManifest'[job.run][t] = stageManifest[job.run][t]
         /\ \A k \in DOMAIN index : k \in DOMAIN index' /\ Range(index[k]) \subseteq Range(index'[k])
         /\ \/ Lost
            \/ /\ pc' = "choosing" /\ job' = Ends(s, m)
               /\ m.status # "failed" => store[s] = m.output
               /\ stageManifest'[job.run][s] = m
               /\ m.status = "succeeded" =>
                     m.key \in DOMAIN index' /\ job.run \in Range(index'[m.key])
               /\ runManifest'[job.run] # Nothing
               /\ runManifest'[job.run].stages = runManifest[job.run].stages \cup {s}
  <1>1. m # Nothing /\ ManifestOK(m, s) /\ m.status \in {"failed"} \cup Good
    BY JustifiedIsOK DEF Justified
  <1>2. PICK written \in 0..3 :
          /\ m.status # "failed" => store[s] = m.output
          /\ stageManifest' = IF written < 1 THEN stageManifest
                              ELSE [stageManifest EXCEPT ![job.run][s] = m]
          /\ index' = IF written < 2 THEN index ELSE IndexedAfter(m)
          /\ runManifest' = IF written < 3 THEN runManifest
                            ELSE [runManifest EXCEPT ![job.run].stages = @ \cup {s}]
          /\ IF written < 3 THEN Lost
             ELSE pc' = "choosing" /\ job' = Ends(s, m)
    BY DEF Record
  <1>3. job.run \in RunIds
    BY DEF JobShape
  <1>4. /\ DOMAIN stageManifest' = RunIds
        /\ \A r \in RunIds : DOMAIN stageManifest'[r] = Stages
                             /\ \A t \in Stages : ManifestOK(stageManifest'[r][t], t)
        /\ \A t \in Stages : t # s => stageManifest'[job.run][t] = stageManifest[job.run][t]
        /\ ~(written < 1) => stageManifest'[job.run][s] = m
    BY <1>1, <1>2, <1>3 DEF StoreOK
  <1>5. /\ IndexOK(index')
        /\ \A k \in DOMAIN index : k \in DOMAIN index' /\ Range(index[k]) \subseteq Range(index'[k])
        /\ ~(written < 2) /\ m.status = "succeeded" =>
              m.key \in DOMAIN index' /\ job.run \in Range(index'[m.key])
    <2>1. IndexOK(index)
      BY DEF StoreOK
    <2>2. PICK after : after = IndexedAfter(m)
      OBVIOUS
    <2>3. /\ IndexOK(after)
          /\ \A k \in DOMAIN index : k \in DOMAIN after /\ Range(index[k]) \subseteq Range(after[k])
          /\ m.status = "succeeded" => m.key \in DOMAIN after /\ job.run \in Range(after[m.key])
      BY <2>1, <2>2, <1>3, IndexedAfterKeeps
    <2>4. index' = index \/ (index' = after /\ ~(written < 2))
      BY <1>2, <2>2
    <2>5. written < 2 => index' = index
      BY <1>2
    <2>6. ~(written < 2) => index' = after
      BY <1>2, <2>2
    <2> QED BY <2>1, <2>3, <2>4, <2>5, <2>6
  <1>6. /\ DOMAIN runManifest' = RunIds /\ \A r \in RunIds : RunManifestOK(r)'
        /\ ~(written < 3) =>
              /\ runManifest'[job.run] # Nothing
              /\ runManifest'[job.run].stages = runManifest[job.run].stages \cup {s}
    <2>1. CASE written < 3
      BY <2>1, <1>2 DEF StoreOK, RunManifestOK
    <2>2. CASE ~(written < 3)
      <3>1. runManifest' = [runManifest EXCEPT ![job.run].stages = @ \cup {s}]
        BY <2>2, <1>2
      <3>2. /\ RunManifestOK(job.run) /\ DOMAIN runManifest = RunIds
            /\ \A r \in RunIds : RunManifestOK(r)
        BY <1>3 DEF StoreOK
      <3>3. /\ DOMAIN runManifest' = RunIds
            /\ \A r \in RunIds : r # job.run => runManifest'[r] = runManifest[r]
            /\ runManifest'[job.run] = [runManifest[job.run] EXCEPT !.stages = @ \cup {s}]
        BY <3>1, <3>2, <1>3
      <3>4. /\ DOMAIN runManifest'[job.run] = {"status", "inputs", "stages"}
            /\ runManifest'[job.run].status = runManifest[job.run].status
            /\ runManifest'[job.run].inputs = runManifest[job.run].inputs
            /\ runManifest'[job.run].stages = runManifest[job.run].stages \cup {s}
        BY <3>2, <3>3 DEF RunManifestOK
      <3>5. runManifest'[job.run] # Nothing
        BY <3>4 DEF Nothing
      <3>6. ASSUME NEW r \in RunIds
            PROVE  RunManifestOK(r)'
        <4>1. CASE r = job.run
          BY <4>1, <3>2, <3>4 DEF RunManifestOK
        <4>2. CASE r # job.run
          BY <4>2, <3>2, <3>3 DEF RunManifestOK
        <4> QED BY <4>1, <4>2
      <3> QED BY <3>3, <3>4, <3>5, <3>6
    <2> QED BY <2>1, <2>2
  <1>7. (pc' = "idle") = (job' = NoJob) /\ pc' \in {"idle", "choosing"}
    <2>1. CASE written < 3
      BY <2>1, <1>2 DEF Lost
    <2>2. CASE ~(written < 3)
      <3>1. pc' = "choosing" /\ job' = Ends(s, m)
        BY <2>2, <1>2
      <3>2. job' # NoJob
        BY <3>1, <1>1, EndsIs
      <3> QED BY <3>1, <3>2
    <2> QED BY <2>1, <2>2
  <1>8. StoreOK'
    BY <1>4, <1>5, <1>6, <1>7 DEF StoreOK, OthersStay, world
  <1> QED BY <1>2, <1>4, <1>5, <1>6, <1>8

\* The same for the run's artifacts: they only become more.
LEMMA InputsStayHere ==
  ASSUME NEW s, Reads[s] \subseteq DOMAIN job.available,
         DOMAIN job.available \subseteq DOMAIN job'.available,
         \A x \in DOMAIN job.available : job'.available[x] = job.available[x]
  PROVE  InputsOf(s, job.available)' = InputsOf(s, job.available)
  <1>1. InputsOf(s, job'.available) = InputsOf(s, job.available)
    BY InputsStay
  <1> QED BY <1>1 DEF InputsOf

\* A recorded result leaves a run whose results are all its own, or no run.
LEMMA RecordKeeps ==
  ASSUME IInv, pc \in {"choosing", "submitted", "writing"},
         NEW s \in Stages, s \in Range(job.plan), job.outcome[s] = "pending",
         NEW m, Justified(s, m), OthersStay(s), Record(s, m, files')
  PROVE  IInv'
  <1>1. StoreOK /\ ActiveOK /\ JobShape /\ RunKept /\ Undisturbed
    BY DEF IInv, ActiveOK
  <1>2. PICK store : store = files'
    OBVIOUS
  <1>3. Record(s, m, store)
    BY <1>2 DEF Record
  <1>4. /\ StoreOK'
        /\ \A t \in Stages : t # s => stageManifest'[job.run][t] = stageManifest[job.run][t]
        /\ \A k \in DOMAIN index : k \in DOMAIN index' /\ Range(index[k]) \subseteq Range(index'[k])
        /\ \/ Lost
           \/ /\ pc' = "choosing" /\ job' = Ends(s, m)
              /\ m.status # "failed" => store[s] = m.output
              /\ stageManifest'[job.run][s] = m
              /\ m.status = "succeeded" =>
                    m.key \in DOMAIN index' /\ job.run \in Range(index'[m.key])
              /\ runManifest'[job.run] # Nothing
              /\ runManifest'[job.run].stages = runManifest[job.run].stages \cup {s}
    BY <1>1, <1>3, RecordKeepsStore DEF RunKept
  <1>5. CASE Lost
    BY <1>4, <1>5 DEF Lost, IInv
  <1>6. CASE pc' = "choosing" /\ ~ Lost
    <2>1. /\ job' = Ends(s, m)
          /\ m.status # "failed" => files'[s] = m.output
          /\ stageManifest'[job.run][s] = m
          /\ m.status = "succeeded" => m.key \in DOMAIN index' /\ job.run \in Range(index'[m.key])
          /\ runManifest'[job.run] # Nothing
          /\ runManifest'[job.run].stages = runManifest[job.run].stages \cup {s}
      BY <1>2, <1>4, <1>6
    <2>2. m.status \in {"failed"} \cup Good
      BY DEF Justified
    <2>3. /\ DOMAIN job' = DOMAIN job /\ job' # NoJob
          /\ job'.run = job.run /\ job'.settings = job.settings /\ job'.plan = job.plan
          /\ job'.stage = job.stage /\ job'.models = job.models
          /\ job'.changes = job.changes
          /\ job'.outcome = [job.outcome EXCEPT ![s] = m.status]
          /\ m.status = "failed" => job'.available = job.available
          /\ m.status # "failed" =>
                /\ DOMAIN job'.available = DOMAIN job.available \cup {s}
                /\ job'.available[s] = m.output
                /\ \A x \in DOMAIN job.available :
                      x # s => job'.available[x] = job.available[x]
      BY <1>1, <2>1, <2>2, EndsIs
    <2>4. s \notin DOMAIN job.available
      BY <1>1 DEF RunKept, Good
    <2>5. /\ DOMAIN job.available \subseteq DOMAIN job'.available
          /\ \A x \in DOMAIN job.available : job'.available[x] = job.available[x]
          /\ \A x \in DOMAIN job'.available :
                x \in DOMAIN job.available \/ (x = s /\ m.status # "failed")
      BY <2>2, <2>3, <2>4
    <2>6. /\ \A t \in Stages : t # s => job'.outcome[t] = job.outcome[t]
          /\ job'.outcome[s] = m.status /\ job'.outcome \in [Stages -> Outcomes]
      BY <1>1, <2>2, <2>3 DEF JobShape, Outcomes
    <2>7. JobShape'
      <3>1. DOMAIN job'.available \subseteq Paths
        BY <1>1, <2>5 DEF JobShape, Paths
      <3> QED BY <1>1, <2>3, <2>6, <3>1 DEF JobShape, OthersStay, world
    <2>8. RunKept'
      <3>1. runManifest'[job.run].stages = {t \in Stages : job'.outcome[t] # "pending"}
        BY <1>1, <2>1, <2>2, <2>6 DEF RunKept, Good
      <3>2. \A t \in Stages : job'.outcome[t] # "pending" => t \in Range(job.plan)
        BY <1>1, <2>6 DEF RunKept
      <3>3. ASSUME NEW t \in Range(job.plan)
            PROVE  t \in DOMAIN job'.available <=> job'.outcome[t] \in Good
        <4>1. t \in Stages
          BY <1>1, PlannedIsStage
        <4>2. CASE t = s
          BY <4>2, <2>2, <2>3, <2>4, <2>6 DEF Good
        <4>3. CASE t # s
          BY <4>1, <4>3, <1>1, <2>5, <2>6 DEF RunKept
        <4> QED BY <4>2, <4>3
      <3> QED BY <1>6, <2>1, <2>3, <3>1, <3>2, <3>3 DEF RunKept
    <2>9. Undisturbed'
      <3> SUFFICES ASSUME job'.changes = changes'
                   PROVE  /\ job'.models = {revision'}
                          /\ \A x \in DOMAIN job'.available : files'[x] = job'.available[x]
        BY DEF Undisturbed
      <3>1. job.changes = changes /\ revision' = revision
        BY <2>3 DEF OthersStay, world
      <3>2. ASSUME NEW x \in DOMAIN job'.available
            PROVE  files'[x] = job'.available[x]
        <4>1. CASE x = s /\ m.status # "failed"
          BY <4>1, <2>1, <2>3
        <4>2. CASE x \in DOMAIN job.available
          BY <4>2, <3>1, <1>1, <2>4, <2>5 DEF Undisturbed, OthersStay, JobShape
        <4> QED BY <4>1, <4>2, <2>5
      <3> QED BY <3>1, <3>2, <1>1, <2>3 DEF Undisturbed
    <2>10. ASSUME NEW t \in Stages, job'.outcome[t] \in Good
           PROVE  ResultKept(t)'
      <3>1. CASE t = s
        <4>1. m.status \in Good /\ m.status # "failed"
          BY <2>6, <2>10, <3>1 DEF Good
        <4>2. Reads[s] \subseteq DOMAIN job.available
          BY <4>1 DEF Justified
        <4>3. InputsOf(s, job.available)' = InputsOf(s, job.available)
          BY <4>2, <2>5, InputsStayHere
        <4>4. KeyOf(s)' = KeyOf(s) /\ ConfigOf(s)' = ConfigOf(s)
          BY <4>3, <2>3 DEF KeyOf, ConfigOf
        <4> QED BY SMTT(30), <3>1, <4>1, <4>2, <4>3, <4>4, <2>1, <2>3, <2>5, <2>6, JustifiedIsOK
            DEF ResultKept, Justified
      <3>2. CASE t # s
        <4>1. ResultKept(t) /\ job'.outcome[t] = job.outcome[t]
          BY <3>2, <1>1, <2>6, <2>10 DEF ActiveOK
        <4>2. InputsOf(t, job.available)' = InputsOf(t, job.available)
          BY <4>1, <2>5, InputsStayHere DEF ResultKept
        <4>3. KeyOf(t)' = KeyOf(t) /\ ConfigOf(t)' = ConfigOf(t)
          BY <4>2, <2>3 DEF KeyOf, ConfigOf
        <4>4. stageManifest'[job'.run][t] = stageManifest[job.run][t]
          BY <3>2, <1>4, <2>3
        <4>5. t \in DOMAIN job.available
          BY <4>1, <2>10, <1>1 DEF RunKept, Good
        <4> QED BY <4>1, <4>2, <4>3, <4>4, <4>5, <1>4, <2>3, <2>5 DEF ResultKept
      <3> QED BY <3>1, <3>2
    <2>11. Verdict'
      BY <1>6 DEF Verdict
    <2> QED BY <1>4, <2>7, <2>8, <2>9, <2>10, <2>11 DEF IInv, ActiveOK
  <1> QED BY <1>4, <1>5, <1>6

\* A hit is a manifest of the same Stage and key, filed under some run that the
\* index offers.
LEMMA HitIs ==
  ASSUME IndexOK(index), NEW run \in RunIds, NEW s, NEW key, NEW models, NEW force
  PROVE  LET hit == Hit(run, s, key, models, force) IN
         \/ hit = Nothing
         \/ /\ s \notin force /\ Reusable(hit, key, models, files)
            /\ \E r \in RunIds : Offers(run, key, r) /\ hit = stageManifest[r][s]
  <1> DEFINE c == Candidates(run, s, key)
             A == {stageManifest[r][s] : r \in RunIds}
             hit == FirstHit(c, key, models, files)
  <1>1. c \in Seq(A)
    BY CandidatesAre DEF IndexOK, AreOffered
  <1>2. \/ hit = Nothing
        \/ \E i \in 1..Len(c) : hit = c[i] /\ Reusable(c[i], key, models, files)
    <2>1. PICK d, f : d = c /\ f = files
      OBVIOUS
    <2> HIDE DEF c, A
    <2>2. d \in Seq(A)
      BY <1>1, <2>1
    <2>3. PICK B : B = A
      OBVIOUS
    <2>4. d \in Seq(B)
      BY <2>2, <2>3
    <2> DEFINE h == FirstHit(d, key, models, f)
    <2>5. \/ h = Nothing
          \/ \E i \in 1..Len(d) : h = d[i] /\ Reusable(d[i], key, models, f)
      BY <2>4, FirstHitIs
    <2>6. h = hit
      BY <2>1
    <2> HIDE DEF h, hit
    <2> QED BY <2>1, <2>5, <2>6
  <1>3. \A i \in 1..Len(c) :
           \E r \in RunIds : Offers(run, key, r) /\ c[i] = stageManifest[r][s]
    <2>1. \A k \in DOMAIN index : index[k] \in Seq(RunIds)
      BY DEF IndexOK
    <2>2. AreOffered(c, run, s, key)
      BY <2>1, CandidatesAre
    <2> HIDE DEF c
    <2> QED BY <2>2 DEF AreOffered
  <1>4. \/ Hit(run, s, key, models, force) = Nothing
        \/ s \notin force /\ Hit(run, s, key, models, force) = hit
    BY DEF Hit
  <1> HIDE DEF c, hit
  <1> QED BY <1>2, <1>3, <1>4

\* No Stage that is switched off has a succeeded manifest.
OffSkipped ==
  \A r \in RunIds, s \in Stages :
     (stageManifest[r][s] # Nothing /\ stageManifest[r][s].status = "succeeded") =>
        stageManifest[r][s].key.config \notin Off

\* The model that runs s in this world
Deployed(s) == IF s \in ModelBound THEN revision ELSE NoModel

\* A result that any other run in this world would have come to
Current(s, m) ==
  m.status \in Good =>
     IF ConfigOf(s) \in Off THEN m.status = "skipped"
     ELSE m.status = "succeeded" /\ m.model = Deployed(s)

\* The step records a justified result of s.
Records(s) ==
  \E m : /\ Justified(s, m) /\ (OffSkipped => Current(s, m))
         /\ OthersStay(s) /\ Record(s, m, files')

LEMMA FailureRecords ==
  ASSUME NEW s, OthersStay(s), files' = files, Record(s, Failure(s), files)
  PROVE  Records(s)
  <1>1. PICK m : m = Failure(s)
    OBVIOUS
  <1>2. Justified(s, m) /\ Current(s, m)
    BY <1>1 DEF Failure, Manifest, Justified, Current, Good
  <1>3. Record(s, m, files')
    BY <1>1 DEF Record
  <1> QED BY <1>2, <1>3 DEF Records

\* _run_stage: a result is recorded, or the Stage is submitted because nothing
\* could be reused.
Submits(s) ==
  /\ Reads[s] \subseteq DOMAIN job.available
  /\ \E models \in Resolvable(s) : Hit(job.run, s, KeyOf(s), models, job.force) = Nothing
  /\ pc' = "submitted" /\ job' = [job EXCEPT !.stage = s]
  /\ UNCHANGED stored

LEMMA EvaluateIs ==
  ASSUME IInv, NEW s \in Stages, Evaluate(s)
  PROVE  /\ s \in Range(job.plan) /\ job.outcome[s] = "pending" /\ pc = "choosing"
         /\ OthersStay(s) /\ files' = files
         /\ Records(s) \/ Submits(s)
  <1>1. StoreOK /\ ActiveOK /\ JobShape /\ RunKept /\ Undisturbed
    BY DEF IInv, ActiveOK, Evaluate
  <1>2. s \in Range(job.plan) /\ job.outcome[s] = "pending" /\ pc = "choosing"
    BY DEF Evaluate, Next_, Runnable
  <1>3. OthersStay(s) /\ files' = files
    BY <1>1 DEF Evaluate, OthersStay, StoreOK
  <1>4. PICK models \in Resolvable(s) :
          LET hit == Hit(job.run, s, KeyOf(s), models, job.force)
          IN IF ~ Reads[s] \subseteq DOMAIN job.available
             THEN Record(s, Failure(s), files)
             ELSE IF hit # Nothing
             THEN Record(s, [hit EXCEPT !.key = KeyOf(s)], files)
             ELSE /\ pc' = "submitted"
                  /\ job' = [job EXCEPT !.stage = s]
                  /\ UNCHANGED stored
    BY DEF Evaluate
  <1>5. CASE ~ Reads[s] \subseteq DOMAIN job.available
    BY <1>2, <1>3, <1>4, <1>5, FailureRecords
  <1>6. CASE /\ Reads[s] \subseteq DOMAIN job.available
             /\ Hit(job.run, s, KeyOf(s), models, job.force) # Nothing
    <2>1. PICK hit : hit = Hit(job.run, s, KeyOf(s), models, job.force)
      OBVIOUS
    <2>2. Record(s, [hit EXCEPT !.key = KeyOf(s)], files)
      BY <1>4, <1>6, <2>1
    <2>3. PICK run, key, force : run = job.run /\ key = KeyOf(s) /\ force = job.force
      OBVIOUS
    <2>4. hit = Hit(run, s, key, models, force) /\ run \in RunIds /\ hit # Nothing
      BY <1>1, <1>6, <2>1, <2>3 DEF JobShape
    <2>5. /\ Reusable(hit, key, models, files)
          /\ \E r \in RunIds : hit = stageManifest[r][s]
      BY <2>4, <1>1, HitIs DEF StoreOK
    <2>6. ManifestOK(hit, s)
      BY <2>5, <1>1 DEF StoreOK
    <2>7. PICK m : m = [hit EXCEPT !.key = KeyOf(s)]
      OBVIOUS
    <2>8. /\ DOMAIN m = {"key", "status", "model", "output"}
          /\ m.key = key /\ hit.key = key
          /\ m.status = "succeeded" /\ m.model = hit.model /\ m.output = hit.output
          /\ models # Unresolved /\ hit.model = models
      BY <2>3, <2>4, <2>5, <2>6, <2>7 DEF ManifestOK, Reusable
    <2>9. m.output = Compute(s, ConfigOf(s), m.model, InputsOf(s, job.available))
      <3>1. hit.output = Compute(s, hit.key.config, hit.model, hit.key.inputs)
        BY <2>4, <2>5, <2>6 DEF ManifestOK, Reusable
      <3>2. key.config = ConfigOf(s) /\ key.inputs = InputsOf(s, job.available)
        BY <2>3 DEF KeyOf, CacheKey
      <3> QED BY <3>1, <3>2, <2>8
    <2>10. m.model \in IF s \in ModelBound /\ m.status = "succeeded"
                       THEN job.models ELSE {NoModel}
      BY <2>8, <1>1 DEF Resolvable, JobShape
    <2>11. Justified(s, m)
      BY <1>6, <2>3, <2>8, <2>9, <2>10 DEF Justified, Good
    <2>12. Record(s, m, files')
      BY <1>3, <2>2, <2>7 DEF Record
    <2>13. OffSkipped => Current(s, m)
      <3>1. models = Deployed(s)
        BY <1>1, <2>8 DEF Resolvable, Deployed
      <3>2. hit.key.config = ConfigOf(s)
        BY <2>3, <2>8 DEF KeyOf, CacheKey
      <3>3. OffSkipped => ConfigOf(s) \notin Off
        BY <2>4, <2>5, <3>2 DEF OffSkipped, Reusable
      <3> QED BY <2>8, <3>1, <3>3 DEF Current
    <2> QED BY <1>2, <1>3, <2>11, <2>12, <2>13 DEF Records
  <1>7. CASE /\ Reads[s] \subseteq DOMAIN job.available
             /\ ~ (Hit(job.run, s, KeyOf(s), models, job.force) # Nothing)
    BY <1>2, <1>3, <1>4, <1>7 DEF Submits
  <1> QED BY <1>5, <1>6, <1>7

LEMMA RecordsKeep ==
  ASSUME IInv, pc \in {"choosing", "submitted", "writing"},
         NEW s \in Stages, s \in Range(job.plan), job.outcome[s] = "pending", Records(s)
  PROVE  IInv'
  BY RecordKeeps DEF Records

LEMMA EvaluateKeeps ==
  ASSUME IInv, NEW s \in Stages, Evaluate(s)
  PROVE  IInv'
  <1>1. StoreOK /\ ActiveOK /\ JobShape /\ RunKept /\ Undisturbed
    BY DEF IInv, ActiveOK, Evaluate
  <1>2. s \in Range(job.plan) /\ job.outcome[s] = "pending" /\ pc = "choosing"
    BY EvaluateIs
  <1>3. OthersStay(s) /\ files' = files
    BY EvaluateIs
  <1>4. CASE Records(s)
    BY <1>2, <1>4, RecordsKeep
  <1>5. CASE Submits(s)
    <2>1. pc' = "submitted" /\ job' = [job EXCEPT !.stage = s] /\ UNCHANGED stored
      BY <1>5 DEF Submits
    <2>2. /\ DOMAIN job' = DOMAIN job /\ job'.run = job.run /\ job'.settings = job.settings
          /\ job'.plan = job.plan /\ job'.available = job.available
          /\ job'.outcome = job.outcome /\ job'.stage = s /\ job'.models = job.models
          /\ job'.changes = job.changes
      BY <2>1, <1>1 DEF JobShape
    <2>3. job' # NoJob
      BY <2>2, <1>1 DEF JobShape, NoJob
    <2>4. StoreOK'
      BY <1>1, <1>3, <2>1, <2>3 DEF StoreOK, OthersStay, world, stored, RunManifestOK
    <2>5. JobShape'
      BY <1>1, <1>3, <2>2 DEF JobShape, OthersStay, world
    <2>6. RunKept'
      BY <1>1, <1>2, <1>5, <2>1, <2>2 DEF RunKept, stored, Submits
    <2>7. Undisturbed' /\ Verdict'
      BY <1>1, <1>3, <2>1, <2>2 DEF Undisturbed, Verdict, OthersStay, world
    <2>8. ASSUME NEW t \in Stages, job'.outcome[t] \in Good
          PROVE  ResultKept(t)'
      BY <1>1, <2>1, <2>2, <2>8
      DEF ActiveOK, ResultKept, KeyOf, ConfigOf, InputsOf, stored
    <2> QED BY <2>4, <2>5, <2>6, <2>7, <2>8 DEF IInv, ActiveOK
  <1> QED BY <1>4, <1>5, EvaluateIs

LEMMA ExecuteKeeps ==
  ASSUME IInv, NEW s \in Stages, Execute(s)
  PROVE  IInv'
  <1>1. StoreOK /\ ActiveOK /\ JobShape /\ RunKept /\ Undisturbed
    BY DEF IInv, ActiveOK, Execute
  <1>2. /\ s \in Range(job.plan) /\ job.outcome[s] = "pending" /\ pc = "submitted"
        /\ Reads[s] \subseteq DOMAIN job.available /\ job.stage = s
    BY <1>1 DEF Execute, RunKept
  <1>3. CASE InputsIntact(s)
    <2>1. /\ pc' = "writing" /\ files' = [files EXCEPT ![s] = Damaged]
          /\ UNCHANGED <<stored, job>> /\ UNCHANGED <<world, execs, changes>>
      BY <1>3 DEF Execute
    <2>2. s \notin DOMAIN job.available
      BY <1>1, <1>2 DEF RunKept, Good
    <2>3. DOMAIN files' = Paths /\ \A x \in DOMAIN job.available : files'[x] = files[x]
      BY <1>1, <2>1, <2>2 DEF StoreOK, JobShape
    <2>4. StoreOK'
      BY <1>1, <1>2, <2>1, <2>3 DEF StoreOK, world, stored, RunManifestOK
    <2>5. InputsIntact(s)'
      BY <1>2, <1>3, <2>1, <2>3 DEF InputsIntact, Read, world
    <2>6. RunKept'
      BY <1>1, <1>2, <2>1, <2>5 DEF RunKept, stored
    <2>7. JobShape' /\ Undisturbed' /\ Verdict'
      BY <1>1, <2>1, <2>3 DEF JobShape, Undisturbed, Verdict, world
    <2>8. ASSUME NEW t \in Stages, job'.outcome[t] \in Good
          PROVE  ResultKept(t)'
      BY <1>1, <2>1, <2>8 DEF ActiveOK, ResultKept, KeyOf, ConfigOf, InputsOf, stored
    <2> QED BY <2>4, <2>6, <2>7, <2>8 DEF IInv, ActiveOK
  <1>4. CASE ~ InputsIntact(s)
    <2>1. /\ Record(s, Failure(s), files) /\ files' = files
          /\ UNCHANGED <<world, execs, changes>>
      BY <1>4 DEF Execute
    <2>2. OthersStay(s)
      BY <1>1, <2>1 DEF OthersStay, StoreOK
    <2> QED BY <1>2, <2>1, <2>2, FailureRecords, RecordsKeep
  <1> QED BY <1>3, <1>4

LEMMA CompleteIs ==
  ASSUME IInv, NEW s \in Stages, Complete(s)
  PROVE  /\ s \in Range(job.plan) /\ job.outcome[s] = "pending" /\ pc = "writing"
         /\ Records(s)
  <1>1. StoreOK /\ ActiveOK /\ JobShape /\ RunKept
    BY DEF IInv, ActiveOK, Complete
  <1>2. /\ s \in Range(job.plan) /\ job.outcome[s] = "pending" /\ pc = "writing"
        /\ Reads[s] \subseteq DOMAIN job.available /\ InputsIntact(s)
    BY <1>1 DEF Complete, RunKept
  <1>3. PICK status, model, output :
          /\ status = IF ConfigOf(s) \in Off THEN "skipped" ELSE "succeeded"
          /\ model = IF s \in ModelBound /\ status = "succeeded" THEN revision ELSE NoModel
          /\ output = Compute(s, ConfigOf(s), model, [r \in Reads[s] |-> Read(r)])
          /\ files' = [files EXCEPT ![s] = output]
          /\ Record(s, Manifest(KeyOf(s), status, model, output), files')
    BY DEF Complete
  <1>4. [r \in Reads[s] |-> Read(r)] = InputsOf(s, job.available)
    <2>1. Reads[s] \cap DOMAIN job.available = Reads[s]
      BY <1>2
    <2> QED BY <1>2, <2>1 DEF InputsIntact, InputsOf
  <1>5. PICK m : m = Manifest(KeyOf(s), status, model, output)
    OBVIOUS
  <1>6. Justified(s, m)
    <2>1. /\ DOMAIN m = {"key", "status", "model", "output"} /\ m.key = KeyOf(s)
          /\ m.status = status /\ m.model = model /\ m.output = output
      BY <1>5 DEF Manifest
    <2>2. status \in Good /\ revision \in job.models
      BY <1>1, <1>3 DEF Good, JobShape
    <2> QED BY <1>2, <1>3, <1>4, <2>1, <2>2 DEF Justified
  <1>7. Record(s, m, files')
    BY <1>3, <1>5
  <1>8. OthersStay(s)
    BY <1>1, <1>3 DEF OthersStay, StoreOK, Complete
  <1>9. Current(s, m)
    <2>1. m.status = status /\ m.model = model
      BY <1>5 DEF Manifest
    <2> QED BY <1>3, <2>1 DEF Current, Deployed, Good
  <1> QED BY <1>2, <1>6, <1>7, <1>8, <1>9 DEF Records

LEMMA AbortIs ==
  ASSUME IInv, NEW s \in Stages, Abort(s)
  PROVE  /\ s \in Range(job.plan) /\ job.outcome[s] = "pending" /\ pc = "writing"
         /\ Records(s)
  <1>1. s \in Range(job.plan) /\ job.outcome[s] = "pending" /\ pc = "writing"
    BY DEF Abort, IInv, ActiveOK, RunKept
  <1>2. OthersStay(s) /\ files' = files
    BY DEF OthersStay, IInv, StoreOK, Abort
  <1> QED BY <1>1, <1>2, FailureRecords DEF Abort

LEMMA FinishKeeps ==
  ASSUME IInv, Finish
  PROVE  IInv'
  <1>1. StoreOK /\ ActiveOK /\ JobShape /\ RunKept /\ Undisturbed
    BY DEF IInv, ActiveOK, Finish
  <1> DEFINE failed == \E s \in Stages : job.outcome[s] = "failed"
             refs == runManifest[job.run].stages
             status == IF failed THEN "failed" ELSE "succeeded"
  <1>2. CASE ~(failed \/ \A s \in refs : StageComplete(s))
    <2>1. Lost /\ UNCHANGED runManifest /\ UNCHANGED <<world, files, stageManifest, index, execs, changes>>
      BY <1>2 DEF Finish
    <2> QED BY <1>1, <2>1 DEF Lost, IInv, StoreOK, world, RunManifestOK
  <1>3. CASE failed \/ \A s \in refs : StageComplete(s)
    <2>1. /\ runManifest' = [runManifest EXCEPT ![job.run].status = status]
          /\ pc' = "done" /\ job' = job /\ pc = "choosing" /\ Ended
          /\ UNCHANGED <<world, files, stageManifest, index, execs, changes>>
      BY <1>3 DEF Finish
    <2>2. /\ DOMAIN runManifest' = RunIds
          /\ \A r \in RunIds : r # job.run => runManifest'[r] = runManifest[r]
          /\ DOMAIN runManifest'[job.run] = {"status", "inputs", "stages"}
          /\ runManifest'[job.run].status = status
          /\ runManifest'[job.run].inputs = runManifest[job.run].inputs
          /\ runManifest'[job.run].stages = refs
      <3>1. job.run \in RunIds /\ RunManifestOK(job.run) /\ DOMAIN runManifest = RunIds
        BY <1>1 DEF StoreOK, JobShape
      <3>2. /\ DOMAIN runManifest' = RunIds
            /\ \A r \in RunIds : r # job.run => runManifest'[r] = runManifest[r]
            /\ runManifest'[job.run] = [runManifest[job.run] EXCEPT !.status = status]
        BY <2>1, <3>1
      <3>3. DOMAIN runManifest[job.run] = {"status", "inputs", "stages"}
        BY <1>1, <3>1 DEF RunKept, RunManifestOK
      <3> HIDE DEF status
      <3> QED BY <3>2, <3>3
    <2>3. runManifest'[job.run] # Nothing
      BY <2>2 DEF Nothing
    <2>4. \A r \in RunIds : RunManifestOK(r)'
      <3> SUFFICES ASSUME NEW r \in RunIds PROVE RunManifestOK(r)'
        OBVIOUS
      <3>1. RunManifestOK(r) /\ status \in {"running", "failed", "succeeded"}
        BY <1>1 DEF StoreOK
      <3> HIDE DEF status
      <3>2. CASE r = job.run
        BY <1>1, <2>2, <3>1, <3>2 DEF RunManifestOK, RunKept
      <3>3. CASE r # job.run
        BY <2>2, <3>1, <3>3 DEF RunManifestOK
      <3> QED BY <3>2, <3>3
    <2>5. StoreOK'
      BY <1>1, <2>1, <2>2, <2>4 DEF StoreOK, world
    <2>6. JobShape' /\ RunKept' /\ Undisturbed'
      BY <1>1, <2>1, <2>2, <2>3 DEF JobShape, RunKept, Undisturbed, world
    <2>7. ASSUME NEW t \in Stages, job'.outcome[t] \in Good
          PROVE  ResultKept(t)'
      BY <1>1, <2>1, <2>7 DEF ActiveOK, ResultKept, KeyOf, ConfigOf, InputsOf
    <2>8. Verdict'
      <3> SUFFICES ASSUME runManifest'[job.run].status = "succeeded", NEW s \in Range(job.plan)
                   PROVE  job.outcome[s] \in Good /\ files[s] = job.available[s]
        BY <2>1 DEF Verdict
      <3>1. ~ failed
        BY <2>2
      <3>2. \A t \in Range(job.plan) : job.outcome[t] # "pending"
        <4> DEFINE S == {t \in Range(job.plan) : job.outcome[t] = "pending"}
        <4>1. S \in SUBSET Stages
          BY <1>1, PlannedIsStage
        <4>2. ASSUME S # {}
              PROVE  FALSE
          <5>1. PICK t \in S : Deps[t] \cap S = {}
            <6> HIDE DEF S
            <6> QED BY <4>1, <4>2, NoCycle
          <5>2. \A d \in Deps[t] \cap Range(job.plan) : job.outcome[d] \in Good
            <6>1. \A d \in Range(job.plan) : job.outcome[d] \in Outcomes /\ d \in Stages
              BY <1>1, PlannedIsStage DEF JobShape
            <6> QED BY <5>1, <6>1, <3>1 DEF Outcomes, Good
          <5>3. Runnable(t)
            BY <4>1, <5>1, <5>2, <3>1 DEF Runnable
          <5> QED BY <2>1, <4>1, <5>1, <5>3 DEF Ended
        <4> QED BY <4>2
      <3>3. s \in Stages /\ job.outcome[s] \in Good
        <4>1. s \in Stages
          BY <1>1, PlannedIsStage
        <4>2. job.outcome[s] \in Outcomes
          BY <1>1, <4>1 DEF JobShape
        <4> QED BY <4>1, <4>2, <3>1, <3>2 DEF Outcomes, Good
      <3>4. StageComplete(s) /\ ResultKept(s)
        BY <1>1, <1>3, <3>1, <3>2, <3>3 DEF RunKept, ActiveOK
      <3> QED BY <3>3, <3>4 DEF StageComplete, Verified, ResultKept
    <2> QED BY <2>5, <2>6, <2>7, <2>8 DEF IInv, ActiveOK
  <1> QED BY <1>2, <1>3

\* What a run is given: its video, and files that verify.
LEMMA GivenIs ==
  ASSUME StoreOK, NEW run \in RunIds, NEW wanted, NEW store
  PROVE  LET given == BoundaryArtifacts(run, wanted, store) IN
         /\ Video \in DOMAIN given /\ given[Video] = source
         /\ \A x \in DOMAIN given :
               x # Video => x \in wanted /\ x \in Paths /\ given[x] = store[x]
  <1> DEFINE old == runManifest[run]
             recorded == {x \in old.stages : stageManifest[run][x] # Nothing}
             known == [x \in DOMAIN old.inputs \cup recorded |->
                         IF x \in recorded THEN stageManifest[run][x].output
                                           ELSE old.inputs[x]]
             found == IF old = Nothing \/ old.inputs[Video] # source THEN {}
                      ELSE {x \in wanted \cap DOMAIN known : store[x] = known[x]}
             given == [x \in found \cup {Video} |-> IF x = Video THEN source ELSE known[x]]
  <1>1. BoundaryArtifacts(run, wanted, store) = given
    BY DEF BoundaryArtifacts
  <1>2. ASSUME NEW x \in found
        PROVE  x \in wanted /\ x \in Paths /\ known[x] = store[x]
    <2>1. /\ old # Nothing /\ x \in wanted /\ x \in DOMAIN known
          /\ store[x] = known[x]
      BY <1>2
    <2>2. RunManifestOK(run)
      BY DEF StoreOK
    <2>3. x \in Paths
      BY <2>1, <2>2 DEF RunManifestOK, Paths
    <2> QED BY <2>1, <2>3
  <1>3. /\ Video \in DOMAIN given /\ given[Video] = source
        /\ \A x \in DOMAIN given : x # Video => x \in found /\ given[x] = known[x]
    <2> HIDE DEF found, known
    <2> QED OBVIOUS
  <1> HIDE DEF found, known
  <1> QED BY <1>1, <1>2, <1>3

LEMMA BeginKeeps ==
  ASSUME IInv, NEW run \in RunIds, NEW settings \in Settings, NEW sel, NEW force,
         Begin(run, settings, sel, force)
  PROVE  IInv'
  <1>1. StoreOK /\ pc = "idle" /\ job = NoJob /\ ~ SelectionRefused(Registry, sel)
    BY DEF IInv, StoreOK, Begin
  <1>2. PICK plan, wanted, ingested, given, previewed :
          /\ plan = PlanOf(Registry, sel)
          /\ wanted = BoundaryOf(Registry, Range(plan))
          /\ ingested = [files EXCEPT ![Video] = source]
          /\ given = BoundaryArtifacts(run, wanted, ingested)
          /\ files' = ingested
          /\ IF MissingInputs(plan, given) # {}
             THEN UNCHANGED <<pc, job, runManifest>>
             ELSE /\ runManifest' = [runManifest EXCEPT ![run] =
                       [status |-> "running", inputs |-> given, stages |-> {}]]
                  /\ pc' = "choosing"
                  /\ job' = [run |-> run, settings |-> settings, plan |-> plan,
                             force |-> force, available |-> given,
                             outcome |-> [s \in Stages |-> "pending"],
                             stage |-> 0, models |-> {revision},
                             changes |-> changes, previewed |-> previewed]
          /\ UNCHANGED <<world, stageManifest, index, changes>>
    BY ZenonT(40) DEF Begin
  <1>3. DOMAIN files' = Paths /\ ingested[Video] = source
    BY <1>1, <1>2 DEF StoreOK, Paths
  <1>4. CASE MissingInputs(plan, given) # {}
    BY <1>1, <1>2, <1>3, <1>4 DEF IInv, StoreOK, RunManifestOK, world
  <1>5. CASE ~ (MissingInputs(plan, given) # {})
    <2>1. /\ Video \in DOMAIN given /\ given[Video] = source
          /\ \A x \in DOMAIN given :
                x # Video => x \in wanted /\ x \in Paths /\ given[x] = ingested[x]
      <3>1. LET g == BoundaryArtifacts(run, wanted, ingested) IN
            /\ Video \in DOMAIN g /\ g[Video] = source
            /\ \A x \in DOMAIN g : x # Video => x \in wanted /\ x \in Paths /\ g[x] = ingested[x]
        BY <1>1, GivenIs
      <3>2. given = BoundaryArtifacts(run, wanted, ingested)
        BY <1>2
      <3> QED BY <3>1, <3>2
    <2>2. plan \in Seq(Stages)
      BY <1>1, <1>2, PlansAreOrdered
    <2>3. 0 \notin Stages /\ Video = 0
      BY WorkspaceAssumption DEF Video
    <2>4. \A s \in Range(plan) : s \in Stages /\ s \notin DOMAIN given
      <3>1. \A s \in Range(plan) : s \in Stages
        BY <2>2 DEF Range
      <3>2. \A s \in Range(plan) : s \notin wanted
        BY <1>2, <3>1 DEF BoundaryOf, Registry
      <3> QED BY <2>1, <2>3, <3>1, <3>2
    <2>5. DOMAIN given \subseteq Paths
      BY <2>1 DEF Paths
    <2>6. /\ pc' = "choosing"
          /\ DOMAIN runManifest' = RunIds
          /\ \A r \in RunIds : r # run => runManifest'[r] = runManifest[r]
          /\ runManifest'[run] = [status |-> "running", inputs |-> given, stages |-> {}]
      BY <1>1, <1>2, <1>5 DEF StoreOK
    <2>7. /\ DOMAIN job' = {"run", "settings", "plan", "force", "available", "outcome",
                            "stage", "models", "changes", "previewed"}
          /\ job'.run = run /\ job'.settings = settings /\ job'.plan = plan
          /\ job'.available = given /\ job'.outcome = [s \in Stages |-> "pending"]
          /\ job'.models = {revision} /\ job'.changes = changes
      BY <1>2, <1>5
    <2>8. job' # NoJob /\ runManifest'[run] # Nothing
      BY <2>6, <2>7 DEF NoJob, Nothing
    <2>9. \A r \in RunIds : RunManifestOK(r)'
      <3> SUFFICES ASSUME NEW r \in RunIds PROVE RunManifestOK(r)'
        OBVIOUS
      <3>1. RunManifestOK(r)
        BY <1>1 DEF StoreOK
      <3> QED BY <2>5, <2>6, <3>1 DEF RunManifestOK
    <2>10. StoreOK'
      BY <1>1, <1>2, <1>3, <2>6, <2>8, <2>9 DEF StoreOK, world
    <2>11. JobShape'
      <3>1. changes' = changes /\ changes \in Nat /\ revision' = revision
        BY <1>1, <1>2 DEF StoreOK, world
      <3>2. job'.outcome \in [Stages -> Outcomes]
        BY <2>7 DEF Outcomes
      <3>3. job'.changes \in Nat /\ job'.changes <= changes'
        BY <2>7, <3>1
      <3> QED BY <2>2, <2>5, <2>7, <3>1, <3>2, <3>3 DEF JobShape
    <2>12. RunKept'
      BY <2>4, <2>6, <2>7, <2>8 DEF RunKept, Good
    <2>13. Undisturbed' /\ Verdict'
      BY ZenonT(40), <1>2, <1>3, <2>1, <2>6, <2>7 DEF Undisturbed, Verdict, world
    <2>14. \A s \in Stages : job'.outcome[s] \notin Good
      BY <2>7 DEF Good
    <2> QED BY <2>10, <2>11, <2>12, <2>13, <2>14 DEF IInv, ActiveOK
  <1> QED BY <1>4, <1>5

\* The user's changes are counted, so that a run that saw one is disturbed.
LEMMA ChangeKeeps ==
  ASSUME IInv, changes' = changes + 1, UNCHANGED <<stored, pc, job>>,
         Calm, DOMAIN files' = Paths,
         source' \in {BytesOf(v) : v \in Videos}, revision' = revision
  PROVE  IInv'
  <1>1. StoreOK /\ pc \in {"idle", "choosing"} /\ changes \in Nat
    BY DEF IInv, StoreOK, Calm
  <1>2. StoreOK'
    BY <1>1 DEF StoreOK, stored, RunManifestOK
  <1>3. CASE pc = "choosing"
    <2>1. ActiveOK /\ JobShape /\ RunKept
      BY <1>3 DEF IInv, ActiveOK
    <2>2. JobShape' /\ RunKept'
      BY <1>1, <1>3, <2>1 DEF JobShape, RunKept, stored
    <2>3. job'.changes # changes'
      BY <1>1, <2>1 DEF JobShape
    <2>4. Undisturbed' /\ Verdict'
      BY <1>3, <2>3 DEF Undisturbed, Verdict
    <2>5. ASSUME NEW t \in Stages, job'.outcome[t] \in Good
          PROVE  ResultKept(t)'
      BY <2>1, <2>5 DEF ActiveOK, ResultKept, KeyOf, ConfigOf, InputsOf, stored
    <2> QED BY <1>2, <2>2, <2>4, <2>5 DEF IInv, ActiveOK
  <1> QED BY <1>1, <1>2, <1>3 DEF IInv

LEMMA DeployKeeps ==
  ASSUME IInv, Deploy
  PROVE  IInv'
  <1>1. /\ StoreOK /\ changes \in Nat /\ changes' = changes + 1
        /\ revision' \in Revisions /\ UNCHANGED <<source, files, stored, pc, execs>>
        /\ job' = IF job = NoJob THEN job ELSE [job EXCEPT !.models = @ \cup {revision'}]
    BY DEF IInv, StoreOK, Deploy
  <1>2. CASE pc = "idle"
    BY <1>1, <1>2 DEF IInv, StoreOK, RunManifestOK, stored
  <1>3. CASE pc # "idle"
    <2>1. ActiveOK /\ JobShape /\ RunKept /\ Verdict /\ job # NoJob
      BY <1>1, <1>3 DEF IInv, ActiveOK, StoreOK
    <2>2. /\ DOMAIN job' = DOMAIN job /\ job'.run = job.run /\ job'.settings = job.settings
          /\ job'.plan = job.plan /\ job'.available = job.available
          /\ job'.outcome = job.outcome /\ job'.stage = job.stage
          /\ job'.models = job.models \cup {revision'} /\ job'.changes = job.changes
      BY <1>1, <2>1 DEF JobShape
    <2>3. job' # NoJob
      BY <2>1, <2>2 DEF JobShape, NoJob
    <2>4. StoreOK'
      BY <1>1, <1>3, <2>3 DEF StoreOK, stored, RunManifestOK
    <2>5. JobShape'
      BY <1>1, <2>1, <2>2 DEF JobShape
    <2>6. RunKept'
      BY <1>1, <2>1, <2>2 DEF RunKept, InputsIntact, Read, stored
    <2>7. Undisturbed'
      BY <1>1, <2>1, <2>2 DEF JobShape, Undisturbed
    <2>8. Verdict'
      BY <1>1, <2>1, <2>2 DEF Verdict, stored
    <2>9. ASSUME NEW t \in Stages, job'.outcome[t] \in Good
          PROVE  ResultKept(t)'
      BY <1>1, <2>1, <2>2, <2>9 DEF ActiveOK, ResultKept, KeyOf, ConfigOf, InputsOf, stored
    <2> QED BY <2>4, <2>5, <2>6, <2>7, <2>8, <2>9 DEF IInv, ActiveOK
  <1> QED BY <1>2, <1>3

\* The process is gone: only the documents are left.
LEMMA LostKeeps ==
  ASSUME IInv, Lost, UNCHANGED <<world, files, stored, execs, changes>>
  PROVE  IInv'
  BY DEF IInv, StoreOK, Lost, RunManifestOK, world, stored

LEMMA StutterKeeps ==
  ASSUME IInv, UNCHANGED vars
  PROVE  IInv'
  <1>1. StoreOK' = StoreOK /\ pc' = pc
    BY DEF StoreOK, RunManifestOK, vars, world, stored
  <1>2. JobShape' = JobShape /\ RunKept' = RunKept /\ Undisturbed' = Undisturbed /\ Verdict' = Verdict
    BY DEF JobShape, RunKept, Undisturbed, Verdict, InputsIntact, Read, vars, world, stored
  <1>3. job' = job /\ \A s \in Stages : ResultKept(s)' = ResultKept(s)
    BY DEF ResultKept, KeyOf, ConfigOf, InputsOf, vars, stored
  <1> QED BY <1>1, <1>2, <1>3 DEF IInv, ActiveOK

LEMMA NextKeeps == IInv /\ [Next]_vars => IInv'
  <1> SUFFICES ASSUME IInv, [Next]_vars PROVE IInv'
    OBVIOUS
  <1>1. ASSUME NEW r \in RunIds, NEW x \in Settings, NEW sel \in Selections, NEW f \in Forces,
               Begin(r, x, sel, f)
        PROVE  IInv'
    BY <1>1, BeginKeeps
  <1>2. ASSUME NEW s \in Stages, Evaluate(s) \/ Execute(s) \/ Complete(s) \/ Abort(s)
        PROVE  IInv'
    BY <1>2, EvaluateKeeps, ExecuteKeeps, CompleteIs, AbortIs, RecordsKeep
  <1>3. CASE Finish
    BY <1>3, FinishKeeps
  <1>4. CASE Exit \/ Crash
    BY <1>4, LostKeeps DEF Exit, Crash
  <1>5. CASE ReplaceVideo
    BY <1>5, ChangeKeeps DEF ReplaceVideo, IInv, StoreOK
  <1>6. CASE Deploy
    BY <1>6, DeployKeeps
  <1>7. ASSUME NEW x \in Paths, DamageFile(x)
        PROVE  IInv'
    <2>1. DOMAIN files' = Paths /\ source' \in {BytesOf(v) : v \in Videos}
      BY <1>7 DEF DamageFile, IInv, StoreOK, world
    <2> QED BY <1>7, <2>1, ChangeKeeps DEF DamageFile, world
  <1>8. CASE UNCHANGED vars
    BY <1>8, StutterKeeps
  <1> QED BY <1>1, <1>2, <1>3, <1>4, <1>5, <1>6, <1>7, <1>8 DEF Next
-----------------------------------------------------------------------------
(***************************************************************************)
(* What a preview showed.  The fold of Preview is the induction of the      *)
(* planner again; the rest follows one execution in an unchanged world.     *)
(***************************************************************************)
KeyFor(x, a, settings) == CacheKey(x, Config[settings][x], InputsOf(x, a))

\* Stage x has a result for the artifacts a, which a run finds; it is a[x].
Promised(x, a, run, settings, force) ==
  /\ Reads[x] \subseteq DOMAIN a /\ x \notin force
  /\ \E r \in RunIds :
        /\ Offers(run, KeyFor(x, a, settings), r)
        /\ stageManifest[r][x] # Nothing
        /\ stageManifest[r][x].key = KeyFor(x, a, settings)
        /\ stageManifest[r][x].status = "succeeded"
        /\ stageManifest[r][x].model = Deployed(x)
        /\ stageManifest[r][x].output = a[x]

\* One Stage more of a preview
Foretelling(run, settings, s, force, model, before) ==
  LET hit == Foreseen(run, s, before, settings, force, model)
  IN IF hit = Nothing THEN before
     ELSE [x \in DOMAIN before \cup {s} |-> IF x = s THEN hit.output ELSE before[x]]

\* The artifacts a of a preview of which n Stages of the plan are done
Foreseeable(a, n, run, settings, plan, force, given) ==
  /\ DOMAIN given \subseteq DOMAIN a /\ \A x \in DOMAIN given : a[x] = given[x]
  /\ \A x \in DOMAIN a : x \in DOMAIN given \/ \E i \in 1..n : plan[i] = x
  /\ \A x \in DOMAIN a : x \notin DOMAIN given =>
        Promised(x, a, run, settings, force) /\ files[x] = a[x]

\* What is promised does not depend on artifacts that are added.
LEMMA PromisedMore ==
  ASSUME NEW x, NEW a, NEW b, NEW run, NEW settings, NEW force,
         Promised(x, a, run, settings, force), x \in DOMAIN a,
         DOMAIN a \subseteq DOMAIN b, \A y \in DOMAIN a : b[y] = a[y]
  PROVE  Promised(x, b, run, settings, force)
  <1>1. Reads[x] \subseteq DOMAIN a
    BY DEF Promised
  <1>2. InputsOf(x, b) = InputsOf(x, a)
    BY <1>1, InputsStay
  <1>3. KeyFor(x, b, settings) = KeyFor(x, a, settings) /\ b[x] = a[x]
    BY <1>2 DEF KeyFor
  <1> QED BY <1>1, <1>3 DEF Promised

\* A hit of a preview is a promise.
FoundFor(hit, s, a, run, settings, force) ==
  /\ Reads[s] \subseteq DOMAIN a /\ s \notin force
  /\ hit.output = files[s]
  /\ \E r \in RunIds :
        /\ hit = stageManifest[r][s]
        /\ Offers(run, KeyFor(s, a, settings), r)
        /\ hit # Nothing /\ hit.key = KeyFor(s, a, settings)
        /\ hit.status = "succeeded" /\ hit.model = Deployed(s)

LEMMA ForeseenIs ==
  ASSUME IndexOK(index), NEW run \in RunIds, NEW settings, NEW s \in Stages, NEW force,
         NEW before, NEW model, model = Deployed(s)
  PROVE  LET hit == Foreseen(run, s, before, settings, force, model) IN
         hit = Nothing \/ FoundFor(hit, s, before, run, settings, force)
  <1>1. PICK key : key = KeyFor(s, before, settings)
    OBVIOUS
  <1>2. key.stage = s
    BY <1>1 DEF KeyFor, CacheKey
  <1>3. PICK h : h = Hit(run, s, key, model, force)
    OBVIOUS
  <1>4. \/ h = Nothing
        \/ /\ s \notin force /\ Reusable(h, key, model, files)
           /\ \E r \in RunIds : Offers(run, key, r) /\ h = stageManifest[r][s]
    BY <1>3, HitIs
  <1>5. Foreseen(run, s, before, settings, force, model)
          = IF Reads[s] \subseteq DOMAIN before THEN h ELSE Nothing
    BY <1>1, <1>3 DEF Foreseen, KeyFor
  <1>6. CASE ~ Reads[s] \subseteq DOMAIN before
    BY <1>5, <1>6
  <1>7. CASE Reads[s] \subseteq DOMAIN before
    <2>1. Foreseen(run, s, before, settings, force, model) = h
      BY <1>5, <1>7
    <2>2. h # Nothing => h.key = key /\ h.status = "succeeded" /\ h.model = model /\ h.output = files[s]
      BY <1>2, <1>4 DEF Reusable
    <2>3. h = Nothing \/ FoundFor(h, s, before, run, settings, force)
      BY <1>1, <1>4, <1>7, <2>2 DEF FoundFor
    <2> QED BY <2>1, <2>3
  <1> QED BY <1>6, <1>7

\* A Stage that is not available yet is added, or not.
LEMMA ForetellingKeeps ==
  ASSUME IndexOK(index), NEW run \in RunIds, NEW settings, NEW plan \in Seq(Stages),
         \A i, j \in 1..Len(plan) : plan[i] = plan[j] => i = j,
         NEW force, NEW given, \A i \in 1..Len(plan) : plan[i] \notin DOMAIN given,
         NEW n \in 1..Len(plan), NEW model, model = Deployed(plan[n]), NEW before,
         Foreseeable(before, n - 1, run, settings, plan, force, given)
  PROVE  Foreseeable(Foretelling(run, settings, plan[n], force, model, before),
                     n, run, settings, plan, force, given)
  <1>1. PICK s : s = plan[n]
    OBVIOUS
  <1>2. s \in Stages /\ s \notin DOMAIN given
    BY <1>1
  <1>3. s \notin DOMAIN before
    BY <1>1, <1>2 DEF Foreseeable
  <1>4. PICK hit : hit = Foreseen(run, s, before, settings, force, model)
    OBVIOUS
  <1>5. hit = Nothing \/ FoundFor(hit, s, before, run, settings, force)
    <2>1. model = Deployed(s)
      BY <1>1
    <2> QED BY <1>2, <1>4, <2>1, ForeseenIs
  <1>6. CASE hit = Nothing
    <2>1. Foretelling(run, settings, s, force, model, before) = before
      BY <1>4, <1>6 DEF Foretelling
    <2>2. \A i \in 1..(n - 1) : i \in 1..n
      OBVIOUS
    <2> QED BY <1>1, <2>1, <2>2 DEF Foreseeable
  <1>7. CASE hit # Nothing
    <2>1. PICK a : a = [x \in DOMAIN before \cup {s} |-> IF x = s THEN hit.output ELSE before[x]]
      OBVIOUS
    <2>2. Foretelling(run, settings, s, force, model, before) = a
      BY <1>4, <1>7, <2>1 DEF Foretelling
    <2>3. /\ DOMAIN a = DOMAIN before \cup {s} /\ a[s] = hit.output
          /\ \A x \in DOMAIN before : a[x] = before[x]
      BY <1>3, <2>1
    <2>4. InputsOf(s, a) = InputsOf(s, before)
      BY <1>5, <1>7, <2>3, InputsStay DEF FoundFor
    <2>5. Promised(s, a, run, settings, force)
      <3>1. KeyFor(s, a, settings) = KeyFor(s, before, settings)
        BY <2>4 DEF KeyFor
      <3> QED BY <1>1, <1>5, <1>7, <2>3, <3>1 DEF Promised, FoundFor
    <2>6. ASSUME NEW x \in DOMAIN a, x \notin DOMAIN given
          PROVE  Promised(x, a, run, settings, force) /\ files[x] = a[x]
      <3>1. CASE x = s
        BY <1>5, <1>7, <2>3, <2>5, <3>1 DEF FoundFor
      <3>2. CASE x # s
        <4>1. x \in DOMAIN before /\ Promised(x, before, run, settings, force) /\ files[x] = before[x]
          BY <2>3, <2>6, <3>2 DEF Foreseeable
        <4> QED BY <2>3, <4>1, PromisedMore
      <3> QED BY <3>1, <3>2
    <2>7. \A x \in DOMAIN a : x \in DOMAIN given \/ \E i \in 1..n : plan[i] = x
      <3>1. \A i \in 1..(n - 1) : i \in 1..n
        OBVIOUS
      <3> QED BY <1>1, <2>3, <3>1 DEF Foreseeable
    <2>8. DOMAIN given \subseteq DOMAIN a /\ \A x \in DOMAIN given : a[x] = given[x]
      BY <2>3 DEF Foreseeable
    <2> QED BY <1>1, <2>2, <2>6, <2>7, <2>8 DEF Foreseeable
  <1> QED BY <1>6, <1>7

\* The recursive function of Preview
Fold(f, run, settings, plan, force, given, models) ==
  f = [n \in 0..Len(plan) |->
         IF n = 0 THEN given
         ELSE Foretelling(run, settings, plan[n], force, models[plan[n]], f[n - 1])]

\* What a run is given becomes more, one hit at a time.
LEMMA ForetellingAll ==
  ASSUME IndexOK(index), NEW run \in RunIds, NEW settings, NEW plan \in Seq(Stages),
         \A i, j \in 1..Len(plan) : plan[i] = plan[j] => i = j,
         NEW force, NEW given, \A i \in 1..Len(plan) : plan[i] \notin DOMAIN given,
         NEW models, \A s \in Stages : models[s] = Deployed(s),
         NEW f, Fold(f, run, settings, plan, force, given, models)
  PROVE  Foreseeable(f[Len(plan)], Len(plan), run, settings, plan, force, given)
  <1> DEFINE N == Len(plan)
             Holds(n) == n <= N => Foreseeable(f[n], n, run, settings, plan, force, given)
             G == {n \in Nat : Holds(n)}
  <1>1. N \in Nat
    OBVIOUS
  <1>2. /\ f[0] = given
        /\ \A n \in 1..N :
              f[n] = Foretelling(run, settings, plan[n], force, models[plan[n]], f[n - 1])
    <2>1. \A n \in 0..N : f[n] = IF n = 0 THEN given
               ELSE Foretelling(run, settings, plan[n], force, models[plan[n]], f[n - 1])
      BY DEF Fold
    <2> HIDE DEF N
    <2>2. 0 \in 0..N /\ \A n \in 1..N : n \in 0..N /\ n # 0
      BY <1>1
    <2> QED BY <2>1, <2>2
  <1>3. Foreseeable(given, 0, run, settings, plan, force, given)
    BY DEF Foreseeable
  <1> HIDE DEF N
  <1>4. 0 \in G
    BY <1>2, <1>3
  <1>5. ASSUME NEW n \in G
        PROVE  n + 1 \in G
    <2>1. CASE n + 1 <= N
      <3>1. n + 1 \in 1..N /\ (n + 1) - 1 = n /\ n \in Nat /\ n <= N
        BY <2>1, <1>1
      <3>2. PICK k, model, before : k = n + 1 /\ model = models[plan[k]] /\ before = f[n]
        OBVIOUS
      <3>3. k \in 1..Len(plan) /\ model = Deployed(plan[k]) /\ k - 1 = n
        BY <3>1, <3>2 DEF N
      <3>4. Foreseeable(before, k - 1, run, settings, plan, force, given)
        BY <3>1, <3>2, <3>3
      <3>5. f[k] = Foretelling(run, settings, plan[k], force, model, before)
        BY <1>2, <3>1, <3>2
      <3>6. Foreseeable(f[k], k, run, settings, plan, force, given)
        BY <3>3, <3>4, <3>5, ForetellingKeeps
      <3> QED BY <3>1, <3>2, <3>6
    <2>2. CASE ~(n + 1 <= N)
      BY <2>2
    <2> QED BY <2>1, <2>2
  <1>6. N \in G
    <2>1. PICK H : H = G
      OBVIOUS
    <2> HIDE DEF G
    <2>2. H \in SUBSET Nat /\ 0 \in H /\ \A n \in H : n + 1 \in H
      BY <1>4, <1>5, <2>1 DEF G
    <2> QED BY <2>1, <2>2, <1>1, Induction
  <1> QED BY <1>6, <1>1 DEF N

IsArtifacts(g) == g = [x \in DOMAIN g |-> g[x]]

\* They can be added one by one.
LEMMA ForetellingExists ==
  ASSUME IndexOK(index), NEW run \in RunIds, NEW settings, NEW plan \in Seq(Stages),
         NEW force, NEW given, IsArtifacts(given),
         NEW models, \A s \in Stages : models[s] = Deployed(s)
  PROVE  \E f : Fold(f, run, settings, plan, force, given, models)
  <1> DEFINE V == {given[x] : x \in DOMAIN given}
                    \cup {files[s] : s \in Stages}
             A == UNION {[D -> V] : D \in SUBSET (DOMAIN given \cup Stages)}
             N == Len(plan)
             Next1(n, p) == Foretelling(run, settings, plan[n], force, models[plan[n]], p)
             F == [n \in Nat |-> [p \in A |-> IF n \in 1..N THEN Next1(n, p) ELSE p]]
  <1>1. N \in Nat
    OBVIOUS
  <1>2. given \in A
    <2>1. given \in [DOMAIN given -> V]
      BY DEF IsArtifacts
    <2> HIDE DEF V
    <2> QED BY <2>1
  <1>3. ASSUME NEW n \in 1..N, NEW p \in A
        PROVE  Next1(n, p) \in A
    <2>1. PICK s, model : s = plan[n] /\ model = models[s]
      OBVIOUS
    <2>2. s \in Stages /\ model = Deployed(s)
      BY <2>1
    <2>3. PICK hit : hit = Foreseen(run, s, p, settings, force, model)
      OBVIOUS
    <2>4. hit = Nothing \/ FoundFor(hit, s, p, run, settings, force)
      BY <2>2, <2>3, ForeseenIs
    <2>5. Next1(n, p) = IF hit = Nothing THEN p
            ELSE [x \in DOMAIN p \cup {s} |-> IF x = s THEN hit.output ELSE p[x]]
      BY <2>1, <2>3 DEF Foretelling
    <2>6. CASE hit = Nothing
      <3> HIDE DEF A, Next1
      <3> QED BY <2>5, <2>6
    <2>7. CASE hit # Nothing
      <3>1. hit.output \in V
        BY <2>2, <2>4, <2>7 DEF FoundFor
      <3>2. DOMAIN p \subseteq DOMAIN given \cup Stages /\ \A x \in DOMAIN p : p[x] \in V
        <4> HIDE DEF V, Next1
        <4> QED OBVIOUS
      <3> DEFINE q == [x \in DOMAIN p \cup {s} |-> IF x = s THEN hit.output ELSE p[x]]
      <3>3. q \in [DOMAIN p \cup {s} -> V]
        <4> HIDE DEF V, A, Next1
        <4> QED BY <3>1, <3>2
      <3>4. DOMAIN p \cup {s} \in SUBSET (DOMAIN given \cup Stages)
        BY <2>2, <3>2
      <3>5. q \in A
        <4> HIDE DEF V, q, Next1
        <4> QED BY <3>3, <3>4
      <3> HIDE DEF A, Next1
      <3> QED BY <2>5, <2>7, <3>5
    <2> QED BY <2>6, <2>7
  <1>4. F \in [Nat -> [A -> A]]
    <2> HIDE DEF A, N, Next1
    <2> QED BY <1>3
  <1>5. PICK g \in [0..N -> A] : g[0] = given /\ \A n \in 1..N : g[n] = F[n][g[n - 1]]
    <2>1. PICK B, E : B = A /\ E = F
      OBVIOUS
    <2> HIDE DEF A, F, N, V, Next1
    <2>2. given \in B
      BY <1>2, <2>1
    <2>3. StepsIn(B, E)
      BY <1>4, <2>1 DEF StepsIn
    <2>4. Iterated(B, given, E, N)
      BY <2>2, <2>3, <1>1, Iterates
    <2> QED BY <2>1, <2>4 DEF Iterated
  <1>6. ASSUME NEW n \in 0..N
        PROVE  g[n] = IF n = 0 THEN given ELSE Next1(n, g[n - 1])
    <2>1. CASE n = 0
      <3> HIDE DEF A, N, Next1, F
      <3> QED BY <2>1, <1>5
    <2>2. CASE n # 0
      <3> HIDE DEF A, N, Next1
      <3>1. n \in 1..N /\ n - 1 \in 0..N
        BY <2>2, <1>1
      <3>2. g[n] = F[n][g[n - 1]] /\ g[n - 1] \in A /\ n \in Nat
        <4> HIDE DEF F
        <4> QED BY <3>1, <1>5, <1>1
      <3> QED BY <2>2, <3>1, <3>2
    <2> QED BY <2>1, <2>2
  <1>7. Fold(g, run, settings, plan, force, given, models)
    <2> HIDE DEF F, A
    <2> QED BY <1>5, <1>6 DEF Fold
  <1> QED BY <1>7

\* a is what a preview makes of the artifacts given.
Foresees(a, run, settings, plan, force, given, models) ==
  /\ Foreseeable(a, Len(plan), run, settings, plan, force, given)
  /\ Preview(run, settings, plan, force, given, models)
       = {s \in Range(plan) : s \in DOMAIN a /\ s \notin DOMAIN given}

\* preview: the Stages it shows as hits are promised, for one set of artifacts.
LEMMA PreviewIs ==
  ASSUME IndexOK(index), NEW run \in RunIds, NEW settings, NEW plan \in Seq(Stages),
         \A i, j \in 1..Len(plan) : plan[i] = plan[j] => i = j,
         NEW force, NEW given, \A i \in 1..Len(plan) : plan[i] \notin DOMAIN given,
         IsArtifacts(given),
         NEW models, \A s \in Stages : models[s] = Deployed(s)
  PROVE  \E a : Foresees(a, run, settings, plan, force, given, models)
  <1> DEFINE Is(f) == Fold(f, run, settings, plan, force, given, models)
             available == CHOOSE f : Is(f)
  <1>1. Is(available)
    <2>1. \E f : Is(f)
      BY ForetellingExists
    <2> HIDE DEF Is
    <2> QED BY <2>1
  <1>2. Preview(run, settings, plan, force, given, models)
          = {s \in Range(plan) : s \in DOMAIN available[Len(plan)] /\ s \notin DOMAIN given}
    BY DEF Preview, Fold, Foretelling
  <1>3. PICK f : f = available
    OBVIOUS
  <1>4. Foreseeable(f[Len(plan)], Len(plan), run, settings, plan, force, given)
    <2> HIDE DEF available
    <2> QED BY <1>1, <1>3, ForetellingAll
  <1> HIDE DEF available
  <1> QED BY <1>2, <1>3, <1>4 DEF Foresees

\* The artifacts a of the preview before this execution: what the run has agrees
\* with them, and what it has not reached is still promised.
Foretold(a) ==
  /\ job.previewed \subseteq Range(job.plan)
  /\ \A x \in Range(job.plan) : x \in DOMAIN a <=> x \in job.previewed
  /\ \A x \in DOMAIN a : x \in DOMAIN job.available => job.available[x] = a[x]
  /\ \A x \in job.previewed : job.outcome[x] = "pending" =>
        /\ Promised(x, a, job.run, job.settings, job.force)
        /\ (pc = "writing" /\ job.stage = x) \/ files[x] = a[x]

\* Why a preview is truthful.
PreviewInv ==
  /\ OffSkipped /\ PreviewTruthful
  /\ (pc # "idle" /\ job.changes = changes) => \E a : Foretold(a)

\* What the files hold besides the video does not depend on the copy of the video.
LEMMA GivenSame ==
  ASSUME StoreOK, NEW run \in RunIds, NEW wanted, NEW store,
         \A x \in Paths : x # Video => store[x] = files[x]
  PROVE  BoundaryArtifacts(run, wanted, store) = BoundaryArtifacts(run, wanted, files)
  <1> DEFINE old == runManifest[run]
             recorded == {x \in old.stages : stageManifest[run][x] # Nothing}
             known == [x \in DOMAIN old.inputs \cup recorded |->
                         IF x \in recorded THEN stageManifest[run][x].output
                                           ELSE old.inputs[x]]
             found(f) == IF old = Nothing \/ old.inputs[Video] # source THEN {}
                         ELSE {x \in wanted \cap DOMAIN known : f[x] = known[x]}
             given(f) == [x \in found(f) \cup {Video} |-> IF x = Video THEN source ELSE known[x]]
  <1>1. /\ BoundaryArtifacts(run, wanted, store) = given(store)
        /\ BoundaryArtifacts(run, wanted, files) = given(files)
    BY DEF BoundaryArtifacts
  <1>2. found(store) \cup {Video} = found(files) \cup {Video}
    <2>1. CASE old = Nothing \/ old.inputs[Video] # source
      BY <2>1
    <2>2. CASE ~ (old = Nothing \/ old.inputs[Video] # source)
      <3>1. RunManifestOK(run)
        BY DEF StoreOK
      <3>2. DOMAIN known \subseteq Paths
        BY <2>2, <3>1 DEF RunManifestOK, Paths
      <3>3. \A x \in wanted \cap DOMAIN known : x = Video \/ store[x] = files[x]
        <4> HIDE DEF known
        <4> QED BY <3>2
      <3> HIDE DEF known
      <3> QED BY <2>2, <3>3
    <2> QED BY <2>1, <2>2
  <1>3. given(store) = given(files)
    <2> HIDE DEF found, known
    <2> QED BY <1>2
  <1> HIDE DEF given
  <1> QED BY <1>1, <1>3

LEMMA InitPreview == Init => PreviewInv
  BY DEF Init, PreviewInv, OffSkipped, PreviewTruthful

\* In an unchanged world a run starts from what the preview started from.
LEMMA BeginForetold ==
  ASSUME IInv, PreviewInv, NEW run \in RunIds, NEW settings \in Settings, NEW sel, NEW force,
         Begin(run, settings, sel, force)
  PROVE  PreviewInv'
  <1>1. StoreOK /\ pc = "idle" /\ ~ SelectionRefused(Registry, sel)
    BY DEF IInv, StoreOK, Begin
  <1>2. PICK plan, wanted, ingested, given, previewed :
          /\ plan = PlanOf(Registry, sel)
          /\ wanted = BoundaryOf(Registry, Range(plan))
          /\ ingested = [files EXCEPT ![Video] = source]
          /\ given = BoundaryArtifacts(run, wanted, ingested)
          /\ previewed = Preview(run, settings, plan, force, BoundaryArtifacts(run, wanted, files),
                                 [s \in Stages |-> IF s \in ModelBound THEN revision ELSE NoModel])
          /\ files' = ingested
          /\ IF MissingInputs(plan, given) # {}
             THEN UNCHANGED <<pc, job, runManifest>>
             ELSE /\ runManifest' = [runManifest EXCEPT ![run] =
                       [status |-> "running", inputs |-> given, stages |-> {}]]
                  /\ pc' = "choosing"
                  /\ job' = [run |-> run, settings |-> settings, plan |-> plan,
                             force |-> force, available |-> given,
                             outcome |-> [s \in Stages |-> "pending"],
                             stage |-> 0, models |-> {revision},
                             changes |-> changes, previewed |-> previewed]
          /\ UNCHANGED <<world, stageManifest, index, changes>>
    BY DEF Begin
  <1>3. OffSkipped' /\ PreviewTruthful'
    BY <1>1, <1>2 DEF PreviewInv, OffSkipped, PreviewTruthful
  <1>4. CASE pc' = "idle"
    BY <1>3, <1>4 DEF PreviewInv
  <1>5. CASE pc' # "idle"
    <2>1. /\ job'.run = run /\ job'.settings = settings /\ job'.plan = plan
          /\ job'.force = force /\ job'.available = given
          /\ job'.outcome = [s \in Stages |-> "pending"]
          /\ job'.previewed = previewed
      BY <1>1, <1>2, <1>5
    <2>2. /\ plan \in Seq(Stages)
          /\ \A i, j \in 1..Len(plan) : plan[i] = plan[j] => i = j
      <3>1. /\ plan \in Seq(Stages)
            /\ \A i, j \in DOMAIN plan : plan[i] = plan[j] => i = j
        BY <1>1, <1>2, PlansAreOrdered
      <3> QED BY <3>1
    <2>3. \A x \in Paths : x # Video => ingested[x] = files[x]
      BY <1>1, <1>2 DEF StoreOK
    <2>4. given = BoundaryArtifacts(run, wanted, files)
      BY <1>1, <1>2, <2>3, GivenSame
    <2>5. \A x \in DOMAIN given : x # Video => x \in wanted
      <3>1. LET g == BoundaryArtifacts(run, wanted, ingested) IN
            /\ Video \in DOMAIN g /\ g[Video] = source
            /\ \A x \in DOMAIN g : x # Video => x \in wanted /\ x \in Paths /\ g[x] = ingested[x]
        BY <1>1, GivenIs
      <3>2. given = BoundaryArtifacts(run, wanted, ingested)
        BY <1>2
      <3> QED BY <3>1, <3>2
    <2>6. \A s \in Range(plan) : s \in Stages /\ s # Video /\ s \notin DOMAIN given
      <3>1. \A s \in Range(plan) : s \in Stages
        BY <2>2 DEF Range
      <3>2. \A s \in Range(plan) : s \notin wanted
        BY <1>2, <3>1 DEF BoundaryOf, Registry
      <3>3. 0 \notin Stages
        BY WorkspaceAssumption
      <3> QED BY <2>5, <3>1, <3>2, <3>3 DEF Video
    <2>7. \A i \in 1..Len(plan) : plan[i] \notin DOMAIN given
      BY <2>2, <2>6 DEF Range
    <2>8. IsArtifacts(given)
      BY <1>2 DEF IsArtifacts, BoundaryArtifacts
    <2>9. PICK models : models = [s \in Stages |-> IF s \in ModelBound THEN revision ELSE NoModel]
      OBVIOUS
    <2>10. PICK a : Foresees(a, run, settings, plan, force, given, models)
      <3>1. \A s \in Stages : models[s] = Deployed(s)
        BY <2>9 DEF Deployed
      <3>2. IndexOK(index)
        BY <1>1 DEF StoreOK
      <3> QED BY <2>2, <2>7, <2>8, <3>1, <3>2, PreviewIs
    <2>11. job'.previewed = {s \in Range(plan) : s \in DOMAIN a}
      <3>1. previewed = Preview(run, settings, plan, force, given, models)
        BY <1>2, <2>4, <2>9
      <3> QED BY <2>1, <2>6, <2>10, <3>1 DEF Foresees
    <2>12. \A x \in DOMAIN a : x \in DOMAIN given => a[x] = given[x]
      BY <2>10 DEF Foresees, Foreseeable
    <2>13. ASSUME NEW x \in job'.previewed
           PROVE  /\ Promised(x, a, job.run, job.settings, job.force)'
                  /\ files'[x] = a[x]
      <3>1. x \in Stages /\ x # Video /\ x \in DOMAIN a /\ x \notin DOMAIN given
        BY <2>6, <2>11
      <3>2. Promised(x, a, run, settings, force) /\ files[x] = a[x]
        BY <2>10, <3>1 DEF Foresees, Foreseeable
      <3>3. files'[x] = files[x]
        BY <1>2, <2>3, <3>1 DEF Paths
      <3>4. Promised(x, a, run, settings, force)'
        BY <1>2, <3>2 DEF Promised, Offers, KeyFor, InputsOf, Deployed, world
      <3> QED BY <2>1, <3>2, <3>3, <3>4 DEF Promised, Offers, KeyFor
    <2>14. Foretold(a)'
      BY <2>1, <2>11, <2>12, <2>13 DEF Foretold
    <2> QED BY <1>3, <2>14 DEF PreviewInv
  <1> QED BY <1>4, <1>5

\* Two sets of artifacts that agree give a Stage the same inputs.
LEMMA SameInputs ==
  ASSUME NEW s, NEW a, NEW b, Reads[s] \subseteq DOMAIN a, Reads[s] \subseteq DOMAIN b,
         \A x \in DOMAIN a : x \in DOMAIN b => b[x] = a[x]
  PROVE  InputsOf(s, a) = InputsOf(s, b)
  <1>1. Reads[s] \cap DOMAIN a = Reads[s] /\ Reads[s] \cap DOMAIN b = Reads[s]
    OBVIOUS
  <1> QED BY <1>1 DEF InputsOf

\* What is promised stays, whatever is recorded for other Stages.
LEMMA PromisedStays ==
  ASSUME NEW x, NEW a, NEW run, NEW settings, NEW force,
         Promised(x, a, run, settings, force), revision' = revision,
         \A r \in RunIds : stageManifest'[r][x] = stageManifest[r][x],
         \A k \in DOMAIN index : k \in DOMAIN index' /\ Range(index[k]) \subseteq Range(index'[k])
  PROVE  Promised(x, a, run, settings, force)'
  <1>1. KeyFor(x, a, settings)' = KeyFor(x, a, settings) /\ Deployed(x)' = Deployed(x)
    BY DEF KeyFor, InputsOf, Deployed
  <1>2. PICK key : key = KeyFor(x, a, settings)
    OBVIOUS
  <1>3. \A r \in RunIds : Offers(run, key, r) => Offers(run, key, r)'
    BY DEF Offers
  <1>4. PICK r \in RunIds :
           /\ Offers(run, key, r)
           /\ stageManifest[r][x] # Nothing
           /\ stageManifest[r][x].key = key
           /\ stageManifest[r][x].status = "succeeded"
           /\ stageManifest[r][x].model = Deployed(x)
           /\ stageManifest[r][x].output = a[x]
    BY <1>2 DEF Promised
  <1>5. Reads[x] \subseteq DOMAIN a /\ x \notin force
    BY DEF Promised
  <1>6. KeyFor(x, a, settings)' = key
    BY <1>1, <1>2
  <1> QED BY <1>1, <1>3, <1>4, <1>5, <1>6 DEF Promised

\* A promised Stage that a run has reached, in the same world
LEMMA PromiseIs ==
  ASSUME IInv, PreviewInv, pc # "idle", NEW a, Foretold(a),
         NEW s \in Stages, s \in job.previewed, job.outcome[s] = "pending",
         Reads[s] \subseteq DOMAIN job.available
  PROVE  /\ s \notin job.force /\ ConfigOf(s) \notin Off
         /\ a[s] = Compute(s, ConfigOf(s), Deployed(s), InputsOf(s, job.available))
         /\ \E r \in RunIds :
               /\ Offers(job.run, KeyOf(s), r) /\ stageManifest[r][s] # Nothing
               /\ stageManifest[r][s].key = KeyOf(s)
               /\ stageManifest[r][s].status = "succeeded"
               /\ stageManifest[r][s].model = Deployed(s)
               /\ stageManifest[r][s].output = a[s]
  <1>1. Promised(s, a, job.run, job.settings, job.force)
    BY DEF Foretold
  <1>2. InputsOf(s, a) = InputsOf(s, job.available)
    <2>1. PICK b : b = job.available
      OBVIOUS
    <2>2. Reads[s] \subseteq DOMAIN a /\ Reads[s] \subseteq DOMAIN b
      BY <1>1, <2>1 DEF Promised
    <2>3. \A x \in DOMAIN a : x \in DOMAIN b => b[x] = a[x]
      BY <2>1 DEF Foretold
    <2> QED BY <2>1, <2>2, <2>3, SameInputs
  <1>3. KeyFor(s, a, job.settings) = KeyOf(s)
    BY <1>2 DEF KeyFor, KeyOf, ConfigOf
  <1>4. PICK r \in RunIds :
           /\ Offers(job.run, KeyOf(s), r) /\ stageManifest[r][s] # Nothing
           /\ stageManifest[r][s].key = KeyOf(s)
           /\ stageManifest[r][s].status = "succeeded"
           /\ stageManifest[r][s].model = Deployed(s)
           /\ stageManifest[r][s].output = a[s]
    BY <1>1, <1>3 DEF Promised
  <1>5. ManifestOK(stageManifest[r][s], s)
    BY DEF IInv, StoreOK
  <1>6. /\ stageManifest[r][s].key.config = ConfigOf(s)
        /\ stageManifest[r][s].key.inputs = InputsOf(s, job.available)
    BY <1>4 DEF KeyOf, CacheKey
  <1>7. a[s] = Compute(s, ConfigOf(s), Deployed(s), InputsOf(s, job.available))
    BY <1>4, <1>5, <1>6 DEF ManifestOK
  <1>8. ConfigOf(s) \notin Off
    BY <1>4, <1>6 DEF PreviewInv, OffSkipped
  <1>9. s \notin job.force
    BY <1>1 DEF Promised
  <1> QED BY <1>4, <1>7, <1>8, <1>9

\* A Stage that ended leaves what was promised of the others, and kept its own promise.
LEMMA RecordsForetold ==
  ASSUME IInv, PreviewInv, pc \in {"choosing", "submitted", "writing"},
         NEW s \in Stages, s \in Range(job.plan), job.outcome[s] = "pending",
         pc = "writing" => job.stage = s, Records(s)
  PROVE  PreviewInv'
  <1>1. StoreOK /\ JobShape /\ RunKept /\ OffSkipped
    BY DEF IInv, ActiveOK, PreviewInv
  <1>2. PICK m : /\ Justified(s, m) /\ Current(s, m)
                 /\ OthersStay(s) /\ Record(s, m, files')
    BY <1>1 DEF Records
  <1>3. PICK store : store = files'
    OBVIOUS
  <1>4. Record(s, m, store)
    BY <1>2, <1>3 DEF Record
  <1>5. /\ StoreOK'
        /\ \A t \in Stages : t # s => stageManifest'[job.run][t] = stageManifest[job.run][t]
        /\ \A k \in DOMAIN index : k \in DOMAIN index' /\ Range(index[k]) \subseteq Range(index'[k])
        /\ \/ Lost
           \/ /\ pc' = "choosing" /\ job' = Ends(s, m)
              /\ m.status # "failed" => store[s] = m.output
              /\ stageManifest'[job.run][s] = m
              /\ m.status = "succeeded" =>
                    m.key \in DOMAIN index' /\ job.run \in Range(index'[m.key])
              /\ runManifest'[job.run] # Nothing
              /\ runManifest'[job.run].stages = runManifest[job.run].stages \cup {s}
    BY <1>1, <1>2, <1>4, RecordKeepsStore DEF RunKept
  <1>6. stageManifest' = stageManifest \/ stageManifest' = [stageManifest EXCEPT ![job.run][s] = m]
    BY <1>2 DEF Record
  <1>7. \A r \in RunIds : \A t \in Stages :
           \/ stageManifest'[r][t] = stageManifest[r][t]
           \/ t = s /\ stageManifest'[r][t] = m
    BY <1>1, <1>6 DEF StoreOK, JobShape
  <1>8. m.key.config = ConfigOf(s)
    BY <1>2 DEF Justified, KeyOf, CacheKey
  <1>9. OffSkipped'
    <2> SUFFICES ASSUME NEW r \in RunIds, NEW t \in Stages,
                        stageManifest'[r][t] # Nothing, stageManifest'[r][t].status = "succeeded"
                 PROVE  stageManifest'[r][t].key.config \notin Off
      BY DEF OffSkipped
    <2>1. CASE stageManifest'[r][t] = stageManifest[r][t]
      BY <2>1, <1>1 DEF OffSkipped
    <2>2. CASE t = s /\ stageManifest'[r][t] = m
      BY <2>2, <1>2, <1>8 DEF Current, Good
    <2> QED BY <2>1, <2>2, <1>7
  <1>10. pc' \in {"idle", "choosing"}
    BY <1>5 DEF Lost
  <1>11. PreviewTruthful'
    BY <1>10 DEF PreviewTruthful
  <1>12. ASSUME pc' = "choosing", job'.changes = changes'
         PROVE  \E a : Foretold(a)'
    <2>1. job' = Ends(s, m) /\ m.status \in {"failed"} \cup Good
      BY <1>2, <1>5, <1>12 DEF Lost, Justified
    <2>2. /\ DOMAIN job' = DOMAIN job /\ job' # NoJob
          /\ job'.run = job.run /\ job'.settings = job.settings /\ job'.plan = job.plan
          /\ job'.stage = job.stage /\ job'.models = job.models
          /\ job'.changes = job.changes
          /\ job'.outcome = [job.outcome EXCEPT ![s] = m.status]
          /\ m.status = "failed" => job'.available = job.available
          /\ m.status # "failed" =>
                /\ DOMAIN job'.available = DOMAIN job.available \cup {s}
                /\ job'.available[s] = m.output
                /\ \A x \in DOMAIN job.available :
                      x # s => job'.available[x] = job.available[x]
      BY <1>1, <2>1, EndsIs
    <2>3. job'.force = job.force /\ job'.previewed = job.previewed
      BY <1>1, <2>1 DEF Ends, Fails, JobShape
    <2>4. revision' = revision /\ changes' = changes
      BY <1>2 DEF OthersStay, world
    <2>5. PICK a : Foretold(a)
      BY <1>12, <2>2, <2>4 DEF PreviewInv
    <2>6. s \notin DOMAIN job.available
      BY <1>1 DEF RunKept, Good
    <2>7. ASSUME m.status # "failed", s \in DOMAIN a
          PROVE  m.output = a[s]
      <3>1. s \in job.previewed /\ m.status \in Good
        BY <2>1, <2>5, <2>7 DEF Foretold
      <3>2. Reads[s] \subseteq DOMAIN job.available
        BY <1>2, <3>1 DEF Justified
      <3>3. /\ ConfigOf(s) \notin Off
            /\ a[s] = Compute(s, ConfigOf(s), Deployed(s), InputsOf(s, job.available))
        BY <2>5, <3>1, <3>2, PromiseIs
      <3>4. m.model = Deployed(s)
        BY <1>2, <3>1, <3>3 DEF Current
      <3> QED BY <1>2, <3>1, <3>3, <3>4 DEF Justified
    <2>8. \A x \in DOMAIN a : x \in DOMAIN job'.available => job'.available[x] = a[x]
      <3> SUFFICES ASSUME NEW x \in DOMAIN a, x \in DOMAIN job'.available
                   PROVE  job'.available[x] = a[x]
        OBVIOUS
      <3>1. CASE x \in DOMAIN job.available
        BY <3>1, <2>2, <2>5, <2>6 DEF Foretold
      <3>2. CASE x \notin DOMAIN job.available
        BY <3>2, <2>2, <2>7
      <3> QED BY <3>1, <3>2
    <2>9. ASSUME NEW x \in job'.previewed, job'.outcome[x] = "pending"
          PROVE  /\ Promised(x, a, job.run, job.settings, job.force)'
                 /\ files'[x] = a[x]
      <3>1. x \in job.previewed /\ x \in Range(job.plan) /\ x \in Stages
        BY <1>1, <2>3, <2>5, PlannedIsStage DEF Foretold
      <3>2. x # s /\ job.outcome[x] = "pending"
        BY <1>1, <2>1, <2>2, <2>9, <3>1 DEF JobShape, Good
      <3>3. Promised(x, a, job.run, job.settings, job.force) /\ files[x] = a[x]
        BY <2>5, <3>1, <3>2 DEF Foretold
      <3>4. files'[x] = files[x]
        BY <1>2, <3>1, <3>2 DEF OthersStay, Paths
      <3>5. PICK run, settings, force :
               run = job.run /\ settings = job.settings /\ force = job.force
        OBVIOUS
      <3>6. \A r \in RunIds : stageManifest'[r][x] = stageManifest[r][x]
        BY <1>7, <3>1, <3>2
      <3>7. Promised(x, a, run, settings, force)
        BY <3>3, <3>5
      <3>8. Promised(x, a, run, settings, force)'
        BY <1>5, <2>4, <3>6, <3>7, PromisedStays
      <3>9. run = job'.run /\ settings = job'.settings /\ force = job'.force
        BY <2>2, <2>3, <3>5
      <3> QED BY <3>3, <3>4, <3>8, <3>9 DEF Promised, Offers, KeyFor
    <2>10. Foretold(a)'
      BY <2>2, <2>3, <2>5, <2>8, <2>9 DEF Foretold
    <2> QED BY <2>10
  <1> QED BY <1>9, <1>10, <1>11, <1>12 DEF PreviewInv

\* The documents stay, and so does what is promised.
LEMMA ForetoldStays ==
  ASSUME NEW a, Foretold(a), UNCHANGED <<revision, stageManifest, index>>,
         job'.run = job.run, job'.settings = job.settings, job'.force = job.force,
         job'.plan = job.plan, job'.previewed = job.previewed,
         job'.available = job.available, job'.outcome = job.outcome,
         \A x \in job.previewed : job.outcome[x] = "pending" =>
            (pc' = "writing" /\ job'.stage = x) \/ files'[x] = a[x]
  PROVE  Foretold(a)'
  <1>1. ASSUME NEW x \in job.previewed, job.outcome[x] = "pending"
        PROVE  Promised(x, a, job.run, job.settings, job.force)'
    <2>1. Promised(x, a, job.run, job.settings, job.force)
      BY <1>1 DEF Foretold
    <2> QED BY <2>1 DEF Promised, Offers, KeyFor, InputsOf, Deployed
  <1> QED BY <1>1 DEF Foretold

\* A Stage that was shown as a hit is submitted only if its model is unknown.
LEMMA EvaluateForetold ==
  ASSUME IInv, PreviewInv, NEW s \in Stages, Evaluate(s)
  PROVE  PreviewInv'
  <1>1. /\ s \in Range(job.plan) /\ job.outcome[s] = "pending" /\ pc = "choosing"
        /\ OthersStay(s) /\ files' = files
        /\ Records(s) \/ Submits(s)
    BY EvaluateIs
  <1>2. CASE Records(s)
    BY <1>1, <1>2, RecordsForetold
  <1>3. CASE Submits(s)
    <2>1. StoreOK /\ JobShape /\ RunKept /\ Undisturbed
      BY <1>1 DEF IInv, ActiveOK
    <2>2. /\ pc' = "submitted" /\ job' = [job EXCEPT !.stage = s] /\ UNCHANGED stored
          /\ Reads[s] \subseteq DOMAIN job.available
      BY <1>3 DEF Submits
    <2>3. /\ job'.run = job.run /\ job'.settings = job.settings /\ job'.force = job.force
          /\ job'.plan = job.plan /\ job'.previewed = job.previewed
          /\ job'.available = job.available /\ job'.outcome = job.outcome
          /\ job'.stage = s /\ job'.changes = job.changes
      BY <2>1, <2>2 DEF JobShape
    <2>4. UNCHANGED <<revision, stageManifest, index, changes>>
      BY <1>1, <2>2 DEF OthersStay, world, stored
    <2>5. ASSUME job.changes = changes, s \in job.previewed, s \notin ModelBound
          PROVE  FALSE
      <3>1. PICK a : Foretold(a)
        BY <1>1, <2>5 DEF PreviewInv
      <3>2. s \notin job.force /\ files[s] = a[s]
        BY <1>1, <2>2, <2>5, <3>1, PromiseIs DEF Foretold
      <3>3. PICK key, run, force : key = KeyOf(s) /\ run = job.run /\ force = job.force
        OBVIOUS
      <3>4. PICK r \in RunIds :
               /\ Offers(run, key, r) /\ stageManifest[r][s] # Nothing
               /\ stageManifest[r][s].key = key
               /\ stageManifest[r][s].status = "succeeded"
               /\ stageManifest[r][s].model = NoModel
               /\ stageManifest[r][s].output = a[s]
        BY <1>1, <2>2, <2>5, <3>1, <3>3, PromiseIs DEF Deployed
      <3>5. key.stage = s /\ \A x \in DOMAIN key.inputs : files[x] = key.inputs[x]
        BY <2>1, <2>2, <2>5, <3>3 DEF KeyOf, CacheKey, InputsOf, Undisturbed
      <3>6. Reusable(stageManifest[r][s], key, NoModel, files)
        BY <3>2, <3>4, <3>5 DEF Reusable, NoModel, Unresolved
      <3>7. PICK c, A : c = Candidates(run, s, key) /\ A = {stageManifest[q][s] : q \in RunIds}
        OBVIOUS
      <3>8. /\ c \in Seq(A)
            /\ \E i \in 1..Len(c) : c[i] = stageManifest[r][s]
        <4>1. \A k \in DOMAIN index : index[k] \in Seq(RunIds)
          BY <2>1 DEF StoreOK, IndexOK
        <4>2. run \in RunIds
          BY <2>1, <3>3 DEF JobShape
        <4>3. AreOffered(Candidates(run, s, key), run, s, key)
          BY <4>1, <4>2, CandidatesAre
        <4> QED BY <3>4, <3>7, <4>3 DEF AreOffered
      <3>9. PICK store, hit : store = files /\ hit = FirstHit(c, key, NoModel, store)
        OBVIOUS
      <3>10. \/ hit = Nothing /\ \A i \in 1..Len(c) : ~ Reusable(c[i], key, NoModel, store)
             \/ \E i \in 1..Len(c) : hit = c[i] /\ Reusable(c[i], key, NoModel, store)
        BY <3>8, <3>9, FirstHitIs
      <3>11. hit # Nothing
        BY <3>6, <3>8, <3>9, <3>10 DEF Reusable
      <3>12. Hit(run, s, key, NoModel, force) = hit
        BY <3>2, <3>3, <3>7, <3>9 DEF Hit
      <3>13. Resolvable(s) = {NoModel}
        BY <2>5 DEF Resolvable
      <3> QED BY <1>3, <3>3, <3>11, <3>12, <3>13 DEF Submits
    <2>6. PreviewTruthful'
      BY <2>3, <2>4, <2>5 DEF PreviewTruthful
    <2>7. OffSkipped'
      BY <2>4 DEF OffSkipped, PreviewInv
    <2>8. ASSUME job'.changes = changes'
          PROVE  \E a : Foretold(a)'
      <3>1. PICK a : Foretold(a)
        BY <1>1, <2>3, <2>4, <2>8 DEF PreviewInv
      <3>2. \A x \in job.previewed : job.outcome[x] = "pending" => files'[x] = a[x]
        BY <1>1, <3>1 DEF Foretold
      <3>3. Foretold(a)'
        BY <2>3, <2>4, <3>1, <3>2, ForetoldStays
      <3> QED BY <3>3
    <2> QED BY <2>6, <2>7, <2>8 DEF PreviewInv
  <1> QED BY <1>1, <1>2, <1>3

LEMMA ExecuteForetold ==
  ASSUME IInv, PreviewInv, NEW s \in Stages, Execute(s)
  PROVE  PreviewInv'
  <1>1. /\ StoreOK /\ JobShape /\ RunKept /\ pc = "submitted" /\ job.stage = s
        /\ s \in Range(job.plan) /\ job.outcome[s] = "pending"
    BY DEF IInv, ActiveOK, Execute, RunKept
  <1>2. CASE ~ InputsIntact(s)
    <2>1. /\ Record(s, Failure(s), files) /\ files' = files
          /\ UNCHANGED <<world, execs, changes>>
      BY <1>2 DEF Execute
    <2>2. OthersStay(s)
      BY <1>1, <2>1 DEF OthersStay, StoreOK
    <2>3. Records(s)
      BY <2>1, <2>2, FailureRecords
    <2> QED BY <1>1, <2>3, RecordsForetold
  <1>3. CASE InputsIntact(s)
    <2>1. /\ pc' = "writing" /\ files' = [files EXCEPT ![s] = Damaged]
          /\ UNCHANGED <<stored, job>> /\ UNCHANGED <<world, execs, changes>>
      BY <1>3 DEF Execute
    <2>2. UNCHANGED <<revision, stageManifest, index, changes, job>>
      BY <2>1 DEF world, stored
    <2>3. OffSkipped' /\ PreviewTruthful'
      BY <2>1, <2>2 DEF OffSkipped, PreviewTruthful, PreviewInv
    <2>4. ASSUME job'.changes = changes'
          PROVE  \E a : Foretold(a)'
      <3>1. PICK a : Foretold(a)
        BY <1>1, <2>2, <2>4 DEF PreviewInv
      <3>2. ASSUME NEW x \in job.previewed, job.outcome[x] = "pending"
            PROVE  (pc' = "writing" /\ job'.stage = x) \/ files'[x] = a[x]
        <4>1. x \in Stages /\ files[x] = a[x]
          BY <1>1, <3>1, <3>2, PlannedIsStage DEF Foretold
        <4>2. x # s => files'[x] = files[x]
          BY <1>1, <2>1, <4>1 DEF StoreOK, Paths
        <4> QED BY <1>1, <2>1, <2>2, <4>1, <4>2
      <3>3. Foretold(a)'
        BY <2>2, <3>1, <3>2, ForetoldStays
      <3> QED BY <3>3
    <2> QED BY <2>3, <2>4 DEF PreviewInv
  <1> QED BY <1>2, <1>3

LEMMA FinishForetold ==
  ASSUME IInv, PreviewInv, Finish
  PROVE  PreviewInv'
  <1>1. /\ pc = "choosing" /\ UNCHANGED <<revision, files, stageManifest, index, changes>>
        /\ (pc' = "done" /\ job' = job) \/ Lost
    BY DEF Finish, world
  <1>2. OffSkipped' /\ PreviewTruthful'
    BY <1>1 DEF OffSkipped, PreviewTruthful, PreviewInv, Lost
  <1>3. ASSUME pc' # "idle", job'.changes = changes'
        PROVE  \E a : Foretold(a)'
    <2>1. pc' = "done" /\ job' = job
      BY <1>1, <1>3 DEF Lost
    <2>2. PICK a : Foretold(a)
      BY <1>1, <1>3, <2>1 DEF PreviewInv
    <2>3. \A x \in job.previewed : job.outcome[x] = "pending" => files'[x] = a[x]
      BY <1>1, <2>2 DEF Foretold
    <2>4. Foretold(a)'
      BY <1>1, <2>1, <2>2, <2>3, ForetoldStays
    <2> QED BY <2>4
  <1> QED BY <1>2, <1>3 DEF PreviewInv

\* A counted change, or no execution any more
LEMMA OtherForetold ==
  ASSUME IInv, PreviewInv, UNCHANGED stageManifest,
         \/ pc' = "idle"
         \/ changes' = changes + 1 /\ pc' = pc /\ (pc # "idle" => job'.changes = job.changes)
  PROVE  PreviewInv'
  <1>1. OffSkipped'
    BY DEF OffSkipped, PreviewInv
  <1>2. CASE pc' = "idle"
    BY <1>1, <1>2 DEF PreviewInv, PreviewTruthful
  <1>3. CASE pc' # "idle"
    <2>1. job'.changes # changes'
      BY <1>3 DEF IInv, StoreOK, ActiveOK, JobShape
    <2> QED BY <1>1, <2>1 DEF PreviewInv, PreviewTruthful
  <1> QED BY <1>2, <1>3

LEMMA NextForetold == IInv /\ PreviewInv /\ [Next]_vars => PreviewInv'
  <1> SUFFICES ASSUME IInv, PreviewInv, [Next]_vars PROVE PreviewInv'
    OBVIOUS
  <1>1. ASSUME NEW r \in RunIds, NEW x \in Settings, NEW sel \in Selections, NEW f \in Forces,
               Begin(r, x, sel, f)
        PROVE  PreviewInv'
    BY <1>1, BeginForetold
  <1>2. ASSUME NEW s \in Stages, Evaluate(s) \/ Execute(s)
        PROVE  PreviewInv'
    BY <1>2, EvaluateForetold, ExecuteForetold
  <1>3. ASSUME NEW s \in Stages, Complete(s) \/ Abort(s)
        PROVE  PreviewInv'
    <2>1. /\ s \in Range(job.plan) /\ job.outcome[s] = "pending" /\ pc = "writing"
          /\ Records(s)
      BY <1>3, CompleteIs, AbortIs
    <2>2. job.stage = s
      BY <1>3 DEF Complete, Abort
    <2> QED BY <2>1, <2>2, RecordsForetold
  <1>4. CASE Finish
    BY <1>4, FinishForetold
  <1>5. CASE Exit \/ Crash
    BY <1>5, OtherForetold DEF Exit, Crash, Lost, stored
  <1>6. ASSUME ReplaceVideo \/ \E x \in Paths : DamageFile(x)
        PROVE  PreviewInv'
    BY <1>6, OtherForetold DEF ReplaceVideo, DamageFile, stored
  <1>7. CASE Deploy
    <2>1. pc # "idle" => job # NoJob /\ job'.changes = job.changes
      BY <1>7 DEF Deploy, IInv, StoreOK, ActiveOK, JobShape
    <2> QED BY <1>7, <2>1, OtherForetold DEF Deploy, stored
  <1>8. CASE UNCHANGED vars
    <2>1. OffSkipped' /\ PreviewTruthful'
      BY <1>8 DEF OffSkipped, PreviewTruthful, PreviewInv, vars, stored
    <2>2. ASSUME pc' # "idle", job'.changes = changes'
          PROVE  \E a : Foretold(a)'
      <3>1. PICK a : Foretold(a)
        BY <1>8, <2>2 DEF PreviewInv, vars
      <3>2. Foretold(a)'
        BY <1>8, <3>1, ForetoldStays DEF Foretold, vars, world, stored
      <3> QED BY <3>2
    <2> QED BY <2>1, <2>2 DEF PreviewInv
  <1> QED BY <1>1, <1>2, <1>3, <1>4, <1>5, <1>6, <1>7, <1>8 DEF Next
-----------------------------------------------------------------------------
(***************************************************************************)
(* What a content was made from.  A Stage reads only Stages before it in the *)
(* planner's order, so a content at rank n has been taken apart after n      *)
(* rounds.                                                                   *)
(***************************************************************************)
Depth == Cardinality(Stages)

\* One round of VideosOf
Apart(parts) ==
  UNION {IF "inputs" \in DOMAIN c THEN Range(c.inputs) ELSE {c} : c \in parts}

TakenApart(f, content) ==
  f = [n \in 0..Depth |-> IF n = 0 THEN {content} ELSE Apart(f[n - 1])]

Parts(content) == CHOOSE f : TakenApart(f, content)

LEMMA DepthType == Depth \in Nat
  BY FS_CardinalityType, WorkspaceAssumption DEF Depth

LEMMA PartsAre ==
  ASSUME NEW content
  PROVE  TakenApart(Parts(content), content)
  <1> DEFINE Has(N) == \E g : g = [n \in 0..N |-> IF n = 0 THEN {content}
                                                   ELSE Apart(g[n - 1])]
             S == {N \in Nat : Has(N)}
  <1>1. Has(0)
    <2> DEFINE g == [n \in 0..0 |-> {content}]
    <2>1. g = [n \in 0..0 |-> IF n = 0 THEN {content} ELSE Apart(g[n - 1])]
      OBVIOUS
    <2> HIDE DEF g
    <2> QED BY <2>1
  <1>2. ASSUME NEW N \in Nat, Has(N)
        PROVE  Has(N + 1)
    <2>1. PICK g : g = [n \in 0..N |-> IF n = 0 THEN {content} ELSE Apart(g[n - 1])]
      BY <1>2
    <2> DEFINE h == [n \in 0..(N + 1) |-> IF n <= N THEN g[n] ELSE Apart(g[N])]
    <2>2. ASSUME NEW n \in 0..(N + 1)
          PROVE  h[n] = IF n = 0 THEN {content} ELSE Apart(h[n - 1])
      <3>1. CASE n = 0
        BY <3>1, <2>1
      <3>2. CASE n \in 1..N
        <4>1. n - 1 \in 0..(N + 1) /\ n - 1 <= N /\ n <= N /\ n \in 0..N /\ n # 0
          BY <3>2
        <4>2. h[n] = g[n] /\ h[n - 1] = g[n - 1]
          BY <4>1
        <4>3. g[n] = Apart(g[n - 1])
          BY <4>1, <2>1
        <4> HIDE DEF h
        <4> QED BY <4>1, <4>2, <4>3
      <3>3. CASE n = N + 1
        <4>1. n - 1 = N /\ N \in 0..(N + 1) /\ ~ (n <= N) /\ n # 0
          BY <3>3
        <4>2. h[n] = Apart(g[N]) /\ h[n - 1] = g[N]
          BY <4>1
        <4> HIDE DEF h
        <4> QED BY <4>1, <4>2
      <3> QED BY <3>1, <3>2, <3>3
    <2>3. h = [n \in 0..(N + 1) |-> IF n = 0 THEN {content} ELSE Apart(h[n - 1])]
      <3>1. h = [n \in 0..(N + 1) |-> h[n]]
        OBVIOUS
      <3> HIDE DEF h
      <3> QED BY <2>2, <3>1
    <2> HIDE DEF h
    <2> QED BY <2>3
  <1> HIDE DEF Has
  <1>3. S \in SUBSET Nat /\ 0 \in S /\ \A N \in S : N + 1 \in S
    BY <1>1, <1>2
  <1>4. Depth \in S
    <2> HIDE DEF S
    <2> QED BY <1>3, DepthType, Induction
  <1>5. \E g : TakenApart(g, content)
    BY <1>4 DEF Has, TakenApart
  <1> QED BY <1>5 DEF Parts

LEMMA PartsStep ==
  ASSUME NEW content
  PROVE  /\ Parts(content)[0] = {content}
         /\ \A n \in 1..Depth : Parts(content)[n] = Apart(Parts(content)[n - 1])
  <1>1. PICK f : f = Parts(content)
    OBVIOUS
  <1>2. f = [n \in 0..Depth |-> IF n = 0 THEN {content} ELSE Apart(f[n - 1])]
    BY <1>1, PartsAre DEF TakenApart
  <1>3. f[0] = {content}
    BY <1>2, DepthType
  <1>4. ASSUME NEW n \in 1..Depth
        PROVE  f[n] = Apart(f[n - 1])
    <2>1. n \in 0..Depth /\ n # 0
      BY DepthType
    <2> QED BY <1>2, <2>1
  <1> QED BY <1>1, <1>3, <1>4

LEMMA VideosAre ==
  ASSUME NEW content
  PROVE  VideosOf(content) = Parts(content)[Depth]
  BY DEF VideosOf, Parts, TakenApart, Apart, Depth
-----------------------------------------------------------------------------
\* Where a path comes in the planner's order
Rank(x) ==
  IF x = Video THEN 0 ELSE CHOOSE i \in 1..Len(Ordered(Deps)) : Ordered(Deps)[i] = x

LEMMA RankIs ==
  /\ Rank(Video) = 0
  /\ \A s \in Stages : Rank(s) \in 1..Depth /\ Ordered(Deps)[Rank(s)] = s
  /\ \A s \in Stages : \A d \in Deps[s] : d \in Stages /\ Rank(d) < Rank(s)
  <1> DEFINE o == Ordered(Deps)
  <1>1. /\ Len(o) = Depth /\ 0 \notin Stages /\ Stages = DOMAIN Deps
        /\ o \in Seq(Stages) /\ \A i, j \in 1..Len(o) : o[i] = o[j] => i = j
        /\ \A i \in 1..Len(o) : \A d \in Deps[o[i]] : \E j \in 1..(i - 1) : o[j] = d
    BY RegistryIsSorted DEF Depth, Sorted, Stages
  <1>2. \A s \in Stages : \E i \in 1..Len(o) : o[i] = s
    BY EveryStageIsOrdered
  <1>3. ASSUME NEW s \in Stages
        PROVE  Rank(s) \in 1..Len(o) /\ o[Rank(s)] = s
    <2>1. Rank(s) = CHOOSE i \in 1..Len(o) : o[i] = s
      BY <1>1 DEF Rank, Video
    <2> HIDE DEF o
    <2> QED BY <1>2, <2>1
  <1>4. ASSUME NEW s \in Stages, NEW d \in Deps[s]
        PROVE  d \in Stages /\ Rank(d) < Rank(s)
    <2> HIDE DEF o
    <2>1. Rank(s) \in 1..Len(o) /\ o[Rank(s)] = s
      BY <1>3
    <2>2. PICK j \in 1..(Rank(s) - 1) : o[j] = d
      BY <1>1, <2>1
    <2>3. j \in 1..Len(o) /\ j < Rank(s)
      BY <2>1, <2>2, <1>1, DepthType
    <2>4. d \in Stages
      BY <1>1, <2>2, <2>3
    <2>5. Rank(d) = j
      BY <1>1, <1>3, <2>2, <2>3, <2>4
    <2> QED BY <2>3, <2>4, <2>5
  <1> HIDE DEF o
  <1> QED BY <1>1, <1>3, <1>4 DEF Rank, o

\* What a Stage depends on, directly or not, comes before it.
LEMMA AncestorsBefore ==
  ASSUME NEW s \in Stages
  PROVE  \A a \in Ancestors(Deps, s) : a \in Stages /\ Rank(a) < Rank(s)
  <1> DEFINE B == {t \in Stages : Rank(t) < Rank(s)}
             A == SUBSET B
             More(S) == S \cup UNION {Deps[t] : t \in S}
             F == [n \in Nat |-> [S \in A |-> More(S)]]
             a == Deps[s]
             Is(f) == f = [n \in 0..Depth |-> IF n = 0 THEN Deps[s]
                                              ELSE LET before == f[n - 1] IN
                                                   before \cup UNION {Deps[t] : t \in before}]
             seen == CHOOSE f : Is(f)
  <1>1. a \in A
    BY RankIs
  <1>2. ASSUME NEW S \in A
        PROVE  More(S) \in A
    <2>1. ASSUME NEW t \in S, NEW d \in Deps[t]
          PROVE  d \in B
      <3>1. t \in Stages /\ d \in Stages /\ Rank(t) < Rank(s) /\ Rank(d) < Rank(t)
        BY <2>1, RankIs
      <3>2. Rank(t) \in Nat /\ Rank(d) \in Nat /\ Rank(s) \in Nat
        BY <3>1, RankIs, DepthType
      <3> QED BY <3>1, <3>2
    <2> QED BY <2>1
  <1>3. PICK g \in [0..Depth -> A] : g[0] = a /\ \A n \in 1..Depth : g[n] = F[n][g[n - 1]]
    <2>1. StepsIn(A, F)
      BY <1>2 DEF StepsIn
    <2> HIDE DEF A, F, a
    <2>2. Iterated(A, a, F, Depth)
      BY <1>1, <2>1, DepthType, Iterates
    <2> QED BY <2>2 DEF Iterated
  <1>4. Is(g)
    <2>1. ASSUME NEW n \in 0..Depth
          PROVE  g[n] = IF n = 0 THEN Deps[s] ELSE More(g[n - 1])
      <3>1. CASE n = 0
        BY <3>1, <1>3
      <3>2. CASE n # 0
        <4>1. n \in 1..Depth /\ n - 1 \in 0..Depth /\ n \in Nat
          BY <3>2, DepthType
        <4>2. g[n] = F[n][g[n - 1]] /\ g[n - 1] \in A
          <5> HIDE DEF A, F
          <5> QED BY <4>1, <1>3
        <4> HIDE DEF A, More
        <4> QED BY <3>2, <4>1, <4>2
      <3> QED BY <3>1, <3>2
    <2> HIDE DEF A, F
    <2> QED BY <2>1, <1>3
  <1>5. Is(seen)
    <2> HIDE DEF Is
    <2> QED BY <1>4
  <1>6. Ancestors(Deps, s) = seen[Depth]
    BY DEF Ancestors, Reachable, Depth, Stages
  <1> DEFINE S == {n \in Nat : n <= Depth => seen[n] \in A}
  <1>7. 0 \in S
    <2>1. seen[0] = Deps[s]
      <3> HIDE DEF seen
      <3> QED BY <1>5, DepthType
    <2> HIDE DEF seen
    <2> QED BY <2>1, <1>1
  <1>8. ASSUME NEW n \in S
        PROVE  n + 1 \in S
    <2> HIDE DEF seen
    <2>1. CASE n + 1 <= Depth
      <3>1. n \in Nat /\ seen[n] \in A
        BY <2>1, DepthType
      <3>2. n + 1 \in 0..Depth /\ n + 1 # 0 /\ (n + 1) - 1 = n
        BY <3>1, <2>1, DepthType
      <3>3. seen[n + 1] = More(seen[n])
        BY <1>5, <3>2
      <3> HIDE DEF A, More
      <3> QED BY <3>1, <3>3, <1>2
    <2>2. CASE ~ (n + 1 <= Depth)
      BY <2>2
    <2> QED BY <2>1, <2>2
  <1>9. Depth \in S
    <2>1. S \in SUBSET Nat
      OBVIOUS
    <2> HIDE DEF S
    <2> QED BY <1>7, <1>8, <2>1, DepthType, Induction
  <1>10. seen[Depth] \in A
    BY <1>9, DepthType
  <1> HIDE DEF seen
  <1> QED BY <1>6, <1>10

\* A Stage reads the video or what a Stage before it wrote.
LEMMA ReadsBefore ==
  ASSUME NEW s \in Stages, NEW r \in Reads[s]
  PROVE  r \in Paths /\ Rank(r) \in 0..Depth /\ Rank(r) < Rank(s)
  <1>1. Rank(s) \in 1..Depth /\ Depth \in Nat
    BY RankIs, DepthType
  <1>2. CASE r = Video
    BY <1>1, <1>2, RankIs DEF Paths
  <1>3. CASE r # Video
    <2>1. PICK owner \in Ancestors(Deps, s) : r \in Registry.outputs[owner]
      <3>1. ~ InputsRefused(Registry)
        BY WorkspaceAssumption DEF PlannerRefuses
      <3>2. s \in Names(Registry) /\ r \in Registry.requires[s] \ Registry.external
        BY <1>3 DEF Names, Registry, Stages
      <3> QED BY <3>1, <3>2, RegistryIsSorted DEF InputsRefused
    <2>2. owner \in Stages /\ Rank(owner) < Rank(s)
      BY <2>1, AncestorsBefore
    <2>3. r = owner
      BY <2>1, <2>2 DEF Registry
    <2>4. Rank(owner) \in 1..Depth
      BY <2>2, RankIs
    <2> QED BY <1>1, <2>2, <2>3, <2>4 DEF Paths
  <1> QED BY <1>2, <1>3
-----------------------------------------------------------------------------
IsVideo(v) == v \in {BytesOf(w) : w \in Videos}

\* A content at path x was made from nothing but the video v.
MadeFrom(content, x, v) == Parts(content)[Rank(x)] \subseteq {v}

\* A video is not taken apart.
LEMMA VideoStays ==
  ASSUME NEW v, IsVideo(v), NEW parts, parts \subseteq {v}
  PROVE  Apart(parts) \subseteq {v}
  <1>1. "inputs" \notin DOMAIN v
    BY DEF IsVideo, BytesOf
  <1> QED BY <1>1 DEF Apart

LEMMA MadeStays ==
  ASSUME NEW content, NEW v, IsVideo(v), NEW m \in 0..Depth, Parts(content)[m] \subseteq {v}
  PROVE  \A n \in 0..Depth : m <= n => Parts(content)[n] \subseteq {v}
  <1> DEFINE Good_(n) == m <= n /\ n <= Depth => Parts(content)[n] \subseteq {v}
             S == {n \in Nat : Good_(n)}
  <1>1. 0 \in S
    BY DepthType
  <1>2. ASSUME NEW n \in S
        PROVE  n + 1 \in S
    <2>1. CASE m <= n /\ n + 1 <= Depth
      <3>1. Parts(content)[n] \subseteq {v} /\ n + 1 \in 1..Depth /\ (n + 1) - 1 = n
        BY <2>1, DepthType
      <3>2. Parts(content)[n + 1] = Apart(Parts(content)[n])
        BY <3>1, PartsStep
      <3> QED BY <3>1, <3>2, VideoStays
    <2>2. CASE n + 1 = m
      BY <2>2
    <2>3. CASE ~ (m <= n + 1 /\ n + 1 <= Depth)
      BY <2>3
    <2> QED BY <2>1, <2>2, <2>3
  <1>3. S \in SUBSET Nat
    OBVIOUS
  <1>4. \A n \in Nat : n \in S
    <2> HIDE DEF S
    <2> QED BY <1>1, <1>2, <1>3, Induction
  <1> QED BY <1>4, DepthType

LEMMA VideoMade ==
  ASSUME NEW v
  PROVE  MadeFrom(v, Video, v)
  BY PartsStep, RankIs DEF MadeFrom

\* A result is taken apart into its inputs, and these one round later.
LEMMA ResultParts ==
  ASSUME NEW s, NEW config, NEW model, NEW inputs
  PROVE  \A n \in 1..Depth :
           Parts(Compute(s, config, model, inputs))[n]
             \subseteq UNION {Parts(e)[n - 1] : e \in Range(inputs)}
  <1> DEFINE c == Compute(s, config, model, inputs)
             E == Range(inputs)
             Holds(n) == n <= Depth /\ 1 <= n =>
                           Parts(c)[n] \subseteq UNION {Parts(e)[n - 1] : e \in E}
             S == {n \in Nat : Holds(n)}
  <1>1. 0 \in S
    OBVIOUS
  <1>2. ASSUME NEW n \in S
        PROVE  n + 1 \in S
    <2>1. CASE n = 0 /\ 1 <= Depth
      <3>1. Parts(c)[1] = Apart({c})
        <4>1. Parts(c)[0] = {c} /\ 1 \in 1..Depth
          BY <2>1, PartsStep, DepthType
        <4> HIDE DEF c
        <4> QED BY <4>1, PartsStep
      <3>2. "inputs" \in DOMAIN c /\ c.inputs = inputs
        BY DEF Compute
      <3>3. Apart({c}) = E
        <4> HIDE DEF c
        <4> QED BY <3>2 DEF Apart
      <3>4. \A e \in E : e \in Parts(e)[0]
        BY PartsStep
      <3> HIDE DEF c, E
      <3> QED BY <2>1, <3>1, <3>3, <3>4
    <2>2. CASE n # 0 /\ n + 1 <= Depth
      <3>1. n \in 1..Depth /\ n + 1 \in 1..Depth /\ (n + 1) - 1 = n
        BY <2>2, DepthType
      <3>2. Parts(c)[n] \subseteq UNION {Parts(e)[n - 1] : e \in E}
        BY <3>1, DepthType
      <3>3. Parts(c)[n + 1] = Apart(Parts(c)[n]) /\ \A e \in E : Parts(e)[n] = Apart(Parts(e)[n - 1])
        BY <3>1, PartsStep
      <3> HIDE DEF c, E
      <3>4. Apart(Parts(c)[n]) \subseteq UNION {Parts(e)[n] : e \in E}
        <4> SUFFICES ASSUME NEW p \in Apart(Parts(c)[n])
                     PROVE  \E e \in E : p \in Parts(e)[n]
          OBVIOUS
        <4>1. PICK d \in Parts(c)[n] :
                     p \in (IF "inputs" \in DOMAIN d THEN Range(d.inputs) ELSE {d})
          BY DEF Apart
        <4>2. PICK e \in E : d \in Parts(e)[n - 1]
          BY <3>2, <4>1
        <4>3. p \in Apart(Parts(e)[n - 1])
          BY <4>1, <4>2 DEF Apart
        <4> QED BY <3>3, <4>2, <4>3
      <3> QED BY <3>1, <3>3, <3>4
    <2>3. CASE ~ (n + 1 <= Depth)
      BY <2>3
    <2> QED BY <2>1, <2>2, <2>3, DepthType
  <1>3. S \in SUBSET Nat
    OBVIOUS
  <1>4. \A n \in Nat : n \in S
    <2> HIDE DEF S
    <2> QED BY <1>1, <1>2, <1>3, Induction
  <1> HIDE DEF c, E
  <1>5. ASSUME NEW n \in 1..Depth
        PROVE  Parts(c)[n] \subseteq UNION {Parts(e)[n - 1] : e \in E}
    <2>1. n \in S /\ n <= Depth /\ 1 <= n
      BY <1>4, DepthType
    <2> QED BY <2>1
  <1> QED BY <1>5 DEF c, E

\* What a Stage computes from inputs that were made from v was made from v.
LEMMA ResultMade ==
  ASSUME NEW s \in Stages, NEW config, NEW model, NEW inputs, DOMAIN inputs = Reads[s],
         NEW v, IsVideo(v), \A r \in Reads[s] : MadeFrom(inputs[r], r, v)
  PROVE  MadeFrom(Compute(s, config, model, inputs), s, v)
  <1> DEFINE c == Compute(s, config, model, inputs)
             k == Rank(s)
  <1>1. k \in 1..Depth
    BY RankIs
  <1>2. Parts(c)[k] \subseteq UNION {Parts(e)[k - 1] : e \in Range(inputs)}
    BY <1>1, ResultParts
  <1>3. ASSUME NEW e \in Range(inputs)
        PROVE  Parts(e)[k - 1] \subseteq {v}
    <2>1. PICK r \in Reads[s] : e = inputs[r]
      BY DEF Range
    <2>2. Rank(r) \in 0..Depth /\ Rank(r) < k
      BY ReadsBefore
    <2>3. k - 1 \in 0..Depth /\ Rank(r) <= k - 1
      BY <1>1, <2>2, DepthType
    <2>4. Parts(e)[Rank(r)] \subseteq {v}
      BY <2>1 DEF MadeFrom
    <2> HIDE DEF k
    <2> QED BY <2>2, <2>3, <2>4, MadeStays
  <1> HIDE DEF c
  <1>4. Parts(c)[k] \subseteq {v}
    <2> HIDE DEF k
    <2> QED BY <1>2, <1>3
  <1> QED BY <1>4 DEF MadeFrom, c

LEMMA MadeIsAll ==
  ASSUME NEW x \in Paths, NEW content, NEW v, IsVideo(v), MadeFrom(content, x, v)
  PROVE  VideosOf(content) \subseteq {v}
  <1>1. Rank(x) \in 0..Depth
    BY RankIs, DepthType DEF Paths
  <1>2. Parts(content)[Depth] \subseteq {v}
    BY <1>1, DepthType, MadeStays DEF MadeFrom
  <1> QED BY <1>2, VideosAre
-----------------------------------------------------------------------------
\* Run r was given, and has since made, nothing but artifacts of one video.
MadeRun(r) ==
  runManifest[r] # Nothing =>
    LET given == runManifest[r].inputs
        v == given[Video]
    IN /\ Video \in DOMAIN given /\ IsVideo(v)
       /\ \A x \in DOMAIN given : MadeFrom(given[x], x, v)
       /\ \A s \in runManifest[r].stages :
             stageManifest[r][s] # Nothing =>
               \/ stageManifest[r][s].output = Nothing
               \/ MadeFrom(stageManifest[r][s].output, s, v)

\* So has the execution under way, of the video its manifest names.
MadeJob ==
  pc # "idle" =>
    LET v == job.available[Video]
    IN /\ Video \in DOMAIN job.available /\ v = runManifest[job.run].inputs[Video]
       /\ \A x \in DOMAIN job.available : MadeFrom(job.available[x], x, v)

\* No file holds what a failed manifest records.
FilesReal == \A x \in Paths : files[x] # Nothing

VideoInv == (\A r \in RunIds : MadeRun(r)) /\ MadeJob /\ FilesReal

LEMMA InitVideo == Init => VideoInv
  <1> SUFFICES ASSUME Init PROVE VideoInv
    OBVIOUS
  <1>1. \A r \in RunIds : MadeRun(r)
    BY DEF Init, MadeRun
  <1>2. FilesReal
    BY DEF Init, FilesReal, Absent, Nothing
  <1> QED BY <1>1, <1>2 DEF Init, MadeJob, VideoInv

\* What is restored for a run was made from the video it ingests.
LEMMA GivenMade ==
  ASSUME StoreOK, NEW run \in RunIds, MadeRun(run), NEW wanted, NEW store,
         \A x \in Paths : store[x] # Nothing
  PROVE  LET given == BoundaryArtifacts(run, wanted, store)
         IN \A x \in DOMAIN given : MadeFrom(given[x], x, source)
  <1> DEFINE old == runManifest[run]
             recorded == {x \in old.stages : stageManifest[run][x] # Nothing}
             known == [x \in DOMAIN old.inputs \cup recorded |->
                         IF x \in recorded THEN stageManifest[run][x].output
                                           ELSE old.inputs[x]]
             found == IF old = Nothing \/ old.inputs[Video] # source THEN {}
                      ELSE {x \in wanted \cap DOMAIN known : store[x] = known[x]}
             given == [x \in found \cup {Video} |-> IF x = Video THEN source ELSE known[x]]
  <1>1. BoundaryArtifacts(run, wanted, store) = given
    BY DEF BoundaryArtifacts
  <1>2. ASSUME NEW x \in found
        PROVE  MadeFrom(known[x], x, source)
    <2>1. /\ old # Nothing /\ old.inputs[Video] = source /\ x \in DOMAIN known
          /\ store[x] = known[x]
      BY <1>2
    <2>2. RunManifestOK(run)
      BY DEF StoreOK
    <2>3. x \in Paths
      BY <2>1, <2>2 DEF RunManifestOK, Paths
    <2>4. CASE x \in recorded
      <3>1. known[x] = stageManifest[run][x].output
        BY <2>1, <2>4
      <3>2. known[x] # Nothing
        BY <2>1, <2>3
      <3>3. x \in old.stages /\ stageManifest[run][x] # Nothing
        BY <2>4
      <3> HIDE DEF known, found
      <3> QED BY <2>1, <3>1, <3>2, <3>3 DEF MadeRun
    <2>5. CASE x \notin recorded
      <3>1. known[x] = old.inputs[x] /\ x \in DOMAIN old.inputs
        BY <2>1, <2>5
      <3> HIDE DEF known, found
      <3> QED BY <2>1, <3>1 DEF MadeRun
    <2> QED BY <2>4, <2>5
  <1>3. \A x \in DOMAIN given :
           IF x = Video THEN given[x] = source ELSE x \in found /\ given[x] = known[x]
    <2> HIDE DEF found, known
    <2> QED OBVIOUS
  <1>4. \A x \in DOMAIN given : MadeFrom(given[x], x, source)
    <2> HIDE DEF found, known, given
    <2> QED BY <1>2, <1>3, VideoMade
  <1> QED BY <1>1, <1>4

LEMMA BeginVideo ==
  ASSUME IInv, VideoInv, NEW run \in RunIds, NEW settings, NEW sel, NEW force,
         Begin(run, settings, sel, force)
  PROVE  VideoInv'
  <1>1. StoreOK /\ pc = "idle" /\ IsVideo(source)
    BY DEF IInv, StoreOK, Begin, IsVideo
  <1>2. PICK plan, wanted, ingested, given, previewed :
          /\ plan = PlanOf(Registry, sel)
          /\ wanted = BoundaryOf(Registry, Range(plan))
          /\ ingested = [files EXCEPT ![Video] = source]
          /\ given = BoundaryArtifacts(run, wanted, ingested)
          /\ files' = ingested
          /\ IF MissingInputs(plan, given) # {}
             THEN UNCHANGED <<pc, job, runManifest>>
             ELSE /\ runManifest' = [runManifest EXCEPT ![run] =
                       [status |-> "running", inputs |-> given, stages |-> {}]]
                  /\ pc' = "choosing"
                  /\ job' = [run |-> run, settings |-> settings, plan |-> plan,
                             force |-> force, available |-> given,
                             outcome |-> [s \in Stages |-> "pending"],
                             stage |-> 0, models |-> {revision},
                             changes |-> changes, previewed |-> previewed]
          /\ UNCHANGED <<world, stageManifest, index, changes>>
    BY ZenonT(40) DEF Begin
  <1>3. source # Nothing
    BY <1>1 DEF IsVideo, BytesOf, Nothing
  <1>4. \A x \in Paths : ingested[x] # Nothing
    BY <1>1, <1>2, <1>3 DEF VideoInv, FilesReal, StoreOK
  <1>5. FilesReal'
    BY <1>2, <1>4 DEF FilesReal
  <1>6. CASE MissingInputs(plan, given) # {}
    <2>1. UNCHANGED <<pc, job, runManifest, stageManifest>>
      BY <1>2, <1>6
    <2> QED BY <1>5, <2>1 DEF VideoInv, MadeRun, MadeJob
  <1>7. CASE ~ (MissingInputs(plan, given) # {})
    <2>1. /\ Video \in DOMAIN given /\ given[Video] = source
          /\ \A x \in DOMAIN given : MadeFrom(given[x], x, source)
      <3>1. PICK g : g = BoundaryArtifacts(run, wanted, ingested)
        OBVIOUS
      <3>2. Video \in DOMAIN g /\ g[Video] = source
        BY <1>1, <3>1, GivenIs
      <3>3. \A x \in DOMAIN g : MadeFrom(g[x], x, source)
        BY <1>1, <1>4, <3>1, GivenMade DEF VideoInv
      <3> QED BY <1>2, <3>1, <3>2, <3>3
    <2>2. /\ \A r \in RunIds : r # run => runManifest'[r] = runManifest[r]
          /\ runManifest'[run] = [status |-> "running", inputs |-> given, stages |-> {}]
      BY <1>1, <1>2, <1>7 DEF StoreOK
    <2>3. job'.available = given /\ job'.run = run
      BY <1>2, <1>7
    <2>4. ASSUME NEW r \in RunIds
          PROVE  MadeRun(r)'
      <3>1. CASE r = run
        BY <1>1, <2>1, <2>2, <3>1 DEF MadeRun
      <3>2. CASE r # run
        BY <1>2, <2>2, <3>2 DEF MadeRun, VideoInv
      <3> QED BY <3>1, <3>2
    <2>5. MadeJob'
      BY <2>1, <2>2, <2>3 DEF MadeJob
    <2> QED BY <1>5, <2>4, <2>5 DEF VideoInv
  <1> QED BY <1>6, <1>7

\* A result is recorded under the run whose artifacts it was made from.
LEMMA RecordsVideo ==
  ASSUME IInv, VideoInv, pc \in {"choosing", "submitted", "writing"},
         NEW s \in Stages, s \in Range(job.plan), job.outcome[s] = "pending",
         Records(s)
  PROVE  (\A r \in RunIds : MadeRun(r)') /\ MadeJob'
  <1>1. StoreOK /\ JobShape /\ RunKept /\ job.run \in RunIds /\ runManifest[job.run] # Nothing
    BY DEF IInv, ActiveOK, JobShape, RunKept
  <1>2. PICK m : Justified(s, m) /\ OthersStay(s) /\ Record(s, m, files')
    BY DEF Records
  <1>3. PICK v : v = job.available[Video]
    OBVIOUS
  <1>4. /\ Video \in DOMAIN job.available /\ v = runManifest[job.run].inputs[Video]
        /\ \A x \in DOMAIN job.available : MadeFrom(job.available[x], x, v)
        /\ IsVideo(v)
    BY <1>1, <1>3 DEF VideoInv, MadeJob, MadeRun
  <1>5. m.output = Nothing \/ MadeFrom(m.output, s, v)
    <2>1. CASE m.status \in Good
      <3>1. PICK inputs, config, model :
               inputs = InputsOf(s, job.available) /\ config = ConfigOf(s) /\ model = m.model
        OBVIOUS
      <3>2. DOMAIN inputs = Reads[s] /\ \A r \in Reads[s] : inputs[r] = job.available[r]
        BY <1>2, <2>1, <3>1 DEF Justified, InputsOf
      <3>3. \A r \in Reads[s] : MadeFrom(inputs[r], r, v)
        BY <1>2, <1>4, <2>1, <3>2 DEF Justified
      <3>4. m.output = Compute(s, config, model, inputs)
        BY <1>2, <2>1, <3>1 DEF Justified
      <3> QED BY <1>4, <3>2, <3>3, <3>4, ResultMade
    <2>2. CASE m.status = "failed"
      BY <1>2, <2>2 DEF Justified
    <2> QED BY <1>2, <2>1, <2>2 DEF Justified
  <1>6. PICK written \in 0..3 :
          /\ stageManifest' = IF written < 1 THEN stageManifest
                              ELSE [stageManifest EXCEPT ![job.run][s] = m]
          /\ runManifest' = IF written < 3 THEN runManifest
                            ELSE [runManifest EXCEPT ![job.run].stages = @ \cup {s}]
          /\ IF written < 3 THEN Lost
             ELSE pc' = "choosing" /\ job' = Ends(s, m)
    BY <1>2 DEF Record
  <1>7. /\ \A r \in RunIds : \A t \in Stages :
              r # job.run \/ t # s => stageManifest'[r][t] = stageManifest[r][t]
        /\ stageManifest'[job.run][s] \in {m, stageManifest[job.run][s]}
    BY <1>1, <1>6 DEF StoreOK
  <1>8. \A r \in RunIds : runManifest[r] # Nothing =>
           /\ runManifest[r].stages \subseteq Stages
           /\ DOMAIN runManifest[r] = {"status", "inputs", "stages"}
    BY <1>1 DEF StoreOK, RunManifestOK
  <1>9. s \notin runManifest[job.run].stages
    BY <1>1 DEF RunKept
  <1>10. CASE written < 3
    <2>1. runManifest' = runManifest /\ Lost
      BY <1>6, <1>10
    <2>2. ASSUME NEW r \in RunIds
          PROVE  MadeRun(r)'
      <3>1. runManifest[r] # Nothing =>
               \A t \in runManifest[r].stages : stageManifest'[r][t] = stageManifest[r][t]
        BY <1>7, <1>8, <1>9
      <3> QED BY <2>1, <3>1 DEF MadeRun, VideoInv
    <2> QED BY <2>1, <2>2 DEF MadeJob, Lost
  <1>11. CASE ~ (written < 3)
    <2>1. /\ runManifest' = [runManifest EXCEPT ![job.run].stages = @ \cup {s}]
          /\ job' = Ends(s, m)
      BY <1>6, <1>11
    <2>2. stageManifest'[job.run][s] = m
      <3>1. stageManifest' = [stageManifest EXCEPT ![job.run][s] = m]
        BY <1>6, <1>11
      <3> QED BY <1>1, <3>1 DEF StoreOK
    <2>3. /\ \A r \in RunIds : r # job.run => runManifest'[r] = runManifest[r]
          /\ runManifest'[job.run].inputs = runManifest[job.run].inputs
          /\ runManifest'[job.run].stages = runManifest[job.run].stages \cup {s}
      BY <1>1, <1>8, <2>1 DEF StoreOK
    <2>4. ASSUME NEW r \in RunIds
          PROVE  MadeRun(r)'
      <3>1. CASE r # job.run
        <4>1. runManifest'[r] = runManifest[r]
          BY <2>3, <3>1
        <4>2. runManifest[r] # Nothing =>
                 \A t \in runManifest[r].stages : stageManifest'[r][t] = stageManifest[r][t]
          BY <1>7, <1>8, <3>1
        <4> QED BY <4>1, <4>2 DEF MadeRun, VideoInv
      <3>2. CASE r = job.run
        <4>1. PICK given : given = runManifest[r].inputs
          OBVIOUS
        <4>2. /\ Video \in DOMAIN given /\ given[Video] = v /\ IsVideo(v)
              /\ \A x \in DOMAIN given : MadeFrom(given[x], x, v)
          BY <1>1, <1>4, <3>2, <4>1 DEF MadeRun, VideoInv
        <4>3. ASSUME NEW t \in runManifest'[r].stages
              PROVE  \/ stageManifest'[r][t] = Nothing
                     \/ stageManifest'[r][t].output = Nothing
                     \/ MadeFrom(stageManifest'[r][t].output, t, v)
          <5>1. CASE t = s
            BY <1>5, <2>2, <3>2, <5>1
          <5>2. CASE t # s
            <6>1. t \in runManifest[r].stages /\ t \in Stages
              BY <1>1, <1>8, <2>3, <3>2, <4>3, <5>2
            <6>2. stageManifest'[r][t] = stageManifest[r][t]
              BY <1>7, <5>2, <6>1
            <6> QED BY <1>1, <1>4, <3>2, <6>1, <6>2 DEF MadeRun, VideoInv
          <5> QED BY <5>1, <5>2
        <4>4. runManifest'[r].inputs = given
          BY <2>3, <3>2, <4>1
        <4> QED BY <4>2, <4>3, <4>4 DEF MadeRun
      <3> QED BY <3>1, <3>2
    <2>5. MadeJob'
      <3>1. /\ job'.run = job.run
            /\ m.status = "failed" => job'.available = job.available
            /\ m.status # "failed" =>
                  /\ DOMAIN job'.available = DOMAIN job.available \cup {s}
                  /\ job'.available[s] = m.output
                  /\ \A x \in DOMAIN job.available :
                        x # s => job'.available[x] = job.available[x]
        BY <1>1, <1>2, <2>1, EndsIs DEF Justified
      <3>2. s # Video
        BY WorkspaceAssumption DEF Video
      <3>3. m.status # "failed" => MadeFrom(m.output, s, v)
        <4>1. m.status # "failed" => m.output # Nothing
          BY <1>2 DEF Justified, Compute, Nothing
        <4> QED BY <1>5, <4>1
      <3>4. runManifest'[job.run].inputs[Video] = v
        BY <1>4, <2>3
      <3>5. Video \in DOMAIN job'.available /\ job'.available[Video] = v
        BY <1>3, <1>4, <3>1, <3>2, <1>2 DEF Justified
      <3>6. ASSUME NEW x \in DOMAIN job'.available
            PROVE  MadeFrom(job'.available[x], x, v)
        <4>1. x = s /\ m.status # "failed" => job'.available[x] = m.output
          BY <3>1
        <4>2. x # s \/ m.status = "failed" =>
                 x \in DOMAIN job.available /\ job'.available[x] = job.available[x]
          BY <3>1, <3>6
        <4> QED BY <1>4, <3>3, <4>1, <4>2
      <3> QED BY <3>1, <3>4, <3>5, <3>6 DEF MadeJob
    <2> QED BY <2>4, <2>5
  <1> QED BY <1>10, <1>11

LEMMA NextVideo == IInv /\ VideoInv /\ [Next]_vars => VideoInv'
  <1> SUFFICES ASSUME IInv, VideoInv, [Next]_vars PROVE VideoInv'
    OBVIOUS
  <1>1. DOMAIN files = Paths /\ StoreOK
    BY DEF IInv, StoreOK
  <1>2. ASSUME NEW r \in RunIds, NEW x \in Settings, NEW sel \in Selections, NEW f \in Forces,
               Begin(r, x, sel, f)
        PROVE  VideoInv'
    BY <1>2, BeginVideo
  <1>3. ASSUME NEW s \in Stages, Evaluate(s)
        PROVE  VideoInv'
    <2>1. /\ s \in Range(job.plan) /\ job.outcome[s] = "pending" /\ pc = "choosing"
          /\ files' = files /\ (Records(s) \/ Submits(s))
      BY <1>3, EvaluateIs
    <2>2. FilesReal'
      BY <2>1 DEF FilesReal, VideoInv
    <2>3. CASE Records(s)
      BY <2>1, <2>2, <2>3, RecordsVideo DEF VideoInv
    <2>4. CASE Submits(s)
      <3>1. job'.run = job.run /\ job'.available = job.available
        BY <2>1, <2>4 DEF Submits, IInv, ActiveOK, JobShape
      <3>2. UNCHANGED <<runManifest, stageManifest>> /\ pc # "idle"
        BY <2>1, <2>4 DEF Submits, stored
      <3> QED BY <2>2, <3>1, <3>2 DEF VideoInv, MadeRun, MadeJob
    <2> QED BY <2>1, <2>3, <2>4
  <1>4. ASSUME NEW s \in Stages, Execute(s)
        PROVE  VideoInv'
    <2>1. CASE InputsIntact(s)
      <3>1. UNCHANGED <<runManifest, stageManifest, job>> /\ pc # "idle"
            /\ files' = [files EXCEPT ![s] = Damaged]
        BY <1>4, <2>1 DEF Execute, stored
      <3>2. FilesReal'
        BY <1>1, <3>1 DEF FilesReal, VideoInv, Damaged, Nothing
      <3> QED BY <3>1, <3>2 DEF VideoInv, MadeRun, MadeJob
    <2>2. CASE ~ InputsIntact(s)
      <3>1. /\ Record(s, Failure(s), files) /\ files' = files
            /\ UNCHANGED <<world, execs, changes>> /\ pc = "submitted" /\ job.stage = s
        BY <1>4, <2>2 DEF Execute
      <3>2. OthersStay(s) /\ FilesReal'
        BY <1>1, <3>1 DEF OthersStay, FilesReal, VideoInv
      <3>3. Records(s)
        BY <3>1, <3>2, FailureRecords
      <3>4. s \in Range(job.plan) /\ job.outcome[s] = "pending"
        BY <3>1 DEF IInv, ActiveOK, RunKept
      <3> QED BY <3>1, <3>2, <3>3, <3>4, RecordsVideo DEF VideoInv
    <2> QED BY <2>1, <2>2
  <1>5. ASSUME NEW s \in Stages, Complete(s) \/ Abort(s)
        PROVE  VideoInv'
    <2>1. /\ s \in Range(job.plan) /\ job.outcome[s] = "pending" /\ pc = "writing"
          /\ Records(s)
      BY <1>5, CompleteIs, AbortIs
    <2>2. FilesReal'
      <3>1. CASE Complete(s)
        <4>1. PICK config, model, inputs :
                 files' = [files EXCEPT ![s] = Compute(s, config, model, inputs)]
          BY <3>1 DEF Complete
        <4> QED BY <1>1, <4>1 DEF FilesReal, VideoInv, Compute, Nothing
      <3>2. CASE Abort(s)
        BY <3>2 DEF Abort, FilesReal, VideoInv
      <3> QED BY <1>5, <3>1, <3>2
    <2> QED BY <2>1, <2>2, RecordsVideo DEF VideoInv
  <1>6. CASE Finish
    <2>1. /\ pc = "choosing" /\ UNCHANGED <<files, stageManifest>>
          /\ \/ Lost /\ UNCHANGED runManifest
             \/ \E status :
                   /\ runManifest' = [runManifest EXCEPT ![job.run].status = status]
                   /\ job' = job
      BY <1>6 DEF Finish
    <2>2. JobShape /\ RunKept
      BY <2>1 DEF IInv, ActiveOK
    <2>3. FilesReal'
      BY <2>1 DEF FilesReal, VideoInv
    <2>4. \A r \in RunIds : runManifest[r] # Nothing =>
             DOMAIN runManifest[r] = {"status", "inputs", "stages"}
      BY <1>1 DEF StoreOK, RunManifestOK
    <2>5. \A r \in RunIds :
             /\ runManifest'[r] # Nothing => runManifest[r] # Nothing
             /\ runManifest[r] # Nothing =>
                   /\ runManifest'[r].inputs = runManifest[r].inputs
                   /\ runManifest'[r].stages = runManifest[r].stages
      <3>1. CASE UNCHANGED runManifest
        BY <3>1
      <3>2. ASSUME NEW status, runManifest' = [runManifest EXCEPT ![job.run].status = status]
            PROVE  \A r \in RunIds :
                     /\ runManifest'[r] # Nothing => runManifest[r] # Nothing
                     /\ runManifest[r] # Nothing =>
                           /\ runManifest'[r].inputs = runManifest[r].inputs
                           /\ runManifest'[r].stages = runManifest[r].stages
        <4>1. runManifest[job.run] # Nothing /\ job.run \in RunIds
          BY <2>2 DEF JobShape, RunKept
        <4>2. \A r \in RunIds : r # job.run => runManifest'[r] = runManifest[r]
          BY <1>1, <3>2 DEF StoreOK
        <4>3. /\ runManifest'[job.run].inputs = runManifest[job.run].inputs
              /\ runManifest'[job.run].stages = runManifest[job.run].stages
          BY <1>1, <2>4, <3>2, <4>1 DEF StoreOK
        <4> QED BY <4>1, <4>2, <4>3
      <3> QED BY <2>1, <3>1, <3>2
    <2>6. \A r \in RunIds : MadeRun(r)'
      BY <2>1, <2>5 DEF MadeRun, VideoInv
    <2>7. MadeJob'
      <3>1. CASE Lost
        BY <3>1 DEF Lost, MadeJob
      <3>2. CASE job' = job
        BY <2>1, <2>2, <2>5, <3>2 DEF MadeJob, VideoInv, JobShape, RunKept
      <3> QED BY <2>1, <3>1, <3>2
    <2> QED BY <2>3, <2>6, <2>7 DEF VideoInv
  <1>7. CASE Exit \/ Crash
    BY <1>7 DEF Exit, Crash, Lost, stored, VideoInv, MadeRun, MadeJob, FilesReal
  <1>8. CASE ReplaceVideo \/ UNCHANGED vars
    BY <1>8 DEF ReplaceVideo, vars, stored, VideoInv, MadeRun, MadeJob, FilesReal
  <1>9. CASE Deploy
    <2>1. UNCHANGED <<files, runManifest, stageManifest, pc>>
      BY <1>9 DEF Deploy, stored
    <2>2. pc # "idle" => job'.run = job.run /\ job'.available = job.available
      BY <1>9 DEF Deploy, IInv, ActiveOK, JobShape
    <2> QED BY <2>1, <2>2 DEF VideoInv, MadeRun, MadeJob, FilesReal
  <1>10. ASSUME NEW x \in Paths, DamageFile(x)
         PROVE  VideoInv'
    <2>1. UNCHANGED <<runManifest, stageManifest, pc, job>> /\ files' = [files EXCEPT ![x] = Damaged]
      BY <1>10 DEF DamageFile, stored
    <2>2. FilesReal'
      BY <1>1, <2>1 DEF FilesReal, VideoInv, Damaged, Nothing
    <2> QED BY <2>1, <2>2 DEF VideoInv, MadeRun, MadeJob
  <1> QED BY <1>2, <1>3, <1>4, <1>5, <1>6, <1>7, <1>8, <1>9, <1>10 DEF Next

LEMMA VideosKept == IInv /\ VideoInv => NoMixedVideo
  <1> SUFFICES ASSUME IInv, VideoInv, job # NoJob, NEW x \in DOMAIN job.available
               PROVE  VideosOf(job.available[x]) \subseteq {job.available[Video]}
    BY DEF NoMixedVideo
  <1>1. /\ pc # "idle" /\ job.run \in RunIds /\ runManifest[job.run] # Nothing
        /\ x \in Paths
    BY DEF IInv, StoreOK, ActiveOK, JobShape, RunKept
  <1>2. PICK v, content : v = job.available[Video] /\ content = job.available[x]
    OBVIOUS
  <1>3. IsVideo(v) /\ MadeFrom(content, x, v)
    BY <1>1, <1>2 DEF VideoInv, MadeRun, MadeJob
  <1>4. VideosOf(content) \subseteq {v}
    BY <1>1, <1>3, MadeIsAll
  <1> QED BY <1>2, <1>4
-----------------------------------------------------------------------------
\* The inductive invariant holds of every execution over one output root.
THEOREM Invariance == Spec => []IInv
  <1>1. Init => IInv
    BY InitIInv
  <1>2. IInv /\ [Next]_vars => IInv'
    BY NextKeeps
  <1> QED BY <1>1, <1>2, PTL DEF Spec

\* LocalRunStore and record_stage: whatever runs, fails, crashes or is changed by
\* the user, the three JSON documents can be believed, no manifest records what
\* is not its Stage's result, and the results of a run that ended SUCCEEDED in an
\* unchanged world are found again.
THEOREM StoreAlwaysTrue == Spec => []StoreTrue
  <1>1. IInv => StoreTrue
    BY IInvStore, IInvComplete DEF StoreTrue
  <1> QED BY <1>1, Invariance, PTL

\* save_run and ManifestCacheEvaluator: a run that ends SUCCEEDED has ended every
\* planned Stage well, and each output file holds what that Stage computes from
\* this request and this run's artifacts.
THEOREM SucceededRunAlwaysCurrent == Spec => []SucceededRunCurrent
  <1>1. IInv => SucceededRunCurrent
    BY IInvCurrent
  <1> QED BY <1>1, Invariance, PTL

\* preview_cache and _evaluate_cache: a Stage that a preview showed as a hit is
\* submitted only if the world has changed since, or if the model that would run
\* cannot be told.
THEOREM PreviewAlwaysTruthful == Spec => []PreviewTruthful
  <1>1. Init => PreviewInv
    BY InitPreview
  <1>2. IInv /\ PreviewInv /\ [Next]_vars => PreviewInv'
    BY NextForetold
  <1>3. PreviewInv => PreviewTruthful
    BY DEF PreviewInv
  <1> QED BY <1>1, <1>2, <1>3, Invariance, PTL DEF Spec

\* _restore_boundary_artifacts: every artifact that is available to a run, those
\* restored from earlier runs included, was made from nothing but the video this
\* run ingested, whatever was replaced, damaged or interrupted before.
THEOREM NoVideoIsMixed == Spec => []NoMixedVideo
  <1>1. Init => VideoInv
    BY InitVideo
  <1>2. IInv /\ VideoInv /\ [Next]_vars => VideoInv'
    BY NextVideo
  <1>3. IInv /\ VideoInv => NoMixedVideo
    BY VideosKept
  <1> QED BY <1>1, <1>2, <1>3, Invariance, PTL DEF Spec
=============================================================================
