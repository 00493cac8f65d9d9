--------------------------- MODULE DriftIssueProofs ---------------------------
(***************************************************************************)
(* Proof that the drift workflow never has two open issues for one         *)
(* environment, for any matrix, as long as all the issues that may be open *)
(* fit on the page that the script lists.                                  *)
(***************************************************************************)
EXTENDS DriftIssue, FiniteSetTheorems, SequenceTheorems, TLAPS

Names == Envs \cup {"other"}

Jobs == [at : 0 .. Len(Matrix), step : {"idle", "plan", "list", "act"},
         code : Nat, existing : BOOLEAN]

TypeOK ==
    /\ job \in [Slots -> Jobs]
    /\ \A s \in Slots : job[s].step # "idle" => job[s].at \in 1 .. Len(Matrix)
    /\ issues \in Seq(Names)

\* The concurrency group: one run at a time.
Alone == \A s, t \in Slots : job[s] # Idle /\ job[t] # Idle => s = t

\* What the script has listed is still so when it acts on it.
ListedStill ==
    \A s \in Slots :
        job[s].step = "act" => (job[s].existing <=> Open(Env(s)))

FewOthers == Cardinality(Titled("other")) <= MaxOthers

IssueInv == TypeOK /\ Alone /\ ListedStill /\ FewOthers /\ AtMostOneIssue

-----------------------------------------------------------------------------
(* Closing an issue.                                                       *)

\* Where an element was before the one at i was removed.
Before(i, j) == IF j < i THEN j ELSE j + 1

\* What RemoveAt leaves.
LEMMA RemoveAtLeaves ==
    ASSUME NEW S, NEW q \in Seq(S), NEW i \in 1 .. Len(q)
    PROVE  /\ RemoveAt(q, i) \in Seq(S)
           /\ Len(RemoveAt(q, i)) = Len(q) - 1
           /\ \A j \in 1 .. Len(q) - 1 : RemoveAt(q, i)[j] = q[Before(i, j)]
<1> DEFINE a == SubSeq(q, 1, i - 1)
           b == SubSeq(q, i + 1, Len(q))
<1>1. Len(q) \in Nat /\ i \in Nat /\ 1 <= i /\ i <= Len(q)
    OBVIOUS
<1>2. /\ a \in Seq(S) /\ Len(a) = i - 1
      /\ \A j \in 1 .. i - 1 : a[j] = q[j]
    BY <1>1
<1>3. /\ b \in Seq(S) /\ Len(b) = Len(q) - i
      /\ \A j \in 1 .. Len(q) - i : b[j] = q[i + j]
    BY <1>1
<1>4. RemoveAt(q, i) = a \o b
    BY DEF RemoveAt
<1> HIDE DEF a, b
<1>5. a \o b \in Seq(S) /\ Len(a \o b) = Len(q) - 1
    <2>1. a \o b \in Seq(S) /\ Len(a \o b) = Len(a) + Len(b)
        BY <1>2, <1>3, ConcatProperties
    <2>. QED
        BY <1>1, <1>2, <1>3, <2>1
<1>6. ASSUME NEW j \in 1 .. Len(q) - 1
      PROVE  (a \o b)[j] = q[Before(i, j)]
    <2>0. j \in Int
        BY <1>1
    <2>1. CASE j < i
        BY <1>1, <1>2, <1>3, <2>1 DEF Before
    <2>2. CASE j >= i
        <3>1. (a \o b)[j] = b[j - (i - 1)]
            BY <1>1, <1>2, <1>3, <2>2
        <3>2. j - (i - 1) \in 1 .. Len(q) - i
            BY <1>1, <2>2
        <3>. QED
            BY <1>1, <1>3, <2>2, <3>1, <3>2 DEF Before
    <2>. QED
        <3>1. j < i \/ j >= i
            BY <1>1, <2>0
        <3>. QED
            BY <2>1, <2>2, <3>1
<1>. QED
    BY <1>4, <1>5, <1>6

At(q, e) == {j \in DOMAIN q : q[j] = e}

\* r has no more of any title than q, as before of titles other than e, and
\* keeps apart what q keeps apart.
Less(q, r, e) ==
    /\ \A f : Cardinality(At(r, f)) <= Cardinality(At(q, f))
    /\ \A f : f # e => (At(r, f) # {} <=> At(q, f) # {})
    /\ \A j, k \in DOMAIN r : \E l, m \in DOMAIN q :
        r[j] = q[l] /\ r[k] = q[m] /\ (l = m => j = k)

\* Closing one issue adds none, leaves those of other titles, and keeps apart
\* what was apart.
LEMMA CloseOne ==
    ASSUME NEW S, NEW q \in Seq(S), NEW i \in 1 .. Len(q), NEW r,
           r = RemoveAt(q, i)
    PROVE  Less(q, r, q[i])
<1>1. Len(q) \in Nat /\ DOMAIN q = 1 .. Len(q) /\ i \in Nat /\ 1 <= i
    OBVIOUS
<1>2. /\ r \in Seq(S) /\ Len(r) = Len(q) - 1 /\ DOMAIN r = 1 .. Len(q) - 1
      /\ \A j \in DOMAIN r : r[j] = q[Before(i, j)]
    <2>1. /\ r \in Seq(S)
          /\ Len(r) = Len(q) - 1
          /\ \A j \in 1 .. Len(q) - 1 : r[j] = q[Before(i, j)]
        BY RemoveAtLeaves
    <2>2. DOMAIN r = 1 .. Len(q) - 1
        BY <1>1, <2>1
    <2>. QED
        BY <2>1, <2>2
<1>3. \A j \in DOMAIN r : Before(i, j) \in DOMAIN q /\ Before(i, j) # i
    BY <1>1, <1>2 DEF Before
<1>4. \A j, k \in DOMAIN r : Before(i, j) = Before(i, k) => j = k
    BY <1>1, <1>2 DEF Before
<1>5. ASSUME NEW e
      PROVE  Cardinality(At(r, e)) <= Cardinality(At(q, e))
    <2> DEFINE f == [j \in At(r, e) |-> Before(i, j)]
    <2>1. IsFiniteSet(At(q, e))
        <3>1. IsFiniteSet(1 .. Len(q))
            BY <1>1, FS_Interval
        <3>2. At(q, e) \in SUBSET (1 .. Len(q))
            BY <1>1 DEF At
        <3>. QED
            BY <3>1, <3>2, FS_Subset
    <2>2. \A j \in At(r, e) : Before(i, j) \in At(q, e)
        BY <1>2, <1>3 DEF At
    <2>3. f \in [At(r, e) -> At(q, e)]
        BY <2>2
    <2>4. \A j, k \in At(r, e) : f[j] = f[k] => j = k
        BY <1>4 DEF At
    <2>5. f \in Injection(At(r, e), At(q, e))
        BY <2>3, <2>4 DEF Injection, IsInjective
    <2> HIDE DEF f
    <2>. QED
        BY <2>1, <2>5, FS_Injection
<1>6. ASSUME NEW e, e # q[i]
      PROVE  At(r, e) # {} <=> At(q, e) # {}
    <2>1. ASSUME NEW j \in At(r, e)
          PROVE  At(q, e) # {}
        BY <1>2, <1>3 DEF At
    <2>2. ASSUME NEW j \in At(q, e)
          PROVE  At(r, e) # {}
        <3>1. j \in 1 .. Len(q) /\ q[j] = e /\ j # i
            BY <1>1, <1>6, <2>2 DEF At
        <3>2. CASE j < i
            <4>1. j \in DOMAIN r /\ Before(i, j) = j
                BY <1>1, <1>2, <3>1, <3>2 DEF Before
            <4>. QED
                BY <1>2, <3>1, <4>1 DEF At
        <3>3. CASE j > i
            <4>1. j - 1 \in DOMAIN r /\ Before(i, j - 1) = j
                BY <1>1, <1>2, <3>1, <3>3 DEF Before
            <4>. QED
                BY <1>2, <3>1, <4>1 DEF At
        <3>. QED
            BY <1>1, <3>1, <3>2, <3>3
    <2>. QED
        BY <2>1, <2>2
<1>7. ASSUME NEW j \in DOMAIN r, NEW k \in DOMAIN r
      PROVE  \E l, m \in DOMAIN q :
                r[j] = q[l] /\ r[k] = q[m] /\ (l = m => j = k)
    BY <1>2, <1>3, <1>4
<1>. QED
    BY <1>5, <1>6, <1>7 DEF Less

-----------------------------------------------------------------------------
(* The page.                                                               *)

\* A set of places.
LEMMA UpTo ==
    ASSUME NEW n \in Nat
    PROVE  IsFiniteSet(1 .. n) /\ Cardinality(1 .. n) = n
BY FS_Interval

\* The issues that may be open: people's, and one per environment.
LEMMA FitOnPage ==
    ASSUME IssueInv, MaxOthers + Len(Matrix) <= PageSize
    PROVE  Len(issues) <= PageSize
<1> DEFINE others == Titled("other")
           ours == {i \in DOMAIN issues : issues[i] # "other"}
<1> HIDE DEF others, ours
<1>1. issues \in Seq(Names) /\ DOMAIN issues = 1 .. Len(issues) /\ Len(issues) \in Nat
    BY DEF IssueInv, TypeOK
<1>2. IsFiniteSet(1 .. Len(issues)) /\ Cardinality(1 .. Len(issues)) = Len(issues)
    BY <1>1, UpTo
<1>3. IsFiniteSet(others) /\ IsFiniteSet(ours)
    <2>1. others \in SUBSET (1 .. Len(issues)) /\ ours \in SUBSET (1 .. Len(issues))
        BY <1>1 DEF Titled, others, ours
    <2>. QED
        BY <1>2, <2>1, FS_Subset
<1>4. Cardinality(others) \in Nat /\ Cardinality(ours) \in Nat
    BY <1>3, FS_CardinalityType
<1>5. Len(issues) = Cardinality(others) + Cardinality(ours)
    <2>1. others \cup ours = 1 .. Len(issues) /\ others \cap ours = {}
        BY <1>1 DEF Titled, others, ours
    <2>2. Cardinality(others \cup ours) =
            Cardinality(others) + Cardinality(ours) - Cardinality(others \cap ours)
        BY <1>3, FS_Union
    <2>3. Cardinality(others \cap ours) = 0
        BY <2>1, FS_EmptySet
    <2>4. Cardinality(1 .. Len(issues)) =
            Cardinality(others) + Cardinality(ours) - Cardinality(others \cap ours)
        BY <2>1, <2>2
    <2>5. Len(issues) = Cardinality(others) + Cardinality(ours) - 0
        BY <1>2, <2>3, <2>4
    <2>. QED
        BY <1>4, <2>5
<1>6. /\ IsFiniteSet(Envs) /\ Cardinality(Envs) <= Len(Matrix)
      /\ Len(Matrix) \in Nat /\ Cardinality(Envs) \in Nat
    <2>1. Matrix \in Seq(Envs)
        BY DriftAssumption DEF Envs
    <2>2. Len(Matrix) \in Nat /\ Matrix \in [1 .. Len(Matrix) -> Envs]
        BY <2>1
    <2>3. \A e \in Envs : \E i \in 1 .. Len(Matrix) : Matrix[i] = e
        BY <2>2 DEF Envs, ToSet
    <2>4. Matrix \in Surjection(1 .. Len(Matrix), Envs)
        BY <2>2, <2>3 DEF Surjection
    <2>5. /\ IsFiniteSet(1 .. Len(Matrix))
          /\ Cardinality(1 .. Len(Matrix)) = Len(Matrix)
        BY <2>2, FS_Interval
    <2>. QED
        BY <2>2, <2>4, <2>5, FS_Surjection, FS_CardinalityType
<1>7. Cardinality(ours) <= Cardinality(Envs)
    <2> DEFINE title == [i \in ours |-> issues[i]]
    <2>1. title \in [ours -> Envs]
        BY <1>1 DEF Names, ours
    <2>2. \A i, j \in ours : title[i] = title[j] => i = j
        BY DEF IssueInv, AtMostOneIssue, ours
    <2>3. title \in Injection(ours, Envs)
        BY <2>1, <2>2 DEF Injection, IsInjective
    <2> HIDE DEF title
    <2>. QED
        BY <1>6, <2>3, FS_Injection
<1>8. Cardinality(others) <= MaxOthers
    BY DEF IssueInv, FewOthers, others
<1>9. MaxOthers \in Nat /\ PageSize \in Nat
    BY DriftAssumption
<1>. QED
    BY <1>4, <1>5, <1>6, <1>7, <1>8, <1>9

\* A first page that holds everything tells whether an issue is open.
LEMMA PageTells ==
    ASSUME issues \in Seq(Names), Len(issues) <= PageSize, NEW e
    PROVE  e \in ToSet(FirstPage) <=> Open(e)
<1>1. Len(issues) \in Nat /\ PageSize \in Nat
    BY DriftAssumption
<1>2. FirstPage = SubSeq(issues, 1, Len(issues))
    <2>1. CASE Len(issues) < PageSize
        BY <2>1 DEF FirstPage
    <2>2. CASE Len(issues) = PageSize
        <3>1. Len(issues) - PageSize + 1 = 1
            BY <1>1, <2>2
        <3>. QED
            BY <2>2, <3>1 DEF FirstPage
    <2>. QED
        BY <1>1, <2>1, <2>2
<1>3. SubSeq(issues, 1, Len(issues)) = issues
    BY <1>1
<1>. QED
    BY <1>2, <1>3 DEF ToSet, Open, Titled

-----------------------------------------------------------------------------
(* The workflow.                                                           *)

\* A run that has come to the n-th environment.
LEMMA PlanOf ==
    ASSUME NEW n
    PROVE  [Idle EXCEPT !.at = n, !.step = "plan"] =
            [at |-> n, step |-> "plan", code |-> 0, existing |-> FALSE]
<1> DEFINE r == [Idle EXCEPT !.at = n, !.step = "plan"]
<1>1. DOMAIN r = {"at", "step", "code", "existing"}
    BY DEF Idle
<1>2. r.at = n /\ r.step = "plan" /\ r.code = 0 /\ r.existing = FALSE
    BY DEF Idle
<1>3. r = [f \in DOMAIN r |-> r[f]]
    OBVIOUS
<1> HIDE DEF r
<1>4. r = [at |-> n, step |-> "plan", code |-> 0, existing |-> FALSE]
    BY <1>1, <1>2, <1>3
<1>. QED
    BY <1>4 DEF r

\* A run that goes on has the next environment to plan, or is over.
LEMMA AdvancedTyped ==
    ASSUME TypeOK, NEW s \in Slots, job' = Advanced(s), job[s].step # "idle"
    PROVE  /\ job' \in [Slots -> Jobs]
           /\ \A t \in Slots : job'[t].step # "idle" =>
                job'[t].at \in 1 .. Len(Matrix)
           /\ job'[s].step \in {"idle", "plan"}
           /\ \A t \in Slots \ {s} : job'[t] = job[t]
<1>1. Len(Matrix) \in Nat /\ Len(Matrix) > 0
    BY DriftAssumption
<1>2. job \in [Slots -> Jobs] /\ job[s].at \in 1 .. Len(Matrix)
    BY DEF TypeOK
<1> DEFINE next == IF job[s].at = Len(Matrix) THEN Idle
                   ELSE [Idle EXCEPT !.at = job[s].at + 1, !.step = "plan"]
<1>3. job' = [job EXCEPT ![s] = next]
    BY DEF Advanced
<1>4. /\ next \in Jobs /\ next.step \in {"idle", "plan"}
      /\ next.step # "idle" => next.at \in 1 .. Len(Matrix)
    <2>1. CASE job[s].at = Len(Matrix)
        <3>1. next = [at |-> 0, step |-> "idle", code |-> 0, existing |-> FALSE]
            BY <2>1 DEF Idle
        <3> HIDE DEF next
        <3>. QED
            BY <1>1, <3>1 DEF Jobs
    <2>2. CASE job[s].at # Len(Matrix)
        <3>1. next = [at |-> job[s].at + 1, step |-> "plan", code |-> 0,
                      existing |-> FALSE]
            BY <2>2 DEF Idle
        <3>2. job[s].at + 1 \in 1 .. Len(Matrix)
            BY <1>1, <1>2, <2>2
        <3> HIDE DEF next
        <3>. QED
            BY <1>1, <3>1, <3>2 DEF Jobs
    <2>. QED
        BY <2>1, <2>2
<1> HIDE DEF next
<1>5. job'[s] = next /\ \A t \in Slots \ {s} : job'[t] = job[t]
    BY <1>2, <1>3
<1>6. job' \in [Slots -> Jobs]
    BY <1>2, <1>3, <1>4
<1>7. ASSUME NEW t \in Slots, job'[t].step # "idle"
      PROVE  job'[t].at \in 1 .. Len(Matrix)
    <2>1. CASE t = s
        BY <1>4, <1>5, <1>7, <2>1
    <2>2. CASE t # s
        BY <1>5, <1>7, <2>2 DEF TypeOK
    <2>. QED
        BY <2>1, <2>2
<1>. QED
    BY <1>4, <1>5, <1>6, <1>7

\* What a run knows is its own, so a step that advances it and leaves the
\* issues of the others alone keeps what they have listed.
LEMMA RunKept ==
    ASSUME IssueInv, NEW s \in Slots, job[s].step # "idle",
           \A t \in Slots \ {s} : job'[t] = job[t],
           job'[s].step = "act" => (job'[s].existing <=> Open(Env(s))')
    PROVE  (Alone /\ ListedStill)'
<1>1. \A t \in Slots \ {s} : job[t] = Idle
    BY DEF IssueInv, Alone, Idle
<1>2. \A t \in Slots \ {s} : job'[t] = Idle
    BY <1>1
<1>3. Alone'
    BY <1>2 DEF Alone
<1>4. ListedStill'
    BY <1>2 DEF ListedStill, Idle
<1>. QED
    BY <1>3, <1>4

\* Closing an issue keeps what holds of the others.
LEMMA CloseKept ==
    ASSUME IssueInv, NEW e \in Names, issues' \in Without(e)
    PROVE  /\ issues' \in Seq(Names)
           /\ (FewOthers /\ AtMostOneIssue)'
           /\ \A f : f # e => (Open(f)' <=> Open(f))
<1>1. issues \in Seq(Names) /\ DOMAIN issues = 1 .. Len(issues)
    BY DEF IssueInv, TypeOK
<1>2. PICK i \in Titled(e) : issues' = RemoveAt(issues, i)
    BY DEF Without
<1>3. i \in 1 .. Len(issues) /\ issues[i] = e
    BY <1>1, <1>2 DEF Titled
<1>4. issues' \in Seq(Names)
    BY <1>1, <1>2, <1>3, RemoveAtLeaves
<1>5. /\ \A f : Cardinality(At(issues', f)) <= Cardinality(At(issues, f))
      /\ \A f : f # e => (At(issues', f) # {} <=> At(issues, f) # {})
      /\ \A j, k \in DOMAIN issues' : \E l, m \in DOMAIN issues :
            /\ issues'[j] = issues[l] /\ issues'[k] = issues[m]
            /\ l = m => j = k
    <2>1. Less(issues, RemoveAt(issues, i), issues[i])
        BY <1>1, <1>3, CloseOne
    <2>2. Less(issues, issues', e)
        BY <1>2, <1>3, <2>1
    <2>. QED
        BY <2>2 DEF Less
<1>6. \A f : Titled(f) = At(issues, f) /\ Titled(f)' = At(issues', f)
    BY DEF Titled, At
<1>7. FewOthers'
    <2>1. /\ IsFiniteSet(At(issues', "other")) /\ IsFiniteSet(At(issues, "other"))
        BY <1>1, <1>4, FS_Interval, FS_Subset DEF At
    <2>2. /\ Cardinality(At(issues', "other")) \in Nat
          /\ Cardinality(At(issues, "other")) \in Nat /\ MaxOthers \in Nat
        BY <2>1, FS_CardinalityType, DriftAssumption
    <2>. QED
        BY <1>5, <1>6, <2>2 DEF IssueInv, FewOthers
<1>8. AtMostOneIssue'
    BY <1>5 DEF IssueInv, AtMostOneIssue
<1>9. \A f : f # e => (Open(f)' <=> Open(f))
    BY <1>5, <1>6 DEF Open
<1>. QED
    BY <1>4, <1>7, <1>8, <1>9

\* IssueInv is inductive when everything fits on a page.
LEMMA IssueStep ==
    ASSUME IssueInv, MaxOthers + Len(Matrix) <= PageSize, [Next]_vars
    PROVE  IssueInv'
<1>i. TypeOK /\ Alone /\ ListedStill /\ FewOthers /\ AtMostOneIssue
    BY DEF IssueInv
<1>t. job \in [Slots -> Jobs] /\ issues \in Seq(Names)
    BY <1>i DEF TypeOK
<1>o. \A s \in Slots : job[s].step # "idle" =>
        Env(s) \in Names /\ Env(s) # "other"
    <2> SUFFICES ASSUME NEW s \in Slots, job[s].step # "idle"
                 PROVE  Env(s) \in Names /\ Env(s) # "other"
        OBVIOUS
    <2>1. job[s].at \in 1 .. Len(Matrix)
        BY <1>i DEF TypeOK
    <2>2. Env(s) \in Envs
        BY <2>1, DriftAssumption DEF Env, Envs
    <2>. QED
        BY <2>2, DriftAssumption DEF Names, Envs
<1>1. ASSUME job' \in [Slots -> Jobs],
             \A t \in Slots : job'[t].step # "idle" =>
                job'[t].at \in 1 .. Len(Matrix),
             issues' = issues, (Alone /\ ListedStill)'
      PROVE  IssueInv'
    BY <1>1, <1>i DEF IssueInv, TypeOK, FewOthers, AtMostOneIssue, Titled
<1>2. ASSUME issues' = issues, job' = job
      PROVE  IssueInv'
    BY <1>2, <1>i DEF IssueInv, TypeOK, Alone, ListedStill, FewOthers,
        AtMostOneIssue, Titled, Open, Env
<1>3. ASSUME NEW s \in Slots, job' = Advanced(s), job[s].step # "idle",
             issues' = issues
      PROVE  IssueInv'
    <2>1. /\ job' \in [Slots -> Jobs]
          /\ \A t \in Slots : job'[t].step # "idle" =>
                job'[t].at \in 1 .. Len(Matrix)
          /\ job'[s].step \in {"idle", "plan"}
          /\ \A t \in Slots \ {s} : job'[t] = job[t]
        BY <1>3, <1>i, AdvancedTyped
    <2>2. (Alone /\ ListedStill)'
        BY <1>3, <2>1, RunKept
    <2>. QED
        BY <1>1, <1>3, <2>1, <2>2
<1>4. ASSUME NEW s \in Slots, Begin(s)
      PROVE  IssueInv'
    <2> DEFINE fresh == [Idle EXCEPT !.at = 1, !.step = "plan"]
    <2>1. /\ job' = [job EXCEPT ![s] = fresh] /\ issues' = issues
          /\ \A t \in Slots : job[t] = Idle
        BY <1>4 DEF Begin, GroupFree
    <2>2. 1 \in 1 .. Len(Matrix)
        BY DriftAssumption
    <2>3. fresh = [at |-> 1, step |-> "plan", code |-> 0, existing |-> FALSE]
        BY PlanOf
    <2> HIDE DEF fresh
    <2>4. fresh \in Jobs
        BY <2>2, <2>3 DEF Jobs
    <2>5. /\ job' \in [Slots -> Jobs] /\ job'[s] = fresh
          /\ \A t \in Slots \ {s} : job'[t] = Idle
        BY <1>t, <2>1, <2>4
    <2>6. \A t \in Slots : job'[t].step # "idle" =>
            job'[t].at \in 1 .. Len(Matrix)
        BY <2>2, <2>3, <2>5 DEF Idle
    <2>7. (Alone /\ ListedStill)'
        BY <2>3, <2>5 DEF Alone, ListedStill, Idle
    <2>. QED
        BY <1>1, <2>1, <2>5, <2>6, <2>7
<1>5. ASSUME NEW s \in Slots, Plan(s)
      PROVE  IssueInv'
    <2>1. PICK code \in ExitCodes(Env(s)) :
            job' = IF FailsJob(code) THEN Advanced(s)
                   ELSE [job EXCEPT ![s].step = "list", ![s].code = code]
        BY <1>5 DEF Plan
    <2>2. job[s].step = "plan" /\ issues' = issues
        BY <1>5 DEF Plan
    <2>3. CASE FailsJob(code)
        BY <1>3, <2>1, <2>2, <2>3
    <2>4. CASE ~ FailsJob(code)
        <3>1. code \in Nat
            <4>1. Killed \subseteq Nat
                BY DriftAssumption
            <4>. QED
                BY <4>1 DEF ExitCodes
        <3>2. job' = [job EXCEPT ![s] = [@ EXCEPT !.step = "list", !.code = code]]
            BY <1>t, <2>1, <2>4
        <3>3. [job[s] EXCEPT !.step = "list", !.code = code] \in Jobs
            BY <1>t, <3>1 DEF Jobs
        <3>4. /\ job' \in [Slots -> Jobs]
              /\ job'[s].step = "list" /\ job'[s].at = job[s].at
              /\ \A t \in Slots \ {s} : job'[t] = job[t]
            BY <1>t, <3>2, <3>3 DEF Jobs
        <3>5. \A t \in Slots : job'[t].step # "idle" =>
                job'[t].at \in 1 .. Len(Matrix)
            BY <1>i, <2>2, <3>4 DEF TypeOK
        <3>6. (Alone /\ ListedStill)'
            BY <2>2, <3>4, RunKept
        <3>. QED
            BY <1>1, <2>2, <3>4, <3>5, <3>6
    <2>. QED
        BY <2>3, <2>4
<1>6. ASSUME NEW s \in Slots, List(s)
      PROVE  IssueInv'
    <2> DEFINE found == Env(s) \in ToSet(FirstPage)
    <2>1. /\ job' = [job EXCEPT ![s].step = "act", ![s].existing = found]
          /\ job[s].step = "list" /\ issues' = issues
        BY <1>6 DEF List
    <2>2. found <=> Open(Env(s))
        BY <1>t, FitOnPage, PageTells
    <2> HIDE DEF found
    <2>3. found \in BOOLEAN
        BY DEF found
    <2>4. job' = [job EXCEPT ![s] = [@ EXCEPT !.step = "act", !.existing = found]]
        BY <1>t, <2>1
    <2>5. [job[s] EXCEPT !.step = "act", !.existing = found] \in Jobs
        BY <1>t, <2>3 DEF Jobs
    <2>6. /\ job' \in [Slots -> Jobs]
          /\ job'[s].at = job[s].at /\ job'[s].existing = found
          /\ \A t \in Slots \ {s} : job'[t] = job[t]
        BY <1>t, <2>4, <2>5 DEF Jobs
    <2>7. Env(s)' = Env(s)
        BY <2>6 DEF Env
    <2>8. \A t \in Slots : job'[t].step # "idle" =>
            job'[t].at \in 1 .. Len(Matrix)
        BY <1>i, <2>1, <2>6 DEF TypeOK
    <2>9. Open(Env(s))' <=> Open(Env(s))
        BY <2>1, <2>7 DEF Open, Titled
    <2>10. (Alone /\ ListedStill)'
        BY <2>1, <2>2, <2>6, <2>9, RunKept
    <2>. QED
        BY <1>1, <2>1, <2>6, <2>8, <2>10
<1>7. ASSUME NEW s \in Slots, Close(s)
      PROVE  IssueInv'
    <2>1. /\ job' = Advanced(s) /\ job[s].step = "act"
          /\ issues' \in Without(Env(s))
        BY <1>7 DEF Close
    <2>2. /\ job' \in [Slots -> Jobs]
          /\ \A t \in Slots : job'[t].step # "idle" =>
                job'[t].at \in 1 .. Len(Matrix)
          /\ job'[s].step \in {"idle", "plan"}
          /\ \A t \in Slots \ {s} : job'[t] = job[t]
        BY <1>i, <2>1, AdvancedTyped
    <2>3. (Alone /\ ListedStill)'
        BY <2>1, <2>2, RunKept
    <2>4. issues' \in Seq(Names) /\ (FewOthers /\ AtMostOneIssue)'
        BY <1>o, <2>1, CloseKept
    <2>. QED
        BY <2>2, <2>3, <2>4 DEF IssueInv, TypeOK
<1>8. ASSUME NEW s \in Slots, Create(s)
      PROVE  IssueInv'
    <2>1. /\ job' = Advanced(s) /\ job[s].step = "act"
          /\ issues' = Append(issues, Env(s)) /\ ~ job[s].existing
        BY <1>8 DEF Create
    <2>2. /\ job' \in [Slots -> Jobs]
          /\ \A t \in Slots : job'[t].step # "idle" =>
                job'[t].at \in 1 .. Len(Matrix)
          /\ job'[s].step \in {"idle", "plan"}
          /\ \A t \in Slots \ {s} : job'[t] = job[t]
        BY <1>i, <2>1, AdvancedTyped
    <2>3. (Alone /\ ListedStill)'
        BY <2>1, <2>2, RunKept
    <2>4. ~ Open(Env(s)) /\ Env(s) \in Names /\ Env(s) # "other"
        BY <1>i, <1>o, <2>1 DEF ListedStill
    <2>5. /\ issues' \in Seq(Names) /\ Len(issues') = Len(issues) + 1
          /\ DOMAIN issues = 1 .. Len(issues) /\ Len(issues) \in Nat
          /\ DOMAIN issues' = 1 .. Len(issues) + 1
          /\ \A i \in 1 .. Len(issues) : issues'[i] = issues[i]
          /\ issues'[Len(issues) + 1] = Env(s)
        BY <1>t, <2>1, <2>4
    <2>6. Titled("other")' = Titled("other")
        BY <2>4, <2>5 DEF Titled
    <2>7. AtMostOneIssue'
        <3> SUFFICES ASSUME NEW i \in DOMAIN issues', NEW j \in DOMAIN issues',
                            issues'[i] = issues'[j], issues'[i] # "other"
                     PROVE  i = j
            BY DEF AtMostOneIssue
        <3>1. \A k \in 1 .. Len(issues) : issues'[k] # Env(s)
            BY <2>4, <2>5 DEF Open, Titled
        <3>2. CASE i \in 1 .. Len(issues) /\ j \in 1 .. Len(issues)
            BY <1>i, <2>5, <3>2 DEF AtMostOneIssue
        <3>3. CASE i = Len(issues) + 1 \/ j = Len(issues) + 1
            BY <2>5, <3>1, <3>3
        <3>. QED
            BY <2>5, <3>2, <3>3
    <2>. QED
        BY <1>i, <2>2, <2>3, <2>5, <2>6, <2>7 DEF IssueInv, TypeOK, FewOthers
<1>9. ASSUME NEW s \in Slots, Leave(s) \/ ScriptFails(s)
      PROVE  IssueInv'
    BY <1>3, <1>9 DEF Leave, ScriptFails
<1>10. ASSUME job' = job, issues' \in Seq(Names), (FewOthers /\ AtMostOneIssue)',
              \A e : e # "other" => (Open(e)' <=> Open(e))
       PROVE  IssueInv'
    <2>1. ListedStill'
        BY <1>10, <1>i, <1>o DEF ListedStill, Env
    <2>. QED
        BY <1>10, <1>i, <2>1 DEF IssueInv, TypeOK, Alone
<1>11. CASE OtherOpened
    <2>1. issues' = Append(issues, "other") /\ job' = job
        BY <1>11 DEF OtherOpened
    <2>2. /\ issues' \in Seq(Names) /\ Len(issues') = Len(issues) + 1
          /\ DOMAIN issues = 1 .. Len(issues) /\ Len(issues) \in Nat
          /\ DOMAIN issues' = 1 .. Len(issues) + 1
          /\ \A i \in 1 .. Len(issues) : issues'[i] = issues[i]
          /\ issues'[Len(issues) + 1] = "other"
        BY <1>t, <2>1 DEF Names
    <2>3. FewOthers'
        <3>1. Titled("other")' = Titled("other") \cup {Len(issues) + 1}
            BY <2>2 DEF Titled
        <3>2. IsFiniteSet(Titled("other"))
            <4>1. Titled("other") \in SUBSET (1 .. Len(issues))
                BY <2>2 DEF Titled
            <4>. QED
                BY <2>2, <4>1, UpTo, FS_Subset
        <3>3. Cardinality(Titled("other")') <= Cardinality(Titled("other")) + 1
            BY <3>1, <3>2, FS_AddElement, FS_CardinalityType
        <3>4. Cardinality(Titled("other")) < MaxOthers
            BY <1>11 DEF OtherOpened
        <3>5. /\ Cardinality(Titled("other")) \in Nat /\ MaxOthers \in Nat
              /\ Cardinality(Titled("other")') \in Nat
            BY <3>1, <3>2, FS_AddElement, FS_CardinalityType, DriftAssumption
        <3>. QED
            BY <3>3, <3>4, <3>5 DEF FewOthers
    <2>4. AtMostOneIssue'
        BY <1>i, <2>2 DEF AtMostOneIssue
    <2>5. \A e : e # "other" => (Open(e)' <=> Open(e))
        BY <2>2 DEF Open, Titled
    <2>. QED
        BY <1>10, <2>1, <2>2, <2>3, <2>4, <2>5
<1>12. CASE OtherClosed
    <2>1. issues' \in Without("other") /\ job' = job /\ "other" \in Names
        BY <1>12 DEF OtherClosed, Names
    <2>. QED
        BY <1>10, <2>1, CloseKept
<1>13. CASE Trigger
    BY <1>2, <1>13 DEF Trigger
<1>14. ASSUME NEW e \in Envs, Diverge(e) \/ BeginApply(e) \/ EndApply(e)
       PROVE  IssueInv'
    BY <1>2, <1>14 DEF Diverge, BeginApply, EndApply
<1>15. CASE UNCHANGED vars
    BY <1>2, <1>15 DEF vars
<1>. QED
    BY <1>4, <1>5, <1>6, <1>7, <1>8, <1>9, <1>11, <1>12, <1>13, <1>14, <1>15
        DEF Next

\* An environment never has two open issues, however often a run is started,
\* fails or is repeated, while everything that may be open fits on the page that
\* the script lists.
THEOREM AtMostOneIssueCorrect ==
    ASSUME MaxOthers + Len(Matrix) <= PageSize
    PROVE  Spec => []AtMostOneIssue
<1>1. Init => IssueInv
    <2> SUFFICES ASSUME Init
                 PROVE  IssueInv
        OBVIOUS
    <2>1. issues = << >> /\ job = [s \in Slots |-> Idle]
        BY DEF Init
    <2>2. Len(Matrix) \in Nat /\ MaxOthers \in Nat
        BY DriftAssumption
    <2>3. Idle \in Jobs /\ Idle.step = "idle"
        BY <2>2 DEF Idle, Jobs
    <2>4. TypeOK
        BY <2>1, <2>3 DEF TypeOK
    <2>5. Alone /\ ListedStill /\ AtMostOneIssue
        BY <2>1, <2>3 DEF Alone, ListedStill, AtMostOneIssue
    <2>6. FewOthers
        <3>1. Titled("other") = {}
            BY <2>1 DEF Titled
        <3>. QED
            BY <2>2, <3>1, FS_EmptySet DEF FewOthers
    <2>. QED
        BY <2>4, <2>5, <2>6 DEF IssueInv
<1>2. IssueInv /\ [Next]_vars => IssueInv'
    BY IssueStep
<1>3. IssueInv => AtMostOneIssue
    BY DEF IssueInv
<1>. QED
    BY <1>1, <1>2, <1>3, PTL DEF Spec

=============================================================================
