------------------------------ MODULE DriftIssue ------------------------------
(***************************************************************************)
(* The nightly drift workflow (.github/workflows/drift.yml): per           *)
(* environment, one after the other, a plan without the state lock, then a *)
(* script that lists the open issues labelled `drift' and opens, updates or *)
(* closes the one with the environment's title.                            *)
(*                                                                         *)
(* GitHub, AWS and terraform are external: a plan may fail, or be killed,  *)
(* at any time, an API call may fail, people label issues of their own, and *)
(* terraform-apply.yml may run between any two steps.                      *)
(***************************************************************************)
EXTENDS Naturals, FiniteSets, Sequences, SequencesExt

CONSTANTS
    Matrix,     \* the environments, in the order of the matrix
    Slots,      \* workflow runs that GitHub could have running at once
    PageSize,   \* issues on the first page of a list, 30 by default
    MaxOthers,  \* open issues with the label that people may have made
    Killed      \* exit codes of a plan that did not end by itself, e.g. 137

ASSUME DriftAssumption ==
    /\ Matrix \in Seq(ToSet(Matrix)) \ {<< >>} /\ IsInjective(Matrix)
    /\ "other" \notin ToSet(Matrix)
    /\ PageSize \in Nat /\ MaxOthers \in Nat
    /\ Killed \subseteq Nat \ {0, 1, 2}

Envs == ToSet(Matrix)

VARIABLES
    diverged,  \* AWS differs from what is in git
    applying,  \* environments with an apply half way
    pending,   \* a run is queued in the concurrency group
    job,       \* each run: the place in the matrix, the step, what it knows
    issues     \* the open issues with the label, oldest first

vars == <<diverged, applying, pending, job, issues>>

Idle == [at |-> 0, step |-> "idle", code |-> 0, existing |-> FALSE]
Env(s) == Matrix[job[s].at]
Titled(e) == {i \in DOMAIN issues : issues[i] = e}
Open(e) == Titled(e) # {}

\* What is open once one of the issues titled e is closed.
Without(e) == {RemoveAt(issues, i) : i \in Titled(e)}

Init ==
    /\ diverged = [e \in Envs |-> FALSE]
    /\ applying = {}
    /\ pending = FALSE
    /\ job = [s \in Slots |-> Idle]
    /\ issues = << >>

world == <<diverged, applying>>

-----------------------------------------------------------------------------
(* The workflow.                                                           *)

\* schedule or workflow_dispatch; a second run in the queue replaces the first.
Trigger ==
    /\ ~ pending
    /\ pending' = TRUE
    /\ UNCHANGED <<world, job, issues>>

GroupFreeAlways == TRUE  \* mutant: no concurrency group

\* concurrency: group: drift.
GroupFree == \A s \in Slots : job[s] = Idle

Begin(s) ==
    /\ pending
    /\ GroupFree
    /\ job[s] = Idle
    /\ pending' = FALSE
    /\ job' = [job EXCEPT ![s] = [Idle EXCEPT !.at = 1, !.step = "plan"]]
    /\ UNCHANGED <<world, issues>>

\* The next environment, whether this one failed or not (fail-fast: false).
Advanced(s) ==
    [job EXCEPT ![s] =
        IF @.at = Len(Matrix) THEN Idle
        ELSE [Idle EXCEPT !.at = job[s].at + 1, !.step = "plan"]]

\* What a plan may exit with: 2 or 0, either of them when an apply is half way,
\* which it may see without the lock, 1 when terraform or AWS fails.
ExitCodes(e) ==
    (IF diverged[e] \/ e \in applying THEN {2} ELSE {})
        \cup (IF ~ diverged[e] \/ e \in applying THEN {0} ELSE {})
        \cup {1} \cup Killed

FailsJobOnDrift(code) == code # 0  \* mutant: set -e is left on
FailsJob(code) == code = 1

\* The plan ends; 1 fails the job, anything else is handed on.
Plan(s) ==
    /\ job[s].step = "plan"
    /\ \E code \in ExitCodes(Env(s)) :
        job' = IF FailsJob(code) THEN Advanced(s)
               ELSE [job EXCEPT ![s].step = "list", ![s].code = code]
    /\ UNCHANGED <<world, pending, issues>>

\* The first page of the list, newest first.
FirstPage ==
    SubSeq(issues, IF Len(issues) < PageSize THEN 1
                   ELSE Len(issues) - PageSize + 1, Len(issues))

\* listForRepo, then find by title.
List(s) ==
    /\ job[s].step = "list"
    /\ job' = [job EXCEPT ![s].step = "act",
                          ![s].existing = Env(s) \in ToSet(FirstPage)]
    /\ UNCHANGED <<world, pending, issues>>

Drifted(s) == job[s].code = 2

\* createComment and update of the issue that was found, which is still open,
\* for nobody else closes it.
Close(s) ==
    /\ job[s].step = "act"
    /\ ~ Drifted(s)
    /\ job[s].existing
    /\ issues' \in Without(Env(s))
    /\ job' = Advanced(s)
    /\ UNCHANGED <<world, pending>>

\* issues.create.
Create(s) ==
    /\ job[s].step = "act"
    /\ Drifted(s)
    /\ ~ job[s].existing
    /\ issues' = Append(issues, Env(s))
    /\ job' = Advanced(s)
    /\ UNCHANGED <<world, pending>>

\* Nothing to close, or a comment on the issue that is there already.
Leave(s) ==
    /\ job[s].step = "act"
    /\ Drifted(s) <=> job[s].existing
    /\ job' = Advanced(s)
    /\ UNCHANGED <<world, pending, issues>>

\* A call of the script throws, before it has changed anything.
ScriptFails(s) ==
    /\ job[s].step \in {"list", "act"}
    /\ job' = Advanced(s)
    /\ UNCHANGED <<world, pending, issues>>

-----------------------------------------------------------------------------
(* The world.                                                              *)

\* Somebody changes AWS by hand, or git.
Diverge(e) ==
    /\ ~ diverged[e]
    /\ diverged' = [diverged EXCEPT ![e] = TRUE]
    /\ UNCHANGED <<applying, pending, job, issues>>

BeginApply(e) ==
    /\ e \notin applying
    /\ applying' = applying \cup {e}
    /\ UNCHANGED <<diverged, pending, job, issues>>

\* An apply ends, done or partial.
EndApply(e) ==
    /\ e \in applying
    /\ applying' = applying \ {e}
    /\ \E d \in BOOLEAN : diverged' = [diverged EXCEPT ![e] = d]
    /\ UNCHANGED <<pending, job, issues>>

\* People open and close issues of their own with the label.
OtherOpened ==
    /\ Cardinality(Titled("other")) < MaxOthers
    /\ issues' = Append(issues, "other")
    /\ UNCHANGED <<world, pending, job>>

OtherClosed ==
    /\ issues' \in Without("other")
    /\ UNCHANGED <<world, pending, job>>

Next ==
    \/ Trigger
    \/ \E s \in Slots :
        \/ Begin(s) \/ Plan(s) \/ List(s)
        \/ Close(s) \/ Create(s) \/ Leave(s) \/ ScriptFails(s)
    \/ \E e \in Envs : Diverge(e) \/ BeginApply(e) \/ EndApply(e)
    \/ OtherOpened \/ OtherClosed

Spec == Init /\ [][Next]_vars

\* The schedule goes on, runners run; the plan and the script of an environment
\* get through now and then, however often they fail.
FairSpec ==
    /\ Spec
    /\ WF_vars(Trigger)
    /\ WF_vars(\E s \in Slots :
        \/ Begin(s) \/ Plan(s) \/ List(s)
        \/ Close(s) \/ Create(s) \/ Leave(s) \/ ScriptFails(s))
    /\ \A i \in 1..Len(Matrix) :
        /\ SF_vars(\E s \in Slots :
                job[s].at = i /\ Plan(s) /\ job'[s].step = "list")
        /\ SF_vars(\E s \in Slots : job[s].at = i /\ List(s))
        /\ SF_vars(\E s \in Slots :
                job[s].at = i /\ (Close(s) \/ Create(s) \/ Leave(s)))

-----------------------------------------------------------------------------
(* Properties.                                                             *)

\* "open or update": an environment never has two open issues, although the
\* script lists, decides and creates in separate calls, and runs may be started
\* while one is running (drift.yml:17-31, 79-115).
AtMostOneIssue ==
    \A i, j \in DOMAIN issues :
        issues[i] = issues[j] /\ issues[i] # "other" => i = j

\* Drift that stays is reported, and a report that is no longer true goes away,
\* although nights fail, plans see applies half way and people use the label;
\* but only once no plan is killed any more, for a plan that is killed passes
\* for a clean one and closes the issue (drift.yml:58-64, 79-115).
Settled(e, drifts) ==
    /\ diverged[e] = drifts
    /\ e \notin applying
    /\ \A s \in Slots : job[s].code \notin Killed

LastingDriftReported ==
    \A e \in Envs :
        /\ <>[]Settled(e, TRUE) => <>[]Open(e)
        /\ <>[]Settled(e, FALSE) => <>[] ~ Open(e)
=============================================================================
