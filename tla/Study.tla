-------------------------------- MODULE Study --------------------------------
(***************************************************************************)
(* The workflow point5-study.yml: pushes to the branch ml-study, the runs   *)
(* they start, runs that are dispatched or started again, and the commits   *)
(* that the runs push to the same branch.  Each run is a place of Campaign; *)
(* nothing keeps two runs from overlapping.                                 *)
(*                                                                          *)
(* The branch is a sequence of commits: "code", or the run whose evidence   *)
(* was committed.  Evidence is under paths-ignore and starts no run.        *)
(***************************************************************************)
EXTENDS Campaign, FiniteSets

CONSTANT MaxCommits   \* bound: commits that are pushed by people

ASSUME StudyAssumption == "code" \notin Runners /\ MaxCommits \in Nat

VARIABLES
    branch,
    base      \* the commit that each run has checked out

vars == <<places, branch, base>>

StudyInit ==
    /\ CampaignInit
    /\ branch = <<>> /\ base = [p \in Runners |-> 0]

\* The commits of code up to commit i.
CodeUpTo(i) == {k \in 1..i : branch[k] = "code"}

-----------------------------------------------------------------------------
Begun(p, commit) ==
    /\ at[p] = "free" /\ Go(p, "prepare")
    /\ base' = [base EXCEPT ![p] = commit]
    /\ UNCHANGED <<tries, queue, ended, files, loose, opened, breaks>>

PushCode(p) ==
    /\ Cardinality(CodeUpTo(Len(branch))) < MaxCommits
    /\ branch' = Append(branch, "code")
    /\ Begun(p, Len(branch) + 1)

Dispatch(p) ==
    /\ branch # <<>>
    /\ Begun(p, Len(branch))
    /\ UNCHANGED branch

RunAgain(p) ==
    /\ \E q \in Runners : at[q] \in {"failed", "refused"} /\ Begun(p, base[q])
    /\ UNCHANGED branch

-----------------------------------------------------------------------------
(* The rows of final-results.csv *)

Main == "main_90_complete_or_imputed"

\* EXPERIMENT_MATRIX: what the handoff says an experiment is about (consumption_only is W0, and
\* coverage_gte_90pct is the campaign's main profile).
Entry(mode, algorithm, profile) == [mode |-> mode, algorithm |-> algorithm, profile |-> profile]

Matrix ==
    [E00 |-> Entry("W0", "seasonal_naive_24", Main), E01 |-> Entry("W0", "seasonal_naive_168", Main),
     E10 |-> Entry("W0", "ridge", Main), E20 |-> Entry("W1", "ridge", Main),
     E11 |-> Entry("W0", "random_forest", Main), E21 |-> Entry("W1", "random_forest", Main),
     E12 |-> Entry("W0", "hist_gradient_boosting", Main),
     E22 |-> Entry("W1", "hist_gradient_boosting", Main),
     E30 |-> Entry("W0", "selected", "complete_only"),
     E31 |-> Entry("W0", "selected", "coverage_gte_80pct"),
     E32 |-> Entry("W0", "selected", Main)]

\* select_recommended sees the best configuration of each W0 algorithm but the diagnostic.
Candidates == {e \in DOMAIN Matrix : Matrix[e].mode = "W0" /\ Matrix[e].algorithm # "selected"} \ {"E01"}

\* CvResult: the folds of one matrix, and what they are said to be of.
CvResult(mode, profile, matrix) == [mode |-> mode, profile |-> profile, folds |-> matrix]

EvaluateW0(matrix) == CvResult("W0", Main, matrix)

EvaluateW1(matrix) == CvResult("W1", Main, matrix)

\* _install_acceleration puts these two in their places.
ThreadedW0(matrix) == CvResult("W0", Main, matrix)

ThreadedW1(matrix) == CvResult("W1", Main, matrix)

\* _main_matrix, or the _matrix_for_profile of a sensitivity.
MatrixOf(e) == CASE e = "E30" -> "complete_only" [] e = "E31" -> "coverage_gte_80pct" [] OTHER -> Main

Result(e, threaded) ==
    CASE e = "E32" -> CvResult("W0", Main, Main)
      [] Matrix[e].mode = "W1" -> IF threaded THEN ThreadedW1(MatrixOf(e)) ELSE EvaluateW1(MatrixOf(e))
      [] OTHER -> IF threaded THEN ThreadedW0(MatrixOf(e)) ELSE EvaluateW0(MatrixOf(e))

\* A row is recommended by its experiment; the final test is asked for the daily baseline, the
\* selected experiment and, if there is one, the same algorithm with weather.
ResultRow(e, selected, threaded) ==
    [result |-> Result(e, threaded), recommended |-> e = selected,
     tested |-> \/ e \in {"E00", selected}
                \/ Matrix[e].mode = "W1" /\ Matrix[e].algorithm = Matrix[selected].algorithm]

ResultRows(selected, threaded) == [e \in DOMAIN Matrix |-> ResultRow(e, selected, threaded)]

-----------------------------------------------------------------------------
\* "Verify required Point-5 evidence outputs": all are files, some are read, and the rows
\* are counted.
Complete(p) ==
    /\ \A f \in Outputs : files[p][f] # 0
    /\ \A f \in {"manifest", "copies", "tables"} : Readable(p, f)
    /\ \A selected \in Candidates :
          Cardinality({e \in DOMAIN Matrix : ResultRows(selected, TRUE)[e].recommended}) = 1

Check(p) ==
    /\ at[p] = "check"
    /\ Go(p, IF Complete(p) THEN "commit" ELSE Stopped(p))
    /\ UNCHANGED <<tries, queue, ended, files, loose, opened, breaks, branch, base>>

\* Faulty variant: git diff without --cached sees no file that is new.
Differs_Tracked(p) == \E i \in 1..base[p] : branch[i] # "code"

\* The manifest holds the time it was generated at.
Differs(p) == TRUE

Commit(p) ==
    /\ at[p] = "commit"
    /\ Go(p, IF Differs(p) THEN "push" ELSE "done")
    /\ UNCHANGED <<tries, queue, ended, files, loose, opened, breaks, branch, base>>

\* Faulty variant: git push --force-with-lease after a pull.
MayPush_Rebased(p) == TRUE

\* git refuses a push that is no fast-forward.
MayPush(p) == Len(branch) = base[p]

PushEvidence(p) ==
    /\ at[p] = "push"
    /\ \/ MayPush(p) /\ branch' = Append(branch, p) /\ Go(p, "done")
       \/ ~MayPush(p) /\ UNCHANGED branch /\ Go(p, "refused")
    /\ UNCHANGED <<tries, queue, ended, files, loose, opened, breaks, base>>

RunnerStep(p) ==
    \/ ScriptStep(p) /\ UNCHANGED <<branch, base>>
    \/ Check(p) \/ Commit(p) \/ PushEvidence(p)

Next ==
    \/ \E p \in Runners : PushCode(p) \/ Dispatch(p) \/ RunAgain(p) \/ RunnerStep(p)
    \/ \E p \in Directories : ScriptStep(p) /\ UNCHANGED <<branch, base>>
    \/ \E p \in Places : (Break(p) \/ LosePower(p)) /\ UNCHANGED <<branch, base>>

StudySpec == StudyInit /\ [][Next]_vars

-----------------------------------------------------------------------------
(* Properties *)

(* Evidence on the branch is of one campaign, that ran to its end on the version its       *)
(* handoff is bound to and with the weather its metadata describe: no error of a script is *)
(* passed over on the way to the commit.                                                   *)
RecordedEvidenceIsWhole ==
    \A p \in Runners :
        (\E i \in DOMAIN branch : branch[i] = p) =>
            /\ \A f \in Outputs : files[p][f] = Try(p)
            /\ Try(p) \in opened[p]
            /\ Bound(p) /\ files[p]["weather"] = files[p]["metadata"]

(* Evidence comes right after the commit it was made from: however runs and pushes         *)
(* overlap, no code is between the code that a run has checked out and what it records.    *)
EvidenceFollowsItsCode ==
    \A i \in DOMAIN branch : branch[i] \in Runners => base[branch[i]] = i - 1

EvidenceOf(code) == {j \in DOMAIN branch : branch[j] \in Runners /\ CodeUpTo(base[branch[j]]) = code}

(* No run ends in vain unless it breaks: when a run has pushed its evidence, or git has     *)
(* refused it, the code that it studied has its evidence on the branch, or is no longer    *)
(* the newest.  Two runs of one commit may refuse each other's push, but not both.         *)
PushesAreStudied ==
    \A p \in Runners :
        at[p] \in {"done", "refused"} =>
            \/ EvidenceOf(CodeUpTo(base[p])) # {}
            \/ \E k \in CodeUpTo(Len(branch)) : k > base[p]

(* generate_point5_handoff.py, lines 98-110: E30 and E31 are about the quality profiles     *)
(* complete_only and coverage_gte_80pct.  The rows that are recorded of them say so, as     *)
(* their folds are of such hours.                                                           *)
ResultsNameTheirProfile ==
    \A p \in Places : Readable(p, "tables") =>
        \A selected \in Candidates, threaded \in BOOLEAN : \A e \in DOMAIN Matrix :
            LET result == ResultRows(selected, threaded)[e].result
            IN  result.folds = Matrix[e].profile /\ result.profile = result.folds
=============================================================================
