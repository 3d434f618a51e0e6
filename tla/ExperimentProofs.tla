-------------------------- MODULE ExperimentProofs --------------------------
(***************************************************************************)
(* Experiments and their forecasts on the workers of JobWorker, for any     *)
(* number of jobs, workers, algorithms, attempts, crashes and calls.        *)
(***************************************************************************)
EXTENDS Forecasts, JobWorkerProofs, SelectionProofs

Sole(S) == \A a, b \in S : a = b

\* One experiment and its model runs, whoever wrote them.
Sound(e, m) ==
    /\ e \in ExperimentRow /\ m \in [Algorithms -> ModelRow]
    /\ \A a \in Algorithms : m[a].tested => m[a].recommended
    /\ Sole({a \in Algorithms : m[a].recommended})
    /\ e.opened <=> \E a \in Algorithms : m[a].recommended

\* A handler's place and its local variables.
Able(s, k) ==
    /\ s \in Steps /\ k \in Work
    /\ Sole(k.current)
    /\ s = "open_final_test" => k.current # {}

\* What a step of w's handler leaves alone: everything of others.
OnlyHere(w, j) ==
    /\ experiment' = [experiment EXCEPT ![j] = experiment'[j]]
    /\ models' = [models EXCEPT ![j] = models'[j]]
    /\ step' = [step EXCEPT ![w] = step'[w]]
    /\ work' = [work EXCEPT ![w] = work'[w]]

HandlerShape ==
    /\ experiment \in [Jobs -> ExperimentRow] /\ models \in [Jobs -> [Algorithms -> ModelRow]]
    /\ step \in [Workers -> Steps] /\ work \in [Workers -> Work]

\* What a handler's step can change.
LEMMA Frame ==
  ASSUME HandlerShape, NEW w \in Workers, NEW j \in Jobs, proc[w].job = j, HandlerStep(w)
  PROVE  OnlyHere(w, j)
<1> USE DEF OnlyHere, HandlerShape, Continue, SetStatus, SetModels, Models, Row
<1>1. CASE Prepare(w) \/ NotPreparable(w) \/ Load(w) \/ Evaluate(w) \/ Select(w)
  BY <1>1 DEF Prepare, NotPreparable, Load, Evaluate, Select, data
<1>2. CASE SaveCvResult(w) \/ FailModel(w) \/ OpenFinalTest(w) \/ OpeningRefused(w)
  BY <1>2 DEF SaveCvResult, FailModel, OpenFinalTest, OpeningRefused, data
<1>3. CASE SaveBundle(w) \/ SaveFinalResult(w) \/ Complete(w) \/ MarkFailed(w) \/ MarkCancelled(w)
           \/ CallFails(w)
  BY <1>3
     DEF SaveBundle, SaveFinalResult, Complete, MarkFailed, MarkCancelled, Mark, CallFails, data
<1>4. CASE Report(w) \/ ReportFull(w)
  BY <1>4 DEF Report, ReportFull, Reported, data
<1> QED  BY <1>1, <1>2, <1>3, <1>4 DEF HandlerStep

\* A handler's step leaves a sound experiment, keeps an opened one's recommendation, and never
\* takes a bundle away.
Improved(j) ==
    /\ Sound(experiment'[j], models'[j])
    /\ \A a \in Algorithms :
          /\ experiment[j].opened => models'[j][a].recommended = models[j][a].recommended
          /\ models[j][a].bundle # 0 => models'[j][a].bundle # 0

\* Steps that leave the model runs alone.
LEMMA RowsUntouched ==
  ASSUME NEW j \in Jobs, Sound(experiment[j], models[j]),
         models'[j] = models[j],
         experiment'[j] \in ExperimentRow, experiment'[j].opened = experiment[j].opened
  PROVE  Improved(j)
BY DEF Improved, Sound

\* What save_final_result makes of the recommended model run.
LEMMA FinalRow ==
  ASSUME NEW row \in ModelRow, NEW n \in 1..AttemptLimit, AttemptLimit \in Nat
  PROVE  LET final == [row EXCEPT !.status = "completed", !.tested = TRUE, !.bundle = n]
         IN  /\ final \in ModelRow /\ final.recommended = row.recommended
             /\ final.status = "completed" /\ final.tested = TRUE
             /\ final.bundle = n /\ n # 0
<1> DEFINE r1 == [row EXCEPT !.status = "completed"]
           r2 == [r1 EXCEPT !.tested = TRUE]
           r3 == [r2 EXCEPT !.bundle = n]
<1>1. r1 \in ModelRow /\ r1.recommended = row.recommended /\ r1.status = "completed"
  BY DEF ModelRow
<1>2. /\ r2 \in ModelRow /\ r2.recommended = row.recommended
      /\ r2.status = "completed" /\ r2.tested = TRUE
  <2> HIDE DEF r1
  <2> QED  BY <1>1 DEF ModelRow
<1>3. n \in 0..AttemptLimit /\ n # 0
  OBVIOUS
<1>4. /\ r3 \in ModelRow /\ r3.recommended = row.recommended
      /\ r3.status = "completed" /\ r3.tested = TRUE /\ r3.bundle = n
  <2> HIDE DEF r2
  <2> QED  BY <1>2, <1>3, Zenon DEF ModelRow
<1>5. [row EXCEPT !.status = "completed", !.tested = TRUE, !.bundle = n] = r3
  OBVIOUS
<1> QED  BY <1>3, <1>4, <1>5

\* Every step of a handler leaves its experiment sound and knows where it is.
LEMMA StepIsSound ==
  ASSUME HandlerShape, NEW w \in Workers, NEW j \in Jobs, proc[w].job = j,
         proc[w].attempt \in 1..AttemptLimit, AttemptLimit \in Nat,
         Sound(experiment[j], models[j]), Able(step[w], work[w]), HandlerStep(w)
  PROVE  Improved(j) /\ Able(step'[w], work'[w])
<1> DEFINE e == experiment[j]  m == models[j]  k == work[w]
<1>1. /\ e \in ExperimentRow /\ m \in [Algorithms -> ModelRow] /\ k \in Work
      /\ \A a \in Algorithms : m[a] \in ModelRow
  BY DEF Sound, Able
<1>2. CASE \/ Prepare(w) \/ NotPreparable(w) \/ Load(w) \/ OpeningRefused(w) \/ SaveBundle(w)
           \/ MarkFailed(w) \/ MarkCancelled(w) \/ CallFails(w) \/ Report(w) \/ ReportFull(w)
           \/ Complete(w)
  <2>1. /\ models'[j] = m
        /\ experiment'[j] \in ExperimentRow /\ experiment'[j].opened = e.opened
    <3>1. CASE Prepare(w) \/ MarkFailed(w) \/ MarkCancelled(w) \/ Complete(w)
      BY <1>1, <3>1
         DEF HandlerShape, Prepare, MarkFailed, MarkCancelled, Mark, Complete, SetStatus,
             ExperimentRow, ExperimentStatuses
    <3>2. CASE ~(Prepare(w) \/ MarkFailed(w) \/ MarkCancelled(w) \/ Complete(w))
      BY <1>1, <1>2, <3>2 DEF NotPreparable, Load, OpeningRefused, SaveBundle, CallFails, Report,
             ReportFull, data
    <3> QED  BY <3>1, <3>2
  <2>2. Able(step'[w], work'[w])
    <3>1. /\ step'[w] \in Steps \ {"open_final_test"}
      BY <1>2
         DEF HandlerShape, Prepare, NotPreparable, Load, OpeningRefused, SaveBundle, MarkFailed,
             MarkCancelled, Mark, CallFails, Report, ReportFull, Reported, Complete, Continue, Steps
    <3>2. work'[w] \in Work /\ work'[w].current = k.current
      BY <1>1, <1>2
         DEF HandlerShape, Prepare, NotPreparable, Load, OpeningRefused, SaveBundle, MarkFailed,
             MarkCancelled, Mark, CallFails, Report, ReportFull, Reported, Complete, Work
    <3> QED  BY <3>1, <3>2 DEF Able
  <2> QED  BY <2>1, <2>2, RowsUntouched
<1>3. CASE Evaluate(w)
  <2>1. models' = models /\ experiment' = experiment
    BY <1>3 DEF Evaluate, data
  <2>2. step'[w] \in Steps \ {"open_final_test"}
    BY <1>3 DEF Evaluate, Continue, HandlerShape, Steps
  <2>3. work'[w] \in Work /\ Sole(work'[w].current)
    <3>1. CASE proc[w].seen
      BY <1>3, <3>1 DEF Evaluate, Able
    <3>2. CASE ~proc[w].seen
      <4>1. PICK a \in k.left :
               work' = [work EXCEPT ![w].left = @ \ {a}, ![w].current = {a}]
        BY <1>3, <3>2 DEF Evaluate
      <4> QED  BY <1>1, <4>1 DEF HandlerShape, Work, Sole
    <3> QED  BY <3>1, <3>2
  <2> QED  BY <2>1, <2>2, <2>3, RowsUntouched DEF Able, Sound
<1>4. CASE Select(w)
  <2>1. models' = models /\ experiment' = experiment
    BY <1>4 DEF Select, data
  <2>2. CASE k.successful # {} /\ ~proc[w].seen
    <3>1. PICK metrics \in [k.successful -> Metrics] :
             work' = [work EXCEPT ![w].current = Recommended(metrics)]
      BY <1>4, <2>2 DEF Select
    <3>2. PICK a \in k.successful : Recommended(metrics) = {a}
      BY <1>1, <2>2, OneIsRecommended, ExperimentAssumption DEF ExperimentAssumption, Work
    <3>3. work'[w] = [k EXCEPT !.current = {a}]
      BY <3>1, <3>2 DEF HandlerShape
    <3>4. step'[w] \in Steps
      BY <1>4 DEF Select, Continue, HandlerShape, Steps
    <3> QED  BY <1>1, <2>1, <3>3, <3>4, RowsUntouched DEF Able, Sound, Work, Sole
  <2>3. CASE ~(k.successful # {} /\ ~proc[w].seen)
    <3>1. work' = work /\ step'[w] \in Steps \ {"open_final_test"}
      BY <1>4, <2>3 DEF Select, Continue, HandlerShape, Steps
    <3> QED  BY <2>1, <3>1, RowsUntouched DEF Able, Sound
  <2> QED  BY <2>2, <2>3
<1>5. CASE SaveCvResult(w) \/ FailModel(w)
  <2>1. experiment' = experiment /\ step'[w] = "report"
    BY <1>5 DEF SaveCvResult, FailModel, Continue, HandlerShape
  <2>2. work'[w] \in Work /\ work'[w].current = k.current
    <3>1. work'[w] = [k EXCEPT !.successful = @ \cup k.current] \/ work' = work
      BY <1>5 DEF SaveCvResult, FailModel, HandlerShape
    <3> QED  BY <1>1, <3>1 DEF Work
  <2>3. \/ models'[j] = [a \in Algorithms |-> IF a \in k.current THEN Scored(m[a]) ELSE m[a]]
        \/ models'[j] = [a \in Algorithms |->
                           IF a \in k.current THEN WithStatus(m[a], "failed") ELSE m[a]]
    BY <1>5 DEF SaveCvResult, FailModel, SetModels, Models, AsItIs, HandlerShape
  <2>4. ASSUME NEW a \in Algorithms
        PROVE  /\ models'[j][a] \in ModelRow
               /\ models'[j][a].recommended = m[a].recommended
               /\ models'[j][a].bundle = m[a].bundle
               /\ models'[j][a].tested => m[a].tested
    <3>1. models'[j][a] \in {m[a], Scored(m[a]), WithStatus(m[a], "failed")}
      BY <2>3
    <3>2. m[a] \in ModelRow
      BY <1>1
    <3> QED  BY <3>1, <3>2 DEF Scored, WithStatus, ModelRow
  <2>5. models'[j] \in [Algorithms -> ModelRow]
    BY <2>3, <2>4
  <2> QED  BY <2>1, <2>2, <2>4, <2>5 DEF Improved, Sound, Able, Sole, Steps
<1>6. CASE OpenFinalTest(w)
  <2>1. /\ step'[w] = "save_bundle" /\ work' = work
        /\ experiment'[j] = [e EXCEPT !.opened = TRUE]
    BY <1>6 DEF OpenFinalTest, Continue, HandlerShape
  <2>2. PICK a \in Algorithms : k.current = {a}
    BY <1>1, <1>6 DEF OpenFinalTest, InHandlerAt, Able, Sole, Work
  <2>3. \A b \in Algorithms \ {a} : ~m[b].recommended
    BY <1>6, <2>2 DEF OpenFinalTest, MayRecommend, Models
  <2>4. models'[j] = [b \in Algorithms |->
                        IF b = a THEN [m[a] EXCEPT !.status = "fitting_final", !.recommended = TRUE]
                        ELSE PassedOver(m[b])]
    BY <1>6, <2>2 DEF OpenFinalTest, SetModels, Models, HandlerShape
  <2>5. ASSUME NEW b \in Algorithms, b # a
        PROVE  /\ models'[j][b] \in ModelRow
               /\ models'[j][b].recommended = m[b].recommended
               /\ models'[j][b].tested = m[b].tested
               /\ models'[j][b].bundle = m[b].bundle
    <3>1. models'[j][b] = PassedOver(m[b]) /\ m[b] \in ModelRow
      BY <1>1, <2>4, <2>5
    <3> QED  BY <3>1 DEF PassedOver, WithStatus, ModelRow
  <2>6. /\ models'[j][a] \in ModelRow
        /\ models'[j][a].recommended = TRUE /\ models'[j][a].bundle = m[a].bundle
    <3>1. /\ models'[j][a] = [m[a] EXCEPT !.status = "fitting_final", !.recommended = TRUE]
          /\ m[a] \in ModelRow
      BY <1>1, <2>4
    <3> QED  BY <3>1 DEF ModelRow
  <2>7. e.opened => m[a].recommended = TRUE
    <3>1. ASSUME e.opened PROVE \E b \in Algorithms : m[b].recommended
      BY <3>1 DEF Sound
    <3>2. m[a].recommended \in BOOLEAN
      BY <1>1 DEF ModelRow
    <3> QED  BY <2>3, <3>1, <3>2
  <2>8. experiment'[j] \in ExperimentRow /\ experiment'[j].opened = TRUE
    BY <1>1, <2>1 DEF ExperimentRow
  <2>9. models'[j] \in [Algorithms -> ModelRow]
    BY <2>4, <2>5, <2>6
  <2>10. Improved(j)
    <3>1. \A b \in Algorithms : models'[j][b].tested => models'[j][b].recommended
      BY <2>5, <2>6 DEF Sound
    <3>2. Sole({b \in Algorithms : models'[j][b].recommended})
      BY <2>3, <2>5 DEF Sole
    <3>3. \E b \in Algorithms : models'[j][b].recommended
      BY <2>6
    <3> QED  BY <2>5, <2>6, <2>7, <2>8, <2>9, <3>1, <3>2, <3>3 DEF Improved, Sound
  <2> QED  BY <2>1, <2>10 DEF Able, Steps
<1>7. CASE SaveFinalResult(w)
  <2>1. experiment' = experiment /\ work' = work /\ step'[w] \in Steps \ {"open_final_test"}
    BY <1>7 DEF SaveFinalResult, Continue, HandlerShape, Steps
  <2>2. CASE \A a \in k.current : m[a].recommended /\ ~m[a].tested
    <3> DEFINE Final(a) == [m[a] EXCEPT !.status = "completed", !.tested = TRUE,
                                        !.bundle = proc[w].attempt]
    <3>1. models'[j] = [a \in Algorithms |-> IF a \in k.current THEN Final(a) ELSE m[a]]
      <4>1. models' = [models EXCEPT ![j] =
                         [a \in Algorithms |-> IF a \in k.current THEN Final(a) ELSE m[a]]]
        BY <1>7, <2>2 DEF SaveFinalResult, SetModels, Models, AsItIs
      <4> HIDE DEF Final
      <4> QED  BY <4>1 DEF HandlerShape
    <3>2. ASSUME NEW a \in Algorithms
          PROVE  /\ models'[j][a] \in ModelRow
                 /\ models'[j][a].recommended = m[a].recommended
                 /\ models'[j][a].tested => m[a].recommended
                 /\ (m[a].bundle # 0 => models'[j][a].bundle # 0)
      <4>1. m[a] \in ModelRow /\ (m[a].tested => m[a].recommended)
        BY <1>1 DEF Sound
      <4>2. CASE a \in k.current
        <5>1. models'[j][a] = Final(a) /\ m[a].recommended
          BY <2>2, <3>1, <4>2
        <5>2. /\ Final(a) \in ModelRow /\ Final(a).recommended = m[a].recommended
              /\ Final(a).bundle = proc[w].attempt /\ proc[w].attempt # 0
          BY <4>1, FinalRow
        <5> HIDE DEF Final
        <5> QED  BY <5>1, <5>2
      <4>3. CASE a \notin k.current
        BY <3>1, <4>1, <4>3
      <4> QED  BY <4>2, <4>3
    <3>3. models'[j] \in [Algorithms -> ModelRow]
      BY <3>1, <3>2
    <3>4. Improved(j)
      BY <2>1, <3>2, <3>3 DEF Improved, Sound, Sole
    <3> QED  BY <2>1, <3>4 DEF Able
  <2>3. CASE ~ \A a \in k.current : m[a].recommended /\ ~m[a].tested
    <3>1. models' = models
      BY <1>7, <2>3 DEF SaveFinalResult, Models
    <3> QED  BY <2>1, <3>1, RowsUntouched DEF Able, Sound
  <2> QED  BY <2>2, <2>3
<1> QED  BY <1>2, <1>3, <1>4, <1>5, <1>6, <1>7 DEF HandlerStep

-----------------------------------------------------------------------------
\* Seen from the queue and its workers.

\* A step of an experiment, of its handler or of a client, is a step of the system.
LEMMA EveryStepIsASystemStep ==
  ASSUME ExperimentNext
  PROVE  SystemNext \/ UNCHANGED systemVars
<1>1. ASSUME NEW w \in Workers, HandlerStep(w) PROVE SystemNext \/ UNCHANGED systemVars
  <2>1. CASE Report(w) \/ ReportFull(w)
    <3>1. 75 \in Reports /\ 100 \in Reports
      BY ExperimentAssumption DEF ExperimentAssumption
    <3> QED  BY <2>1, <3>1 DEF Report, ReportFull, Reported, Local, SystemNext, Handler
  <2>2. CASE ~(Report(w) \/ ReportFull(w))
    BY <1>1, <2>2
       DEF HandlerStep, Prepare, NotPreparable, Load, Evaluate, SaveCvResult, FailModel, Select,
           OpenFinalTest, OpeningRefused, SaveBundle, SaveFinalResult, Complete, MarkFailed,
           MarkCancelled, Mark, CallFails, Local
  <2> QED  BY <2>1, <2>2
<1>2. ASSUME NEW w \in Workers, Around(w) PROVE SystemNext
  <2>1. {"succeed", "fail", "acknowledge_cancellation"} \subseteq Executing
    BY DEF Executing
  <2> QED  BY <1>2, <2>1 DEF Around, Finish, ShellStep, SystemNext, Handler
<1>3. ASSUME NEW j \in Jobs, Stage(j) \/ MarkCancelling(j) \/ CancelJob(j)
      PROVE  SystemNext \/ UNCHANGED systemVars
  <2>1. Staged("experiment", "experiment") \in Requests
    BY ExperimentAssumption DEF ExperimentAssumption
  <2> QED
    BY <1>3, <2>1
       DEF Stage, MarkCancelling, CancelJob, Local, SystemNext, ClientCall, systemVars, vars,
           workerVars
<1>4. ASSUME JobCall \/ TimePasses PROVE SystemNext
  BY <1>4 DEF JobCall, TimePasses, SystemNext, ClientCall
<1> QED  BY <1>1, <1>2, <1>3, <1>4 DEF ExperimentNext

-----------------------------------------------------------------------------
\* Experiments, whatever crashes, stands still or fails.

\* What nobody has staged is blank.
Blank(j) ==
    /\ experiment[j].status = "none" /\ ~experiment[j].opened
    /\ \A a \in Algorithms : models[j][a].bundle = 0

\* The inductive invariant.
XInv ==
    /\ WInv /\ HandlerShape
    /\ \A j \in Jobs : Sound(experiment[j], models[j]) /\ (~Exists(j) => Blank(j))
    /\ \A w \in Workers : Able(step[w], work[w])

\* What a step does to a job's experiment.
Grows(j) ==
    \A a \in Algorithms :
       /\ experiment[j].opened => models'[j][a].recommended = models[j][a].recommended
       /\ models[j][a].bundle # 0 => models'[j][a].bundle # 0

\* Only a running handler takes its steps.
LEMMA InHandler ==
  ASSUME NEW w \in Workers, HandlerStep(w)
  PROVE  proc[w].pc = "handler"
BY DEF HandlerStep, InHandlerAt, Prepare, NotPreparable, Load, Evaluate, SaveCvResult, FailModel,
       Report, Select, OpenFinalTest, OpeningRefused, SaveBundle, SaveFinalResult, Complete,
       ReportFull, MarkFailed, MarkCancelled, CallFails

\* A shell's step leaves the experiments alone.
LEMMA OthersStayAble ==
  ASSUME XInv, NEW w \in Workers, Around(w)
  PROVE  /\ UNCHANGED data /\ HandlerShape'
         /\ \A u \in Workers : Able(step'[u], work'[u])
<1>1. PICK s \in {"idle", "prepare", step[w]} : Continue(w, s)
  BY DEF Around, Finish, ShellStep
<1>2. work' = [work EXCEPT ![w] = IF step'[w] = "idle" THEN NoWork ELSE @] /\ UNCHANGED data
  BY DEF Around
<1>3. NoWork \in Work /\ Sole(NoWork.current)
  BY DEF NoWork, Work, Sole
<1>4. HandlerShape /\ \A u \in Workers : Able(step[u], work[u])
  BY DEF XInv
<1>5. HandlerShape'
  BY <1>1, <1>2, <1>3, <1>4 DEF HandlerShape, Continue, Steps, data
<1>6. ASSUME NEW u \in Workers PROVE Able(step'[u], work'[u])
  <2>1. CASE u # w
    BY <1>1, <1>2, <1>4, <2>1 DEF HandlerShape, Continue
  <2>2. CASE u = w
    <3>1. /\ step'[w] = s /\ work'[w] \in {NoWork, work[w]}
          /\ s = "open_final_test" => work'[w] = work[w]
      BY <1>1, <1>2, <1>4 DEF HandlerShape, Continue
    <3>2. Able(step[w], work[w])
      BY <1>4
    <3> QED  BY <1>1, <1>3, <2>2, <3>1, <3>2 DEF Able, Steps
  <2> QED  BY <2>1, <2>2
<1> QED  BY <1>2, <1>5, <1>6

\* A handler's step, for its own job and for the others.
LEMMA HandlersStaySound ==
  ASSUME XInv, NEW w \in Workers, HandlerStep(w)
  PROVE  /\ HandlerShape'
         /\ \A u \in Workers : Able(step'[u], work'[u])
         /\ \A i \in Jobs : Sound(experiment'[i], models'[i]) /\ Grows(i)
         /\ \A i \in Jobs : ~Exists(i) => experiment'[i] = experiment[i] /\ models'[i] = models[i]
<1>1. PICK j \in Jobs : /\ j = proc[w].job /\ Exists(j)
                        /\ proc[w].attempt \in 1..AttemptLimit /\ AttemptLimit \in Nat
  BY InHandler, HandlersHaveJobs DEF XInv
<1>2. OnlyHere(w, j)
  BY <1>1, Frame DEF XInv
<1>3. Improved(j) /\ Able(step'[w], work'[w])
  BY <1>1, StepIsSound DEF XInv
<1>4. /\ \A i \in Jobs \ {j} : experiment'[i] = experiment[i] /\ models'[i] = models[i]
      /\ \A u \in Workers \ {w} : step'[u] = step[u] /\ work'[u] = work[u]
  BY <1>2 DEF OnlyHere, XInv, HandlerShape
<1>5. HandlerShape'
  BY <1>2, <1>3 DEF OnlyHere, XInv, HandlerShape, Improved, Sound, Able
<1>6. \A u \in Workers : Able(step'[u], work'[u])
  BY <1>3, <1>4 DEF XInv
<1>7. \A i \in Jobs : Sound(experiment'[i], models'[i])
  BY <1>3, <1>4 DEF XInv, Improved
<1>8. \A i \in Jobs : Grows(i)
  BY <1>3, <1>4 DEF Improved, Grows
<1> QED  BY <1>1, <1>4, <1>5, <1>6, <1>7, <1>8

\* A client's call, for its own job and for the others.
LEMMA ClientsStaySound ==
  ASSUME XInv, NEW j \in Jobs, Stage(j) \/ MarkCancelling(j) \/ CancelJob(j)
  PROVE  /\ HandlerShape' /\ step' = step /\ work' = work
         /\ \A i \in Jobs : Sound(experiment'[i], models'[i]) /\ Grows(i)
         /\ \A i \in Jobs \ {j} : experiment'[i] = experiment[i] /\ models'[i] = models[i]
         /\ ~Exists(j) => Exists(j)' \/ Blank(j)'
<1> USE DEF XInv, HandlerShape
<1>1. CASE Stage(j)
  <2> DEFINE row == [NoModel EXCEPT !.status = "pending"]
  <2>1. ~Exists(j) /\ Exists(j)'
    BY <1>1 DEF Stage, Enqueue, Exists, WInv, IInv, Shape
  <2>2. Blank(j) /\ Sound(experiment[j], models[j])
    BY <2>1
  <2>3. /\ experiment' = [experiment EXCEPT ![j].status = "queued"]
        /\ models' = [models EXCEPT ![j] = [a \in Algorithms |-> row]]
        /\ step' = step /\ work' = work
    BY <1>1 DEF Stage
  <2>4. row \in ModelRow /\ row.recommended = FALSE /\ row.tested = FALSE
    <3>1. 0 \in 0..AttemptLimit
      BY QueueAssumption DEF QueueAssumption
    <3>2. NoModel \in ModelRow /\ NoModel.recommended = FALSE /\ NoModel.tested = FALSE
      BY <3>1 DEF NoModel, ModelRow
    <3> QED  BY <3>2 DEF ModelRow
  <2>5. experiment'[j] \in ExperimentRow /\ ~experiment'[j].opened
    BY <2>2, <2>3 DEF Sound, Blank, ExperimentRow, ExperimentStatuses
  <2>6. models'[j] = [a \in Algorithms |-> row]
    BY <2>3
  <2>7. Sound(experiment'[j], models'[j])
    <3> HIDE DEF row
    <3>1. \A a \in Algorithms : models'[j][a].recommended = FALSE /\ models'[j][a].tested = FALSE
      BY <2>4, <2>6
    <3>2. models'[j] \in [Algorithms -> ModelRow]
      BY <2>4, <2>6
    <3> QED  BY <2>5, <3>1, <3>2 DEF Sound, Sole
  <2>8. \A i \in Jobs \ {j} : experiment'[i] = experiment[i] /\ models'[i] = models[i]
    BY <2>3
  <2>9. HandlerShape'
    BY <2>3, <2>5, <2>6, <2>7 DEF Sound
  <2>10. \A i \in Jobs : Grows(i)
    BY <2>2, <2>8 DEF Grows, Blank
  <2> QED  BY <2>1, <2>3, <2>7, <2>8, <2>9, <2>10
<1>2. CASE MarkCancelling(j)
  <2>1. /\ experiment' = [experiment EXCEPT ![j].status = "cancelling"]
        /\ models' = models /\ step' = step /\ work' = work
    BY <1>2 DEF MarkCancelling
  <2>2. experiment'[j] \in ExperimentRow /\ experiment'[j].opened = experiment[j].opened
    BY <2>1 DEF ExperimentRow, ExperimentStatuses
  <2>3. Exists(j)
    BY <1>2 DEF MarkCancelling, Blank
  <2>4. Exists(j)'
    BY <1>2, <2>3 DEF MarkCancelling, Local, systemVars, Exists
  <2>5. \A i \in Jobs \ {j} : experiment'[i] = experiment[i]
    BY <2>1
  <2>6. HandlerShape'
    BY <2>1, <2>2
  <2>7. \A i \in Jobs : Sound(experiment'[i], models'[i]) /\ Grows(i)
    BY <2>1, <2>2, <2>5 DEF Sound, Grows
  <2> QED  BY <2>1, <2>4, <2>5, <2>6, <2>7
<1>3. CASE CancelJob(j)
  BY <1>3 DEF CancelJob, Grows, Blank
<1> QED  BY <1>1, <1>2, <1>3

\* XInv is inductive.
LEMMA XStep ==
  ASSUME XInv, [ForecastsNext]_forecastsVars
  PROVE  XInv' /\ \A j \in Jobs : Grows(j)
<1>1. [SystemNext]_systemVars
  BY EveryStepIsASystemStep DEF ForecastsNext, forecastsVars, experimentVars, handlerVars
<1>2. WInv' /\ [Next]_vars
  BY <1>1, SystemStep DEF XInv
<1>3. \A i \in Jobs : Exists(i) => Exists(i)'
  BY <1>2, RowsStay DEF XInv, WInv
<1>4. CASE UNCHANGED <<step, data, work>>
  BY <1>2, <1>3, <1>4 DEF XInv, HandlerShape, Grows, Blank, data
<1>5. ASSUME NEW w \in Workers, HandlerStep(w) PROVE XInv' /\ \A j \in Jobs : Grows(j)
  <2>1. \A i \in Jobs : ~Exists(i)' => Blank(i)'
    BY <1>3, <1>5, HandlersStaySound DEF XInv, Blank
  <2> QED  BY <1>2, <1>5, <2>1, HandlersStaySound DEF XInv
<1>6. ASSUME NEW w \in Workers, Around(w) PROVE XInv' /\ \A j \in Jobs : Grows(j)
  BY <1>2, <1>3, <1>6, OthersStayAble DEF XInv, Grows, Blank, data
<1>7. ASSUME NEW j \in Jobs, Stage(j) \/ MarkCancelling(j) \/ CancelJob(j)
      PROVE  XInv' /\ \A i \in Jobs : Grows(i)
  <2>1. ASSUME NEW i \in Jobs, ~Exists(i)' PROVE Blank(i)'
    <3>1. ~Exists(i) /\ Blank(i)
      BY <1>3, <2>1 DEF XInv
    <3>2. CASE i = j
      BY <1>7, <2>1, <3>1, <3>2, ClientsStaySound
    <3>3. CASE i # j
      BY <1>7, <3>1, <3>3, ClientsStaySound DEF Blank
    <3> QED  BY <3>2, <3>3
  <2> QED  BY <1>2, <1>7, <2>1, ClientsStaySound DEF XInv
<1>8. JobCall \/ TimePasses => step' = step
  BY DEF JobCall, TimePasses
<1> QED
  BY <1>4, <1>5, <1>6, <1>7, <1>8
     DEF ForecastsNext, ExperimentNext, forecastsVars, experimentVars, handlerVars

\* XInv holds at first.
LEMMA InitIsSound == ForecastsInit => XInv
<1> SUFFICES ASSUME ForecastsInit PROVE XInv
  OBVIOUS
<1>1. WInv
  BY SystemInitInv DEF ForecastsInit, ExperimentInit, HandlerInit
<1>2. NoModel \in ModelRow /\ NoWork \in Work /\ "idle" \in Steps
  BY QueueAssumption DEF NoModel, ModelRow, NoWork, Work, Steps, QueueAssumption
<1>3. [status |-> "none", opened |-> FALSE, manifest |-> 0] \in ExperimentRow
  BY QueueAssumption DEF ExperimentRow, ExperimentStatuses, QueueAssumption
<1>4. HandlerShape
  BY <1>2, <1>3 DEF ForecastsInit, ExperimentInit, HandlerInit, HandlerShape
<1>5. \A j \in Jobs : Sound(experiment[j], models[j]) /\ Blank(j)
  BY <1>2, <1>3 DEF ForecastsInit, ExperimentInit, Sound, Sole, Blank, NoModel
<1>6. \A w \in Workers : Able(step[w], work[w])
  BY <1>2 DEF ForecastsInit, ExperimentInit, HandlerInit, Able, Sole, NoWork
<1> QED  BY <1>1, <1>4, <1>5, <1>6 DEF XInv

\* XInv is an invariant.
THEOREM ExperimentInvariant == ForecastsSpec => []XInv
<1>1. XInv /\ [ForecastsNext]_forecastsVars => XInv'
  BY XStep
<1> QED  BY <1>1, InitIsSound, PTL DEF ForecastsSpec

\* Experiments and forecasts use the queue as JobWorker allows: everything proved about the queue
\* and its workers holds of the jobs behind experiments.
THEOREM ExperimentsImplementSystem == ForecastsSpec => SystemSpec
<1>1. ForecastsInit => SystemInit
  BY DEF ForecastsInit, ExperimentInit, HandlerInit
<1>2. [ForecastsNext]_forecastsVars => [SystemNext]_systemVars
  BY EveryStepIsASystemStep DEF ForecastsNext, forecastsVars, experimentVars, handlerVars
<1> QED  BY <1>1, <1>2, PTL DEF ForecastsSpec, SystemSpec

\* No model run but the recommended one has a final result, and there is one recommendation.
THEOREM OneModelIsTested == ForecastsSpec => []OnlyTheRecommendedIsTested
<1>1. XInv => OnlyTheRecommendedIsTested
  BY DEF XInv, Sound, Sole, OnlyTheRecommendedIsTested
<1> QED  BY <1>1, ExperimentInvariant, PTL

\* No later attempt recommends another model run.
THEOREM RecommendationsStand == ForecastsSpec => RecommendationIsFinal
<1>1. XInv /\ [ForecastsNext]_forecastsVars =>
         [\A j \in Jobs : experiment[j].opened =>
             \A a \in Algorithms : models'[j][a].recommended = models[j][a].recommended
         ]_experimentVars
  BY XStep DEF Grows
<1> QED  BY <1>1, ExperimentInvariant, PTL DEF ForecastsSpec, RecommendationIsFinal

-----------------------------------------------------------------------------
\* Completed experiments, while no process stands still and no queue call fails.

Evaluated == {"selected_parameters", "failed"}

Over == {"completed", "failed"}

\* The whole result of attempt n.
Result(m, n) ==
    /\ n # 0
    /\ \E a \in Algorithms : /\ m[a].recommended /\ m[a].tested
                             /\ m[a].status = "completed" /\ m[a].bundle = n
    /\ \A a \in Algorithms : m[a].status \in Over

Whole(e, m) == e.status = "completed" => e.opened /\ Result(m, e.manifest)

\* Where a handler can be when its experiment is completed.
Ends == {"prepare", "report_full", "mark_failed", "mark_cancelled", "return", "raise",
         "raise_cancelled"}

\* What attempt n has done by the time its handler is at s.
Underway(s, k, e, m, n) ==
    /\ s = "load" => k.left = Algorithms
    /\ s \in {"evaluate", "report"} => \A a \in Algorithms \ k.left : m[a].status \in Evaluated
    /\ s \in {"save_cv", "fail_model"} =>
          \A a \in Algorithms \ (k.left \cup k.current) : m[a].status \in Evaluated
    /\ s = "open_final_test" => \A a \in Algorithms : m[a].status \in Evaluated
    /\ s \in {"save_bundle", "save_final"} =>
          k.current # {} /\ \A a \in Algorithms \ k.current : m[a].status \in Over
    /\ s = "complete" => Result(m, n)
    /\ e.status = "completed" => s \in Ends

\* A handler's step goes on with the attempt, and does nothing to a completed experiment.
LEMMA HandlerGoesOn ==
  ASSUME HandlerShape, NEW w \in Workers, NEW j \in Jobs, proc[w].job = j,
         proc[w].attempt \in 1..AttemptLimit, AttemptLimit \in Nat,
         Sound(experiment[j], models[j]), Able(step[w], work[w]),
         Whole(experiment[j], models[j]),
         Underway(step[w], work[w], experiment[j], models[j], proc[w].attempt),
         HandlerStep(w)
  PROVE  /\ Whole(experiment'[j], models'[j])
         /\ Underway(step'[w], work'[w], experiment'[j], models'[j], proc[w].attempt)
         /\ experiment[j].status = "completed" =>
               experiment'[j] = experiment[j] /\ models'[j] = models[j]
<1> DEFINE e == experiment[j]  m == models[j]  k == work[w]  n == proc[w].attempt
<1>1. /\ e \in ExperimentRow /\ m \in [Algorithms -> ModelRow] /\ k \in Work
      /\ \A a \in Algorithms : m[a] \in ModelRow
  BY DEF Sound, Able
<1>2. CASE NotPreparable(w) \/ Load(w) \/ OpeningRefused(w) \/ SaveBundle(w) \/ CallFails(w)
           \/ Report(w) \/ ReportFull(w)
  <2>1. models' = models /\ experiment' = experiment /\ work' = work
    BY <1>2 DEF NotPreparable, Load, OpeningRefused, SaveBundle, CallFails, Report, ReportFull, data
  <2>2. Underway(step'[w], k, e, m, n)
    <3>1. CASE NotPreparable(w) \/ OpeningRefused(w) \/ CallFails(w) \/ ReportFull(w)
      <4>1. \/ step'[w] \in {"mark_failed", "mark_cancelled", "raise", "return"}
            \/ step[w] = "save_cv" /\ step'[w] = "fail_model"
        BY <3>1
           DEF NotPreparable, OpeningRefused, CallFails, ReportFull, Reported, Continue,
               HandlerShape
      <4> QED  BY <4>1 DEF Underway, Ends
    <3>2. CASE Load(w)
      <4>1. step[w] = "load" /\ step'[w] \in {"evaluate", "mark_failed"}
        BY <3>2 DEF Load, InHandlerAt, Continue, HandlerShape
      <4> QED  BY <4>1 DEF Underway, Ends
    <3>3. CASE SaveBundle(w)
      <4>1. step[w] = "save_bundle" /\ step'[w] \in {"save_final", "mark_failed"}
        BY <3>3 DEF SaveBundle, InHandlerAt, Continue, HandlerShape
      <4> QED  BY <4>1 DEF Underway, Ends
    <3>4. CASE Report(w)
      <4>1. step[w] = "report" /\ step'[w] \in {"evaluate", "mark_cancelled", "mark_failed"}
        BY <3>4 DEF Report, Reported, InHandlerAt, Continue, HandlerShape
      <4> QED  BY <4>1 DEF Underway, Ends
    <3> QED  BY <1>2, <3>1, <3>2, <3>3, <3>4
  <2> QED  BY <2>1, <2>2
<1>3. CASE Prepare(w)
  <2>1. /\ models' = models /\ e.status # "completed" /\ experiment'[j].status = "running"
        /\ work'[w].left = Algorithms /\ step'[w] = "load"
    BY <1>1, <1>3
       DEF Prepare, Preparable, Row, SetStatus, Continue, HandlerShape, ExperimentRow, Work
  <2> QED  BY <2>1 DEF Whole, Underway
<1>4. CASE MarkFailed(w) \/ MarkCancelled(w)
  <2>1. models' = models /\ step'[w] \in {"raise", "raise_cancelled"}
    BY <1>4 DEF MarkFailed, MarkCancelled, Mark, Continue, HandlerShape
  <2>2. IF e.status = "completed" THEN experiment' = experiment
        ELSE experiment'[j].status \in {"failed", "cancelled"}
    BY <1>1, <1>4
       DEF MarkFailed, MarkCancelled, Mark, MayFail, Row, SetStatus, HandlerShape, ExperimentRow
  <2> QED  BY <2>1, <2>2 DEF Whole, Underway, Ends
<1>5. CASE Evaluate(w)
  <2>1. models' = models /\ experiment' = experiment /\ step[w] = "evaluate"
    BY <1>5 DEF Evaluate, InHandlerAt, data
  <2>2. CASE proc[w].seen
    <3>1. step'[w] = "mark_cancelled"
      BY <1>5, <2>2 DEF Evaluate, Continue, HandlerShape
    <3> QED  BY <2>1, <3>1 DEF Underway, Ends
  <2>3. CASE ~proc[w].seen
    <3>1. PICK a \in k.left : work' = [work EXCEPT ![w].left = @ \ {a}, ![w].current = {a}]
      BY <1>5, <2>3 DEF Evaluate
    <3>2. work'[w].left \cup work'[w].current = k.left
      BY <1>1, <3>1 DEF HandlerShape, Work
    <3>3. step'[w] \in {"save_cv", "fail_model"}
      BY <1>5, <2>3 DEF Evaluate, Continue, HandlerShape
    <3> QED  BY <2>1, <3>2, <3>3 DEF Underway, Ends
  <2> QED  BY <2>2, <2>3
<1>6. CASE Select(w)
  <2>1. /\ models' = models /\ experiment' = experiment
        /\ step[w] = "evaluate" /\ k.left = {}
        /\ step'[w] \in {"mark_failed", "mark_cancelled", "open_final_test"}
    BY <1>6 DEF Select, InHandlerAt, Continue, HandlerShape, data
  <2> QED  BY <2>1 DEF Underway, Ends
<1>7. CASE SaveCvResult(w) \/ FailModel(w)
  <2>1. /\ experiment' = experiment /\ step'[w] = "report" /\ step[w] \in {"save_cv", "fail_model"}
    BY <1>7 DEF SaveCvResult, FailModel, InHandlerAt, Continue, HandlerShape
  <2>2. work'[w].left = k.left
    <3>1. work'[w] = [k EXCEPT !.successful = @ \cup k.current] \/ work' = work
      BY <1>7 DEF SaveCvResult, FailModel, HandlerShape
    <3> QED  BY <1>1, <3>1 DEF Work
  <2>3. \/ models'[j] = [a \in Algorithms |-> IF a \in k.current THEN Scored(m[a]) ELSE m[a]]
        \/ models'[j] = [a \in Algorithms |->
                           IF a \in k.current THEN WithStatus(m[a], "failed") ELSE m[a]]
    BY <1>7 DEF SaveCvResult, FailModel, SetModels, Models, AsItIs, HandlerShape
  <2>4. ASSUME NEW a \in Algorithms \ k.left
        PROVE  models'[j][a].status \in Evaluated
    <3>1. m[a] \in ModelRow
      BY <1>1
    <3>2. CASE a \in k.current
      <4>1. models'[j][a] \in {Scored(m[a]), WithStatus(m[a], "failed")}
        BY <2>3, <3>2
      <4> QED  BY <3>1, <4>1 DEF Scored, WithStatus, ModelRow, Evaluated
    <3>3. CASE a \notin k.current
      BY <2>1, <2>3, <3>3 DEF Underway
    <3> QED  BY <3>2, <3>3
  <2>5. e.status # "completed"
    BY <2>1 DEF Underway, Ends
  <2> QED  BY <2>1, <2>2, <2>4, <2>5 DEF Whole, Underway
<1>8. CASE OpenFinalTest(w)
  <2>1. /\ step'[w] = "save_bundle" /\ work' = work /\ step[w] = "open_final_test"
        /\ experiment'[j] = [e EXCEPT !.opened = TRUE]
    BY <1>8 DEF OpenFinalTest, InHandlerAt, Continue, HandlerShape
  <2>2. k.current # {} /\ e.status # "completed" /\ experiment'[j].status = e.status
    BY <1>1, <2>1 DEF Able, Underway, Ends, ExperimentRow
  <2>3. ASSUME NEW a \in Algorithms \ k.current PROVE models'[j][a].status \in Over
    <3>1. models'[j][a] = PassedOver(m[a]) /\ m[a] \in ModelRow
      BY <1>1, <1>8, <2>3 DEF OpenFinalTest, SetModels, Models, HandlerShape
    <3>2. m[a].status \in Evaluated
      BY <2>1 DEF Underway
    <3> QED  BY <3>1, <3>2 DEF PassedOver, WithStatus, ModelRow, Evaluated, Over
  <2> QED  BY <2>1, <2>2, <2>3 DEF Whole, Underway
<1>9. CASE SaveFinalResult(w)
  <2>1. /\ experiment' = experiment /\ work' = work /\ step[w] = "save_final"
        /\ step'[w] \in {"complete", "mark_failed"} /\ e.status # "completed"
    BY <1>9 DEF SaveFinalResult, InHandlerAt, Continue, HandlerShape, Underway, Ends
  <2>2. CASE \A a \in k.current : m[a].recommended /\ ~m[a].tested
    <3> DEFINE Final(a) == [m[a] EXCEPT !.status = "completed", !.tested = TRUE, !.bundle = n]
    <3>1. models'[j] = [a \in Algorithms |-> IF a \in k.current THEN Final(a) ELSE m[a]]
      <4>1. models' = [models EXCEPT ![j] =
                         [a \in Algorithms |-> IF a \in k.current THEN Final(a) ELSE m[a]]]
        BY <1>9, <2>2 DEF SaveFinalResult, SetModels, Models, AsItIs
      <4> HIDE DEF Final
      <4> QED  BY <4>1 DEF HandlerShape
    <3>2. ASSUME NEW a \in Algorithms
          PROVE  /\ Final(a).status = "completed" /\ Final(a).tested = TRUE
                 /\ Final(a).recommended = m[a].recommended /\ Final(a).bundle = n /\ n # 0
      BY <1>1, FinalRow
    <3> HIDE DEF Final
    <3>3. PICK a \in Algorithms : a \in k.current
      BY <1>1, <2>1 DEF Underway, Work
    <3>4. models'[j][a].recommended
      BY <2>2, <3>1, <3>2, <3>3
    <3>5. \A b \in Algorithms : models'[j][b].status \in Over
      BY <2>1, <3>1, <3>2 DEF Underway, Over
    <3>6. Result(models'[j], n)
      BY <3>1, <3>2, <3>3, <3>4, <3>5 DEF Result
    <3> QED  BY <2>1, <3>6 DEF Whole, Underway
  <2>3. CASE ~ \A a \in k.current : m[a].recommended /\ ~m[a].tested
    <3>1. models' = models /\ step'[w] = "mark_failed"
      BY <1>9, <2>3 DEF SaveFinalResult, Models, Continue, HandlerShape
    <3> QED  BY <2>1, <3>1 DEF Underway
  <2> QED  BY <2>2, <2>3
<1>10. CASE Complete(w)
  <2>1. /\ models' = models /\ step[w] = "complete" /\ step'[w] = "report_full" /\ e.opened
        /\ experiment'[j] = [e EXCEPT !.status = "completed", !.manifest = n]
    BY <1>10 DEF Complete, Row, InHandlerAt, Continue, HandlerShape
  <2>2. /\ experiment'[j].opened = e.opened /\ experiment'[j].manifest = n
        /\ e.status # "completed" /\ Result(m, n)
    BY <1>1, <2>1 DEF ExperimentRow, Underway, Ends
  <2> QED  BY <2>1, <2>2 DEF Whole, Underway, Ends
<1> QED
  BY <1>2, <1>3, <1>4, <1>5, <1>6, <1>7, <1>8, <1>9, <1>10 DEF HandlerStep

\* What worker w's handler has done, if it runs one.
Progress(w) ==
    proc[w].pc = "handler" =>
        Underway(step[w], work[w], experiment[proc[w].job], models[proc[w].job], proc[w].attempt)

\* The inductive invariant.
FInv ==
    /\ XInv /\ AttemptsAreHeard
    /\ \A j \in Jobs : Whole(experiment[j], models[j])
    /\ \A w \in Workers : Progress(w)

Stays(j) ==
    experiment[j].status = "completed" =>
        experiment'[j] = experiment[j] /\ models'[j] = models[j]

\* A worker whose shell moves is in the same attempt, or begins one.
LEMMA ShellKeepsAttempt ==
  ASSUME XInv, NEW w \in Workers, Around(w), proc'[w].pc = "handler"
  PROVE  \/ step'[w] = "prepare"
         \/ /\ proc[w].pc = "handler" /\ step'[w] = step[w]
            /\ proc'[w].job = proc[w].job /\ proc'[w].attempt = proc[w].attempt
            /\ step'[w] # "idle" => work'[w] = work[w]
<1>1. proc \in [Workers -> Process] /\ HandlerShape
  BY DEF XInv, WInv
<1>2. ~Finish(w)
  BY <1>1 DEF Finish, HandlerEnds, Go, Executing, At, Process
<1>3. ShellStep(w) /\ work' = [work EXCEPT ![w] = IF step'[w] = "idle" THEN NoWork ELSE @]
  BY <1>2 DEF Around
<1>4. CASE proc[w].pc # "handler"
  BY <1>1, <1>3, <1>4 DEF ShellStep, Continue, HandlerShape
<1>5. CASE proc[w].pc = "handler"
  <2>1. ~MainStep(w) /\ ~DatabaseError(w)
    BY <1>5 DEF MainStep, Recover, Acknowledge, Claim, Succeed, Fail, AcknowledgeCancellation, Join,
                Restart, DatabaseError, OnError
  <2>2. ~Crash(w)
    BY <1>1 DEF Crash, Go, At, Executing
  <2>3. BeatBegins(w) \/ BeatEnds(w)
    BY <1>3, <2>1, <2>2 DEF ShellStep, Shell
  <2>4. proc'[w].job = proc[w].job /\ proc'[w].attempt = proc[w].attempt
    BY <1>1, <2>3 DEF BeatBegins, BeatEnds, Process
  <2>5. step'[w] = step[w]
    BY <1>1, <1>3, <1>5 DEF ShellStep, Continue, HandlerShape
  <2>6. step'[w] # "idle" => work'[w] = work[w]
    BY <1>1, <1>3 DEF HandlerShape
  <2> QED  BY <1>5, <2>4, <2>5, <2>6
<1> QED  BY <1>4, <1>5

\* A handler's step moves no process to another attempt.
LEMMA HandlerKeepsAttempts ==
  ASSUME XInv, NEW w \in Workers, HandlerStep(w), NEW u \in Workers
  PROVE  /\ proc'[u].pc = proc[u].pc /\ proc'[u].job = proc[u].job
         /\ proc'[u].attempt = proc[u].attempt
<1>1. proc \in [Workers -> Process]
  BY DEF XInv, WInv
<1>2. CASE Report(w) \/ ReportFull(w)
  BY <1>1, <1>2 DEF Report, ReportFull, Reported, ReportAccepted, Local, systemVars, Process
<1>3. CASE ~(Report(w) \/ ReportFull(w))
  <2>1. Local
    BY <1>3
       DEF HandlerStep, Prepare, NotPreparable, Load, Evaluate, SaveCvResult, FailModel, Select,
           OpenFinalTest, OpeningRefused, SaveBundle, SaveFinalResult, Complete, MarkFailed,
           MarkCancelled, Mark, CallFails
  <2> QED  BY <2>1 DEF Local, systemVars
<1> QED  BY <1>2, <1>3

\* A handler's step touches no other handler's experiment: nobody else runs the job.
LEMMA HandlersStayWhole ==
  ASSUME FInv, ~MayPause, faults = 0, NEW w \in Workers, HandlerStep(w)
  PROVE  /\ \A i \in Jobs : Whole(experiment'[i], models'[i]) /\ Stays(i)
         /\ \A u \in Workers : Progress(u)'
<1>1. PICK j \in Jobs : /\ j = proc[w].job /\ proc[w].pc = "handler"
                        /\ proc[w].attempt \in 1..AttemptLimit /\ AttemptLimit \in Nat
  BY InHandler, HandlersHaveJobs DEF FInv, XInv
<1>2. OnlyHere(w, j)
  BY <1>1, Frame DEF FInv, XInv
<1>3. /\ Whole(experiment'[j], models'[j]) /\ Stays(j)
      /\ Underway(step'[w], work'[w], experiment'[j], models'[j], proc[w].attempt)
  <2>1. /\ HandlerShape /\ Sound(experiment[j], models[j]) /\ Able(step[w], work[w])
        /\ Whole(experiment[j], models[j])
        /\ Underway(step[w], work[w], experiment[j], models[j], proc[w].attempt)
    BY <1>1 DEF FInv, XInv, Progress
  <2> QED  BY <1>1, <2>1, HandlerGoesOn DEF Stays
<1>4. /\ \A i \in Jobs \ {j} : experiment'[i] = experiment[i] /\ models'[i] = models[i]
      /\ \A u \in Workers \ {w} : step'[u] = step[u] /\ work'[u] = work[u]
  BY <1>2 DEF OnlyHere, FInv, XInv, HandlerShape
<1>5. ASSUME NEW u \in Workers PROVE Progress(u)'
  <2>1. /\ proc'[u].pc = proc[u].pc /\ proc'[u].job = proc[u].job
        /\ proc'[u].attempt = proc[u].attempt
    BY HandlerKeepsAttempts DEF FInv
  <2>2. CASE u = w
    BY <1>1, <1>3, <2>1, <2>2 DEF Progress
  <2>3. CASE u # w /\ proc[u].pc = "handler"
    <3>1. proc[u].job \in Jobs \ {j}
      BY <1>1, <2>3, HandlersHaveJobs DEF FInv, XInv, AttemptsAreHeard, HeldFast, Busy
    <3> QED  BY <1>4, <2>1, <2>3, <3>1 DEF FInv, Progress
  <2> QED  BY <2>1, <2>2, <2>3 DEF Progress
<1> QED  BY <1>3, <1>4, <1>5 DEF FInv, Stays

\* A shell's step leaves the other handlers where they are.
LEMMA OthersStayWhole ==
  ASSUME FInv, NEW w \in Workers, Around(w)
  PROVE  /\ \A i \in Jobs : Whole(experiment'[i], models'[i]) /\ Stays(i)
         /\ \A u \in Workers : Progress(u)'
<1>1. UNCHANGED data
  BY DEF Around
<1>2. Shell(w) \/ Handler(w)
  <2>1. {"succeed", "fail", "acknowledge_cancellation"} \subseteq Executing
    BY DEF Executing
  <2> QED  BY <2>1 DEF Around, Finish, ShellStep, Handler
<1>3. ASSUME NEW u \in Workers, proc'[u].pc = "handler" PROVE Progress(u)'
  <2>1. CASE u = w
    <3>1. CASE step'[w] = "prepare"
      BY <2>1, <3>1 DEF Progress, Underway, Ends
    <3>2. CASE step'[w] # "prepare"
      <4>1. /\ proc[w].pc = "handler" /\ step'[w] = step[w]
            /\ proc'[w].job = proc[w].job /\ proc'[w].attempt = proc[w].attempt
            /\ step'[w] # "idle" => work'[w] = work[w]
        BY <1>3, <2>1, <3>2, ShellKeepsAttempt DEF FInv
      <4>2. Underway(step[w], work[w], experiment[proc[w].job], models[proc[w].job],
                     proc[w].attempt)
        BY <4>1 DEF FInv, Progress
      <4>3. Underway(step[w], work'[w], experiment[proc[w].job], models[proc[w].job],
                     proc[w].attempt)
        BY <4>1, <4>2 DEF Underway, Ends
      <4> QED  BY <1>1, <2>1, <4>1, <4>3 DEF Progress, data
    <3> QED  BY <3>1, <3>2
  <2>2. CASE u # w
    <3>1. proc'[u] = proc[u]
      BY <1>2, <2>2, ProcessesTransact DEF FInv, XInv
    <3>2. step'[u] = step[u] /\ work'[u] = work[u]
      BY <2>2 DEF Around, Finish, ShellStep, Continue, FInv, XInv, HandlerShape
    <3> QED  BY <1>1, <1>3, <3>1, <3>2 DEF FInv, Progress, data
  <2> QED  BY <2>1, <2>2
<1> QED  BY <1>1, <1>3 DEF FInv, Progress, Stays, data

\* A client stages what nobody runs, and marks nothing that is completed.
LEMMA ClientsStayWhole ==
  ASSUME FInv, NEW j \in Jobs, Stage(j) \/ MarkCancelling(j) \/ CancelJob(j)
  PROVE  /\ \A i \in Jobs : Whole(experiment'[i], models'[i]) /\ Stays(i)
         /\ \A u \in Workers : Progress(u)'
<1>1. /\ step' = step /\ work' = work
      /\ \A i \in Jobs \ {j} : experiment'[i] = experiment[i] /\ models'[i] = models[i]
  BY ClientsStaySound DEF FInv
<1>2. proc' = proc
  BY DEF Stage, MarkCancelling, CancelJob, Local, systemVars, workerVars
<1>3. experiment \in [Jobs -> ExperimentRow] /\ (~Exists(j) => experiment[j].status = "none")
  BY DEF FInv, XInv, HandlerShape, Blank
<1>4. CASE Stage(j)
  <2>1. /\ experiment[j].status # "completed" /\ experiment'[j].status # "completed"
    BY <1>3, <1>4 DEF Stage, Enqueue, ExperimentRow
  <2>2. \A u \in Workers : proc[u].pc = "handler" => proc[u].job \in Jobs \ {j}
    BY <1>4, HandlersHaveJobs DEF Stage, Enqueue, FInv, XInv
  <2> QED  BY <1>1, <1>2, <2>1, <2>2 DEF FInv, Whole, Stays, Progress
<1>5. CASE MarkCancelling(j)
  <2>1. /\ experiment[j].status # "completed" /\ experiment'[j].status # "completed"
        /\ models' = models
    BY <1>3, <1>5 DEF MarkCancelling, ExperimentRow
  <2>2. \A u \in Workers : proc[u].pc = "handler" => proc[u].job \in Jobs
    BY HandlersHaveJobs DEF FInv, XInv
  <2>3. ASSUME NEW u \in Workers, proc[u].pc = "handler" PROVE Progress(u)'
    <3>1. CASE proc[u].job = j
      BY <1>1, <1>2, <2>1, <2>3, <3>1 DEF FInv, Progress, Underway
    <3>2. CASE proc[u].job # j
      BY <1>1, <1>2, <2>2, <2>3, <3>2 DEF FInv, Progress
    <3> QED  BY <3>1, <3>2
  <2> QED  BY <1>1, <1>2, <2>1, <2>3 DEF FInv, Whole, Stays, Progress
<1>6. CASE CancelJob(j)
  BY <1>1, <1>2, <1>6 DEF CancelJob, FInv, Stays, Progress
<1> QED  BY <1>4, <1>5, <1>6

\* FInv is inductive.
LEMMA FStep ==
  ASSUME ~MayPause, MaxFaults = 0, FInv, [ForecastsNext]_forecastsVars
  PROVE  FInv' /\ \A j \in Jobs : Stays(j)
<1>1. faults = 0
  BY DEF FInv, XInv, WInv, Counters
<1>2. [SystemNext]_systemVars
  BY EveryStepIsASystemStep DEF ForecastsNext, forecastsVars, experimentVars, handlerVars
<1>3. XInv' /\ AttemptsAreHeard'
  BY <1>2, XStep, HeardStep DEF FInv, XInv
<1> DEFINE Good == /\ \A i \in Jobs : Whole(experiment'[i], models'[i]) /\ Stays(i)
                   /\ \A u \in Workers : Progress(u)'
<1>4. ASSUME UNCHANGED <<proc, step, data, work>> PROVE Good
  BY <1>4 DEF FInv, Stays, Progress, data
<1>5. ASSUME NEW w \in Workers, HandlerStep(w) PROVE Good
  BY <1>1, <1>5, HandlersStayWhole
<1>6. ASSUME NEW w \in Workers, Around(w) PROVE Good
  BY <1>6, OthersStayWhole
<1>7. ASSUME NEW j \in Jobs, Stage(j) \/ MarkCancelling(j) \/ CancelJob(j) PROVE Good
  BY <1>7, ClientsStayWhole
<1>8. JobCall \/ TimePasses => proc' = proc /\ step' = step
  BY DEF JobCall, TimePasses, workerVars
<1>9. Good
  <2> HIDE DEF Good
  <2> QED
    BY <1>4, <1>5, <1>6, <1>7, <1>8
       DEF ForecastsNext, ExperimentNext, forecastsVars, experimentVars, handlerVars, systemVars
<1> QED  BY <1>3, <1>9 DEF FInv

\* FInv holds at first.
LEMMA InitIsWhole == ForecastsInit => FInv
<1> SUFFICES ASSUME ForecastsInit PROVE FInv
  OBVIOUS
<1>1. \A w \in Workers : proc[w].pc \notin Busy
  BY DEF ForecastsInit, ExperimentInit, HandlerInit, SystemInit, At, Busy
<1>2. \A j \in Jobs : experiment[j].status # "completed"
  BY DEF ForecastsInit, ExperimentInit
<1> QED  BY <1>1, <1>2, InitIsSound DEF FInv, AttemptsAreHeard, Whole, Progress, Busy

\* FInv is an invariant.
LEMMA CompletionInvariant ==
  ASSUME ~MayPause, MaxFaults = 0
  PROVE  ForecastsSpec => []FInv
<1>1. FInv /\ [ForecastsNext]_forecastsVars => FInv'
  BY FStep
<1> QED  BY <1>1, InitIsWhole, PTL DEF ForecastsSpec

\* A completed experiment shows one attempt's whole result, whatever earlier attempts left.
THEOREM CompletedExperimentsAreWhole ==
  ASSUME ~MayPause, MaxFaults = 0
  PROVE  ForecastsSpec => []CompletedIsWhole
<1>1. FInv => CompletedIsWhole
  BY DEF FInv, Whole, Result, Over, CompletedIsWhole
<1> QED  BY <1>1, CompletionInvariant, PTL

\* Nothing touches a completed experiment.
THEOREM CompletedExperimentsStay ==
  ASSUME ~MayPause, MaxFaults = 0
  PROVE  ForecastsSpec => CompletedStays
<1>1. FInv /\ [ForecastsNext]_forecastsVars =>
         [\A j \in Jobs : experiment[j].status = "completed" =>
             experiment'[j] = experiment[j] /\ models'[j] = models[j]]_experimentVars
  BY FStep DEF Stays
<1> QED  BY <1>1, CompletionInvariant, PTL DEF ForecastsSpec, CompletedStays

-----------------------------------------------------------------------------
\* Forecasts.

\* A call that has read its model run.
CallOK(c) ==
    /\ call[c] \in CallRow
    /\ call[c].status # "none" =>
          /\ call[c].job \in Jobs /\ call[c].algorithm \in Algorithms
          /\ call[c].bundle # 0 /\ Shown(c) # 0
          /\ call[c].settled => /\ experiment[call[c].job].status = "completed"
                                /\ Shown(c) = call[c].bundle

CallsInv == call \in [Calls -> CallRow] /\ \A c \in Calls : CallOK(c)

\* CallsInv is inductive, given FInv.
LEMMA CallsStep ==
  ASSUME FInv, CallsInv, [ForecastsNext]_forecastsVars,
         \A j \in Jobs : Stays(j) /\ Grows(j)
  PROVE  CallsInv'
<1>1. CASE call' = call
  <2>1. ASSUME NEW c \in Calls, call[c].status # "none" PROVE CallOK(c)'
    <3>1. PICK j \in Jobs, a \in Algorithms : j = call[c].job /\ a = call[c].algorithm
      BY <2>1 DEF CallsInv, CallOK
    <3>2. models[j][a].bundle # 0 /\ models'[j][a].bundle # 0
      BY <2>1, <3>1 DEF CallsInv, CallOK, Shown, Grows
    <3> QED  BY <1>1, <2>1, <3>1, <3>2 DEF CallsInv, CallOK, Shown, Stays
  <2> QED  BY <1>1, <2>1 DEF CallsInv, CallOK
<1>2. ASSUME NEW c \in Calls, ForecastStep(c), UNCHANGED experimentVars PROVE CallsInv'
  <2>1. experiment' = experiment /\ models' = models
    BY <1>2 DEF experimentVars, data
  <2>2. \A d \in Calls \ {c} : call'[d] = call[d]
    BY <1>2 DEF ForecastStep, PrepareForecast, SaveForecast, RefuseForecast, CallsInv
  <2>3. CASE PrepareForecast(c)
    <3>1. PICK j \in Jobs, a \in Algorithms, trained \in BOOLEAN :
             /\ Available(models[j][a])
             /\ call' = [call EXCEPT ![c] =
                   [status |-> "prepared", job |-> j, algorithm |-> a, trained |-> trained,
                    bundle |-> models[j][a].bundle,
                    settled |-> experiment[j].status = "completed"]]
      BY <2>3 DEF PrepareForecast
    <3>2. models[j][a] \in ModelRow
      BY DEF FInv, XInv, HandlerShape
    <3>3. CallOK(c)'
      BY <2>1, <3>1, <3>2 DEF CallsInv, CallOK, CallRow, ModelRow, Shown, Available
    <3> QED  BY <2>1, <2>2, <3>1, <3>3 DEF CallsInv, CallOK, Shown
  <2>4. CASE SaveForecast(c)
    <3>1. call[c] \in CallRow /\ call' = [call EXCEPT ![c].status = "saved"]
      BY <2>4 DEF SaveForecast, CallsInv
    <3>2. CallOK(c)'
      BY <2>1, <2>4, <3>1 DEF SaveForecast, CallsInv, CallOK, CallRow, Shown
    <3> QED  BY <2>1, <2>2, <3>1, <3>2 DEF CallsInv, CallOK, Shown
  <2>5. CASE RefuseForecast(c)
    <3>1. NoCall \in CallRow
      BY QueueAssumption DEF NoCall, CallRow, QueueAssumption
    <3>2. CallOK(c)'
      BY <2>5, <3>1 DEF RefuseForecast, CallsInv, CallOK, NoCall
    <3> QED  BY <2>1, <2>2, <2>5, <3>1, <3>2 DEF RefuseForecast, CallsInv, CallOK, Shown
  <2> QED  BY <1>2, <2>3, <2>4, <2>5 DEF ForecastStep
<1> QED  BY <1>1, <1>2 DEF ForecastsNext, forecastsVars

\* A saved forecast can be shown, and one from a completed experiment is shown with the bundle
\* that has computed it, however long the call took.
THEOREM ForecastsAreShown ==
  ASSUME ~MayPause, MaxFaults = 0
  PROVE  ForecastsSpec => []ForecastsShowTheirBundle
<1>1. ForecastsInit => CallsInv
  BY QueueAssumption DEF ForecastsInit, CallsInv, CallOK, NoCall, CallRow, QueueAssumption
<1>2. FInv /\ CallsInv /\ [ForecastsNext]_forecastsVars => CallsInv'
  BY FStep, XStep, CallsStep DEF FInv
<1>3. CallsInv => ForecastsShowTheirBundle
  BY DEF CallsInv, CallOK, ForecastsShowTheirBundle
<1> QED  BY <1>1, <1>2, <1>3, CompletionInvariant, PTL DEF ForecastsSpec

-----------------------------------------------------------------------------
\* Types.

\* A handler is somewhere exactly while its process runs it.
Placed(w) == step[w] = "idle" <=> proc[w].pc # "handler"

\* A handler's step goes on to another step.
LEMMA HandlerIsSomewhere ==
  ASSUME HandlerShape, NEW w \in Workers, HandlerStep(w)
  PROVE  step'[w] # "idle"
<1> USE DEF Continue, HandlerShape
<1>1. CASE Prepare(w) \/ NotPreparable(w) \/ Load(w) \/ Evaluate(w) \/ Select(w)
  BY <1>1 DEF Prepare, NotPreparable, Load, Evaluate, Select
<1>2. CASE SaveCvResult(w) \/ FailModel(w) \/ OpenFinalTest(w) \/ OpeningRefused(w)
  BY <1>2 DEF SaveCvResult, FailModel, OpenFinalTest, OpeningRefused
<1>3. CASE SaveBundle(w) \/ SaveFinalResult(w) \/ Complete(w) \/ MarkFailed(w) \/ MarkCancelled(w)
           \/ CallFails(w)
  BY <1>3 DEF SaveBundle, SaveFinalResult, Complete, MarkFailed, MarkCancelled, Mark, CallFails
<1>4. CASE Report(w) \/ ReportFull(w)
  BY <1>4 DEF Report, ReportFull, Reported
<1> QED  BY <1>1, <1>2, <1>3, <1>4 DEF HandlerStep

\* The rest of a process's step starts a handler, ends it, or leaves it where it is.
LEMMA AroundKeepsPlace ==
  ASSUME XInv, NEW w \in Workers, Around(w), Placed(w)
  PROVE  /\ Placed(w)'
         /\ \A u \in Workers \ {w} : proc'[u] = proc[u] /\ step'[u] = step[u]
<1>1. HandlerShape /\ proc \in [Workers -> Process]
  BY DEF XInv, WInv
<1>2. Shell(w) \/ Handler(w)
  <2>1. {"succeed", "fail", "acknowledge_cancellation"} \subseteq Executing
    BY DEF Executing
  <2> QED  BY <2>1 DEF Around, Finish, ShellStep, Handler
<1>3. \A u \in Workers \ {w} : proc'[u] = proc[u] /\ step'[u] = step[u]
  <2>1. \A u \in Workers \ {w} : proc'[u] = proc[u]
    BY <1>2, ProcessesTransact DEF XInv
  <2>2. \A u \in Workers \ {w} : step'[u] = step[u]
    BY <1>1 DEF Around, Finish, ShellStep, Continue, HandlerShape
  <2> QED  BY <2>1, <2>2
<1>4. CASE Finish(w)
  BY <1>1, <1>4 DEF Finish, HandlerEnds, Go, Executing, Process, Continue, HandlerShape, Placed
<1>5. CASE ShellStep(w)
  <2>1. step'[w] = IF proc'[w].pc # "handler" THEN "idle"
                   ELSE IF proc[w].pc = "handler" THEN step[w] ELSE "prepare"
    BY <1>1, <1>5 DEF ShellStep, Continue, HandlerShape
  <2> QED  BY <1>3, <2>1 DEF Placed
<1> QED  BY <1>3, <1>4, <1>5 DEF Around

\* What XInv does not say of types.
TInv == XInv /\ cancelling \subseteq Jobs /\ \A w \in Workers : Placed(w)

\* TInv is inductive.
LEMMA TStep ==
  ASSUME TInv, [ForecastsNext]_forecastsVars
  PROVE  TInv'
<1>1. XInv'
  BY XStep DEF TInv
<1>2. CASE UNCHANGED <<proc, step, cancelling>>
  BY <1>1, <1>2 DEF TInv, Placed
<1>3. ASSUME NEW w \in Workers, HandlerStep(w) PROVE TInv'
  <2>1. proc[w].pc = "handler" /\ step'[w] # "idle" /\ HandlerShape
    BY <1>3, InHandler, HandlerIsSomewhere DEF TInv, XInv
  <2>2. \A u \in Workers : proc'[u].pc = proc[u].pc
    BY <1>3, HandlerKeepsAttempts DEF TInv
  <2>3. \A u \in Workers \ {w} : step'[u] = step[u]
    <3>1. PICK j \in Jobs : j = proc[w].job
      BY <2>1, HandlersHaveJobs DEF TInv, XInv
    <3>2. OnlyHere(w, j)
      BY <1>3, <2>1, <3>1, Frame
    <3> QED  BY <2>1, <3>2 DEF OnlyHere, HandlerShape
  <2>4. cancelling' = cancelling
    BY <1>3 DEF HandlerStep, Prepare, NotPreparable, Load, Evaluate, SaveCvResult, FailModel,
       Report, Select, OpenFinalTest, OpeningRefused, SaveBundle, SaveFinalResult, Complete,
       ReportFull, MarkFailed, MarkCancelled, Mark, CallFails, data
  <2> QED  BY <1>1, <2>1, <2>2, <2>3, <2>4 DEF TInv, Placed
<1>4. ASSUME NEW w \in Workers, Around(w) PROVE TInv'
  <2>1. cancelling' = cancelling
    BY <1>4 DEF Around, data
  <2> QED  BY <1>1, <1>4, <2>1, AroundKeepsPlace DEF TInv, Placed
<1>5. ASSUME NEW j \in Jobs, Stage(j) \/ MarkCancelling(j) \/ CancelJob(j) PROVE TInv'
  <2>1. proc' = proc /\ step' = step /\ cancelling' \in {cancelling, cancelling \cup {j},
                                                          cancelling \ {j}}
    BY <1>5 DEF Stage, MarkCancelling, CancelJob, Local, systemVars, workerVars
  <2> QED  BY <1>1, <2>1 DEF TInv, Placed
<1>6. JobCall \/ TimePasses => proc' = proc /\ step' = step
  BY DEF JobCall, TimePasses, workerVars
<1> QED
  BY <1>2, <1>3, <1>4, <1>5, <1>6
     DEF ForecastsNext, ExperimentNext, forecastsVars, experimentVars, handlerVars, systemVars,
         data

\* Experiments, model runs and handlers keep their types, and a handler is somewhere exactly
\* while its process runs it.
THEOREM ExperimentTypesHold == ForecastsSpec => []ExperimentTypeOK
<1>1. ForecastsInit => TInv
  <2>1. ForecastsInit => \A w \in Workers : Placed(w)
    BY DEF ForecastsInit, ExperimentInit, HandlerInit, SystemInit, At, Placed
  <2> QED  BY <2>1, InitIsSound DEF TInv, ForecastsInit, ExperimentInit
<1>2. TInv /\ [ForecastsNext]_forecastsVars => TInv'
  BY TStep
<1>3. ForecastsSpec => []WorkerTypeOK
  BY ExperimentsImplementSystem, SystemTypesHold, PTL
<1>4. TInv /\ WorkerTypeOK => ExperimentTypeOK
  BY DEF TInv, XInv, HandlerShape, Placed, ExperimentTypeOK, HandlerTypeOK
<1> QED  BY <1>1, <1>2, <1>3, <1>4, PTL DEF ForecastsSpec
=============================================================================
