------------------------------ MODULE Campaign ------------------------------
(***************************************************************************)
(* The scripts of the Point 5 study, each in its place: a directory and a   *)
(* database.  A place is a runner of the workflow, where every script runs  *)
(* once, or a directory in which a person calls the scripts, again and in   *)
(* any order.  A script may be killed at each step, and leaves the file     *)
(* that it is writing torn.  The machine of a directory may lose power:     *)
(* what was written without fsync may then be torn too.                     *)
(*                                                                          *)
(* A script's tries are numbered, and so is what they make: version n is    *)
(* the one that try n of the preparation makes, and an output holds the     *)
(* number of the campaign that wrote it.  An interrupted preparation is     *)
(* tried again later than worker_stale_after_seconds, so that its job is    *)
(* in the queue again.                                                      *)
(***************************************************************************)
EXTENDS Naturals, Sequences

CONSTANTS
    Runners,      \* runs of the workflow
    Directories,  \* where a person calls the scripts
    Torn,         \* a file that cannot be read
    Unbound,      \* a handoff that names no version
    MaxTries,     \* bound: calls of each script in one place
    MaxBreaks     \* bound: interruptions

ASSUME CampaignAssumption ==
    /\ Runners \cap Directories = {}
    /\ Torn \notin Nat /\ Unbound \notin Nat /\ Torn # Unbound
    /\ MaxTries \in Nat \ {0} /\ MaxBreaks \in Nat

VARIABLES
    at,      \* the step each place is at
    tries,   \* calls of each script
    queue,   \* jobs of the place's database that have not ended, in the order of claim_next
    ended,   \* jobs that have succeeded
    files,   \* what each file was last written by: 0 when it is not there
    loose,   \* files that are not known to be on the disk
    opened,  \* campaigns that have asked for the final test's indexes
    breaks

places == <<at, tries, queue, ended, files, loose, opened, breaks>>

Places == Runners \cup Directories

Scripts == {"prepare", "fetch", "bind", "run"}

\* "metadata" describes "weather"; each is an argument of the campaign.
Inputs == {"preparation", "weather", "metadata", "handoff"}

\* "copies" stands for the three inputs that are written again, "tables" for the five .csv,
\* "charts" for the three .svg.
Outputs == {"selection", "model", "forecast", "benchmark", "bootstrap", "copies", "tables",
            "charts", "manifest", "readme"}

Files == Inputs \cup Outputs

\* Faulty variant: the selection is written like an input.
Synced_Results == {"forecast", "benchmark", "bootstrap", "copies", "manifest"}

\* What _write_json writes, and fsyncs.
Synced == {"selection", "forecast", "benchmark", "bootstrap", "copies", "manifest"}

\* The second writes of _augment_runtime_evidence.
Amended == [amend_manifest |-> "manifest", amend_benchmark |-> "benchmark",
            amend_readme |-> "readme"]

FileAt(step) == IF step \in DOMAIN Amended THEN Amended[step] ELSE step

\* Steps of a script that is running; one that writes a file has the file's name.
Running == {"import", "transform", "search", "open"} \cup Files \cup DOMAIN Amended

CampaignInit ==
    /\ at \in {[p \in Places |-> IF p \in Runners THEN "free" ELSE "off"],
               [p \in Places |-> IF p \in Runners THEN "off" ELSE "idle"]}
    /\ tries = [p \in Places |-> [s \in Scripts |-> 0]]
    /\ queue = [p \in Places |-> <<>>] /\ ended = [p \in Places |-> {}]
    /\ files = [p \in Places |-> [f \in Files |-> 0]]
    /\ loose = [p \in Places |-> {}] /\ opened = [p \in Places |-> {}]
    /\ breaks = 0

-----------------------------------------------------------------------------
Readable(p, f) == files[p][f] \in Nat \ {0}

\* A script of the workflow is followed by the next one.
Then(p, script) == IF p \in Runners THEN script ELSE "idle"

\* Faulty variant: the checks run whatever went before.
Stopped_Checked(p) == Then(p, "check")

\* A script that raises ends the workflow.
Stopped(p) == IF p \in Runners THEN "failed" ELSE "idle"

Go(p, step) == at' = [at EXCEPT ![p] = step]

Begin(p, script, step) ==
    /\ at[p] \in {script, "idle"}
    /\ tries[p][script] < MaxTries
    /\ tries' = [tries EXCEPT ![p][script] = @ + 1]
    /\ Go(p, step)

Written(p, f, content) ==
    /\ files' = [files EXCEPT ![p][f] = content]
    /\ loose' = [loose EXCEPT ![p] = IF f \in Synced THEN @ \ {f} ELSE @ \cup {f}]

Write(p, content, next) ==
    /\ Written(p, FileAt(at[p]), content)
    /\ Go(p, next)
    /\ UNCHANGED <<tries, queue, ended, opened, breaks>>

-----------------------------------------------------------------------------
(* prepare_point5_dataset.py *)

Own(p, type) == <<type, tries[p]["prepare"]>>

Prepare(p) ==
    /\ Begin(p, "prepare", "import")
    /\ queue' = [queue EXCEPT ![p] = Append(@, <<"import", tries[p]["prepare"] + 1>>)]
    /\ UNCHANGED <<ended, files, loose, opened, breaks>>

\* worker.run_once executes the oldest job, whoever has staged it.
RunOnce(p, staged) ==
    /\ ended' = [ended EXCEPT ![p] = @ \cup {Head(queue[p])}]
    /\ queue' = [queue EXCEPT ![p] = Tail(@) \o staged]

\* Faulty variant: run_once is taken at its word.
Awaited_Any(p, job) == ended'[p] # {}

\* The status of the import, and that of the prepared version, are looked at.
Awaited(p, job) == job \in ended'[p]

ImportSource(p) ==
    /\ at[p] = "import"
    /\ \/ /\ RunOnce(p, <<Own(p, "transform")>>)
          /\ Awaited(p, Own(p, "import")) /\ Go(p, "transform")
       \/ /\ RunOnce(p, <<>>)
          /\ ~Awaited(p, Own(p, "import")) /\ Go(p, Stopped(p))
    /\ UNCHANGED <<tries, files, loose, opened, breaks>>

TransformSource(p) ==
    /\ at[p] = "transform"
    /\ RunOnce(p, <<>>)
    /\ Go(p, IF Awaited(p, Own(p, "transform")) THEN "preparation" ELSE Stopped(p))
    /\ UNCHANGED <<tries, files, loose, opened, breaks>>

SavePreparation(p) ==
    at[p] = "preparation" /\ Write(p, tries[p]["prepare"], Then(p, "fetch"))

-----------------------------------------------------------------------------
(* fetch_point5_weather.py, generate_point5_handoff.py, verify_point5_handoff.py *)

Fetch(p) ==
    /\ Begin(p, "fetch", "weather")
    /\ UNCHANGED <<queue, ended, files, loose, opened, breaks>>

SaveWeather(p) == at[p] = "weather" /\ Write(p, tries[p]["fetch"], "metadata")

DescribeWeather(p) == at[p] = "metadata" /\ Write(p, tries[p]["fetch"], Then(p, "bind"))

\* The source and the version to bind are read from the preparation.
Bind(p) ==
    /\ Readable(p, "preparation")
    /\ Begin(p, "bind", "handoff")
    /\ UNCHANGED <<queue, ended, files, loose, opened, breaks>>

\* _dataset_binding.  A person may leave the arguments out.
Bindings(p) == {files[p]["preparation"]} \cup IF p \in Directories THEN {Unbound} ELSE {}

SaveHandoff(p) ==
    at[p] = "handoff" /\ \E binding \in Bindings(p) : Write(p, binding, Then(p, "verify"))

\* By hand, verifying changes nothing.
Verify(p) ==
    /\ at[p] = "verify"
    /\ Go(p, IF Readable(p, "handoff") THEN "run" ELSE Stopped(p))
    /\ UNCHANGED <<tries, queue, ended, files, loose, opened, breaks>>

-----------------------------------------------------------------------------
(* run_point5_campaign.py, and run_point5_campaign_fast.py around it *)

Try(p) == tries[p]["run"]

Bound(p) ==
    /\ Readable(p, "preparation") /\ Readable(p, "metadata")
    /\ files[p]["handoff"] = files[p]["preparation"]

Start(p) ==
    /\ Begin(p, "run", IF Bound(p) THEN "search" ELSE Stopped(p))
    /\ UNCHANGED <<queue, ended, files, loose, opened, breaks>>

\* The cross-validations come before the weather is loaded and after.  A torn weather file
\* may have all hours that are asked for.
Search(p) ==
    /\ at[p] = "search"
    /\ \/ files[p]["weather"] # 0 /\ Go(p, "selection")
       \/ ~Readable(p, "weather") /\ Go(p, Stopped(p))
    /\ UNCHANGED <<tries, queue, ended, files, loose, opened, breaks>>

\* Faulty variant: a selection that is there is immutable.
Selection_Once(p) == IF files[p]["selection"] = 0 THEN Try(p) ELSE files[p]["selection"]

Selection(p) == Try(p)

Select(p) == at[p] = "selection" /\ Write(p, Selection(p), "open")

\* protocol.final_test_indices
OpenFinalTest(p) ==
    /\ at[p] = "open"
    /\ files[p]["selection"] # 0
    /\ opened' = [opened EXCEPT ![p] = @ \cup {Try(p)}]
    /\ Go(p, "model")
    /\ UNCHANGED <<tries, queue, ended, files, loose, breaks>>

BenchmarkSelected(p) == at[p] = "model" /\ Write(p, Try(p), "forecast")

ForecastOnce(p) == at[p] = "forecast" /\ Write(p, Try(p), "benchmark")

SaveBenchmark(p) == at[p] = "benchmark" /\ Write(p, Try(p), "bootstrap")

SaveBootstrap(p) == at[p] = "bootstrap" /\ Write(p, Try(p), "copies")

CopyInputs(p) == at[p] = "copies" /\ Write(p, Try(p), "tables")

SaveTables(p) == at[p] = "tables" /\ Write(p, Try(p), "charts")

DrawCharts(p) == at[p] = "charts" /\ Write(p, Try(p), "manifest")

SaveManifest(p) == at[p] = "manifest" /\ Write(p, Try(p), "readme")

\* A person may call the campaign without the fast script around it.
SaveReadme(p) ==
    /\ at[p] = "readme"
    /\ \/ Write(p, Try(p), "amend_manifest")
       \/ p \in Directories /\ Write(p, Try(p), "idle")

AmendManifest(p) == at[p] = "amend_manifest" /\ Write(p, Try(p), "amend_benchmark")

AmendBenchmark(p) == at[p] = "amend_benchmark" /\ Write(p, Try(p), "amend_readme")

AmendReadme(p) == at[p] = "amend_readme" /\ Write(p, Try(p), Then(p, "check"))

-----------------------------------------------------------------------------
(* What may go wrong at any step *)

\* A job is taken back to the queue, or fails.
Undone(p) == IF at[p] \in {"import", "transform"} THEN {queue[p], Tail(queue[p])} ELSE {queue[p]}

\* A runner's directory is gone with a workflow that has failed.
Left(p) ==
    IF Stopped(p) = "failed" THEN {[f \in Files |-> 0]}
    ELSE {files[p]} \cup {[files[p] EXCEPT ![f] = Torn] : f \in Files \cap {FileAt(at[p])}}

Break(p) ==
    /\ at[p] \in Running /\ breaks < MaxBreaks
    /\ breaks' = breaks + 1
    /\ \E jobs \in Undone(p) : queue' = [queue EXCEPT ![p] = jobs]
    /\ \E left \in Left(p) : files' = [files EXCEPT ![p] = left]
    /\ Go(p, Stopped(p))
    /\ UNCHANGED <<tries, ended, loose, opened>>

LosePower(p) ==
    /\ p \in Directories /\ at[p] # "off" /\ breaks < MaxBreaks
    /\ breaks' = breaks + 1
    /\ \E lost \in SUBSET (loose[p] \cup (Files \cap {FileAt(at[p])})) :
          files' = [files EXCEPT ![p] = [f \in Files |-> IF f \in lost THEN Torn ELSE @[f]]]
    /\ loose' = [loose EXCEPT ![p] = {}]
    /\ Go(p, "idle")
    /\ UNCHANGED <<tries, queue, ended, opened>>

ScriptStep(p) ==
    \/ Prepare(p) \/ ImportSource(p) \/ TransformSource(p) \/ SavePreparation(p)
    \/ Fetch(p) \/ SaveWeather(p) \/ DescribeWeather(p)
    \/ Bind(p) \/ SaveHandoff(p) \/ Verify(p)
    \/ Start(p) \/ Search(p) \/ Select(p) \/ OpenFinalTest(p) \/ BenchmarkSelected(p)
    \/ ForecastOnce(p) \/ SaveBenchmark(p) \/ SaveBootstrap(p) \/ CopyInputs(p)
    \/ SaveTables(p) \/ DrawCharts(p) \/ SaveManifest(p) \/ SaveReadme(p)
    \/ AmendManifest(p) \/ AmendBenchmark(p) \/ AmendReadme(p)

-----------------------------------------------------------------------------
(* Properties *)

(* The final test is not opened without a decision that can be read afterwards: whatever   *)
(* is interrupted and whenever the power fails, the selection of a campaign that has asked *)
(* for the test's indexes stays in its directory until a later campaign writes its own.    *)
(* (A runner that breaks takes the selection along.)                                       *)
OpenedTestsHaveTheirSelection ==
    \A p \in Directories : \A n \in opened[p] :
        \/ Readable(p, "selection") /\ files[p]["selection"] >= n
        \/ files[p]["selection"] = Torn /\ n < Try(p)

(* In a directory that several campaigns have written to, and some not to the end, a       *)
(* manifest that names the selection next to it stands for one campaign: nothing else is   *)
(* of another one, except the readme, that is written last and names no campaign.          *)
NoMixedEvidence ==
    \A p \in Places :
        Readable(p, "manifest") /\ files[p]["manifest"] = files[p]["selection"] =>
            \A f \in Outputs \ {"readme"} : files[p][f] \in {files[p]["manifest"], Torn}

(* A preparation names a version whose own import and own transformation have succeeded,   *)
(* although run_once may have executed what an earlier preparation has left in the queue.  *)
PreparationsAreReady ==
    \A p \in Places :
        Readable(p, "preparation") =>
            {<<"import", files[p]["preparation"]>>, <<"transform", files[p]["preparation"]>>}
               \subseteq ended[p]
=============================================================================
