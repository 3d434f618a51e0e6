----------------------------- MODULE StudyProofs -----------------------------
(***************************************************************************)
(* Theorems about Campaign and Study, for any number of runners and         *)
(* directories, of tries, interruptions, losses of power and commits.       *)
(*                                                                          *)
(* StudyInv is inductive.  Of each place it says what the script that runs  *)
(* there has done up to its step (Prepared, Written so far, Recordable),    *)
(* and of the branch that evidence stands where its run has put it.  There  *)
(* is a lemma for each part and each kind of step.                          *)
(***************************************************************************)
EXTENDS Study, TLAPS

Typed ==
    /\ DOMAIN at = Places /\ DOMAIN ended = Places
    /\ tries \in [Places -> [Scripts -> Nat]]
    /\ files \in [Places -> [Files -> Nat \cup {Torn, Unbound}]]
    /\ loose \in [Places -> SUBSET Files]
    /\ opened \in [Places -> SUBSET Nat]

\* The place q is left alone.
Still(q) ==
    /\ at'[q] = at[q] /\ tries'[q] = tries[q] /\ ended'[q] = ended[q]
    /\ files'[q] = files[q] /\ loose'[q] = loose[q] /\ opened'[q] = opened[q]

-----------------------------------------------------------------------------
(* The parts of the invariant *)

Ready(p, n) == {<<"import", n>>, <<"transform", n>>} \subseteq ended[p]

Prepared(p) ==
    /\ at[p] = "transform" => Own(p, "import") \in ended[p]
    /\ at[p] = "preparation" => Ready(p, tries[p]["prepare"])
    /\ Readable(p, "preparation") => Ready(p, files[p]["preparation"])

\* What a campaign has written when it is at a step.
BeforeTest == [search |-> {}, selection |-> {}, open |-> {"selection"}, model |-> {"selection"},
               forecast |-> {"selection", "model"},
               benchmark |-> {"selection", "model", "forecast"}]

BeforeTables ==
    [bootstrap |-> {"selection", "model", "forecast", "benchmark"},
     copies |-> {"selection", "model", "forecast", "benchmark", "bootstrap"},
     tables |-> {"selection", "model", "forecast", "benchmark", "bootstrap", "copies"}]

BeforeManifest ==
    [charts |-> Outputs \ {"charts", "manifest", "readme"},
     manifest |-> Outputs \ {"manifest", "readme"}]

Made(step) ==
    IF step \in DOMAIN BeforeTest THEN BeforeTest[step]
    ELSE IF step \in DOMAIN BeforeTables THEN BeforeTables[step]
    ELSE IF step \in DOMAIN BeforeManifest THEN BeforeManifest[step]
    ELSE IF step = "readme" THEN Outputs \ {"readme"} ELSE Outputs

Undecided == {"search", "selection", "open"}

Unsummed == Undecided \cup {"model", "forecast", "benchmark", "bootstrap", "copies", "tables",
                            "charts", "manifest"}

Summed == {"readme", "amend_manifest", "amend_benchmark", "amend_readme"}

Campaigning == Unsummed \cup Summed

Ending == {"check", "commit", "push", "done", "refused"}

WrittenSoFar(p) ==
    /\ at[p] \in Campaigning => Try(p) # 0 /\ \A f \in Made(at[p]) : files[p][f] = Try(p)
    /\ at[p] \in Unsummed => files[p]["manifest"] # Try(p)
    /\ at[p] \in Undecided => Try(p) \notin opened[p]
    /\ \A f \in Outputs : files[p][f] \in 0..Try(p) \cup {Torn}
    /\ \A n \in opened[p] : n \in 1..Try(p)
    /\ "selection" \notin loose[p]

DecisionKept(p) ==
    \A n \in opened[p] :
        \/ Readable(p, "selection") /\ files[p]["selection"] >= n
        \/ files[p]["selection"] = Torn /\ n < Try(p)

OneCampaign(p) ==
    Readable(p, "manifest") /\ files[p]["manifest"] = files[p]["selection"] =>
        \A f \in Outputs \ {"readme"} : files[p][f] \in {files[p]["manifest"], Torn}

Recordable(p) ==
    /\ at[p] # "idle"
    /\ at[p] = "metadata" => files[p]["weather"] = tries[p]["fetch"]
    /\ at[p] \in {"bind", "handoff", "verify", "run"} \cup Campaigning \cup Ending =>
           files[p]["weather"] = files[p]["metadata"]
    /\ at[p] \in Campaigning \cup Ending => Bound(p)
    /\ at[p] \in (Campaigning \ Undecided) \cup Ending => Try(p) \in opened[p]
    /\ at[p] \in Ending => \A f \in Outputs : files[p][f] = Try(p)

PlaceInv(p) ==
    /\ Prepared(p) /\ WrittenSoFar(p) /\ OneCampaign(p)
    /\ p \in Directories => DecisionKept(p)
    /\ p \in Runners => Recordable(p)

EvidenceStands ==
    /\ branch \in Seq({"code"} \cup Runners)
    /\ base \in [Runners -> 0..Len(branch)]
    /\ \A i \in DOMAIN branch : branch[i] \in Runners =>
           at[branch[i]] = "done" /\ base[branch[i]] = i - 1

StudyInv ==
    /\ Typed
    /\ \A p \in Places : PlaceInv(p)
    /\ EvidenceStands
    /\ PushesAreStudied
-----------------------------------------------------------------------------
(* Frames *)

\* What is left alone keeps its part of the invariant.
LEMMA StillKeeps ==
  ASSUME NEW q \in Places, PlaceInv(q), Still(q)
  PROVE  PlaceInv(q)'
BY SMT DEF PlaceInv, Still, Prepared, Ready, Own, Readable, WrittenSoFar, Try, OneCampaign,
   DecisionKept, Recordable, Bound, Made

\* A write changes one file, at one place.
LEMMA WriteEffect ==
  ASSUME Typed, NEW p \in Places, NEW content \in Nat \cup {Torn, Unbound}, NEW next,
         FileAt(at[p]) \in Files, Write(p, content, next)
  PROVE  /\ Typed'
         /\ at'[p] = next /\ tries'[p] = tries[p] /\ ended'[p] = ended[p]
         /\ opened'[p] = opened[p]
         /\ files'[p] = [files[p] EXCEPT ![FileAt(at[p])] = content]
         /\ loose'[p] \subseteq loose[p] \cup ({FileAt(at[p])} \ Synced)
         /\ \A q \in Places \ {p} : Still(q)
BY SMT DEF Typed, Write, Written, Go, Still

\* The file of each step that writes one.
LEMMA FileOfStep ==
  /\ \A f \in Files : FileAt(f) = f
  /\ FileAt("amend_manifest") = "manifest" /\ FileAt("amend_benchmark") = "benchmark"
  /\ FileAt("amend_readme") = "readme"
BY SMT DEF FileAt, Amended, Files, Inputs, Outputs

\* A script that begins counts its try.
LEMMA BeginEffect ==
  ASSUME Typed, NEW p \in Places, NEW script \in Scripts, NEW step,
         Begin(p, script, step), UNCHANGED <<ended, files, loose, opened>>
  PROVE  /\ Typed'
         /\ at'[p] = step /\ at[p] \in {script, "idle"}
         /\ tries'[p] = [tries[p] EXCEPT ![script] = @ + 1]
         /\ ended'[p] = ended[p] /\ files'[p] = files[p] /\ loose'[p] = loose[p]
         /\ opened'[p] = opened[p]
         /\ \A q \in Places \ {p} : Still(q)
BY SMT DEF Typed, Begin, Go, Still
-----------------------------------------------------------------------------
(* The scripts *)

\* Only what is left of the place's own file matters to what was written there before.
LEMMA BeginKeeps ==
  ASSUME Typed, NEW p \in Places, PlaceInv(p), NEW script \in Scripts \ {"run"}, NEW step,
         Begin(p, script, step), UNCHANGED <<ended, files, loose, opened>>,
         \/ script = "prepare" /\ step = "import"
         \/ script = "fetch" /\ step = "weather"
         \/ script = "bind" /\ step = "handoff"
  PROVE  Typed' /\ PlaceInv(p)' /\ \A q \in Places \ {p} : Still(q)
<1>1. Typed' /\ \A q \in Places \ {p} : Still(q)
  BY BeginEffect
<1>2. /\ at'[p] = step /\ at[p] \in {script, "idle"}
      /\ tries'[p] = [tries[p] EXCEPT ![script] = @ + 1]
      /\ ended'[p] = ended[p] /\ files'[p] = files[p] /\ loose'[p] = loose[p]
      /\ opened'[p] = opened[p]
  BY BeginEffect
<1>3. Try(p)' = Try(p)
  BY <1>2, SMT DEF Typed, Try, Scripts
<1>4. Prepared(p)'
  BY <1>2, SMT DEF PlaceInv, Prepared, Ready, Readable
<1>5. WrittenSoFar(p)' /\ OneCampaign(p)' /\ (p \in Directories => DecisionKept(p)')
  BY <1>2, <1>3, SMT DEF PlaceInv, WrittenSoFar, OneCampaign, DecisionKept, Readable,
     Campaigning, Unsummed, Summed, Undecided
<1>6. p \in Runners => Recordable(p)'
  BY <1>2, SMT DEF PlaceInv, Recordable, Campaigning, Unsummed, Summed, Undecided,
     Ending
<1> QED  BY <1>1, <1>4, <1>5, <1>6 DEF PlaceInv

\* The jobs of the preparation: what the database remembers only grows.
LEMMA JobKeeps ==
  ASSUME Typed, NEW p \in Places, PlaceInv(p), ImportSource(p) \/ TransformSource(p)
  PROVE  Typed' /\ PlaceInv(p)' /\ \A q \in Places \ {p} : Still(q)
<1>1. Typed' /\ \A q \in Places \ {p} : Still(q)
  BY SMT DEF Typed, Still, ImportSource, TransformSource, RunOnce, Go
<1>2. /\ tries' = tries /\ files' = files /\ loose' = loose /\ opened' = opened
      /\ ended[p] \subseteq ended'[p]
      /\ at[p] \in {"import", "transform"}
      /\ at'[p] \in {"transform", "preparation", "failed", "idle"}
      /\ p \in Runners => at'[p] # "idle"
  BY SMT DEF Typed, ImportSource, TransformSource, RunOnce, Go, Stopped
<1>3. Prepared(p)'
  <2>1. at'[p] = "transform" => Own(p, "import") \in ended'[p]
    BY SMT DEF Typed, ImportSource, TransformSource, Awaited, Go, Stopped
  <2>2. at'[p] = "preparation" => Ready(p, tries[p]["prepare"])'
    <3> SUFFICES ASSUME at'[p] = "preparation" PROVE Ready(p, tries[p]["prepare"])'
      OBVIOUS
    <3>1. at[p] = "transform" /\ Own(p, "transform") \in ended'[p]
      BY SMT DEF Typed, ImportSource, TransformSource, Awaited, Go, Stopped
    <3> QED  BY <1>2, <3>1, SMT DEF PlaceInv, Prepared, Ready, Own
  <2> QED  BY <1>2, <2>1, <2>2, SMT DEF PlaceInv, Prepared, Ready, Readable, Own
<1>4. WrittenSoFar(p)' /\ OneCampaign(p)' /\ (p \in Directories => DecisionKept(p)')
  BY <1>2, SMT DEF PlaceInv, WrittenSoFar, OneCampaign, DecisionKept, Readable, Try,
     Campaigning, Unsummed, Summed, Undecided
<1>5. p \in Runners => Recordable(p)'
  BY <1>2, SMT DEF PlaceInv, Recordable, Campaigning, Unsummed, Summed, Undecided, Ending
<1> QED  BY <1>1, <1>3, <1>4, <1>5 DEF PlaceInv

\* The input files: no output is touched, and the runner has not come to its campaign.
LEMMA InputKeeps ==
  ASSUME Typed, NEW p \in Places, PlaceInv(p),
         SavePreparation(p) \/ SaveWeather(p) \/ DescribeWeather(p) \/ SaveHandoff(p)
  PROVE  Typed' /\ PlaceInv(p)' /\ \A q \in Places \ {p} : Still(q)
<1> DEFINE Contents == Nat \cup {Torn, Unbound}
<1>1. at[p] \in Inputs /\ FileAt(at[p]) = at[p] /\ at[p] \in Files
  BY FileOfStep, SMT DEF SavePreparation, SaveWeather, DescribeWeather, SaveHandoff, Inputs, Files
<1>2. PICK content \in Contents, next \in {"fetch", "metadata", "bind", "verify", "idle"} :
          /\ Write(p, content, next)
          /\ p \in Runners => next # "idle"
          /\ at[p] = "preparation" => content = tries[p]["prepare"] /\ next \notin {"bind", "verify", "metadata"}
          /\ at[p] = "weather" => content = tries[p]["fetch"] /\ next = "metadata"
          /\ at[p] = "metadata" => content = tries[p]["fetch"] /\ next \notin {"fetch", "metadata"}
          /\ at[p] = "handoff" => next \notin {"fetch", "metadata"}
  <2>1. tries[p]["prepare"] \in Nat /\ tries[p]["fetch"] \in Nat
        /\ files[p]["preparation"] \in Contents
    BY SMT DEF Typed, Scripts, Files, Inputs
  <2>2. CASE SavePreparation(p)
    BY <2>1, <2>2, SMT DEF SavePreparation, Then
  <2>3. CASE SaveWeather(p)
    BY <2>1, <2>3, SMT DEF SaveWeather
  <2>4. CASE DescribeWeather(p)
    BY <2>1, <2>4, SMT DEF DescribeWeather, Then
  <2>5. CASE SaveHandoff(p)
    <3>1. at[p] = "handoff" /\ \E content \in Contents : Write(p, content, Then(p, "verify"))
      BY <2>1, <2>5 DEF SaveHandoff, Bindings
    <3>2. Then(p, "verify") \in {"verify", "idle"} /\ (p \in Runners => Then(p, "verify") # "idle")
      BY DEF Then
    <3> QED  BY <3>1, <3>2, SMT
  <2> QED  BY <2>2, <2>3, <2>4, <2>5
<1>3. /\ Typed' /\ \A q \in Places \ {p} : Still(q)
      /\ at'[p] = next /\ tries'[p] = tries[p] /\ ended'[p] = ended[p]
      /\ opened'[p] = opened[p]
      /\ files'[p] = [files[p] EXCEPT ![at[p]] = content]
      /\ loose'[p] \subseteq loose[p] \cup {at[p]}
      /\ DOMAIN files[p] = Files
  BY <1>1, <1>2, WriteEffect, SMT DEF Typed
<1>4. Prepared(p)'
  BY <1>1, <1>2, <1>3, SMT DEF PlaceInv, Prepared, Ready, Readable, Own, Files, Inputs
<1>5. \A f \in Outputs : files'[p][f] = files[p][f] /\ f # at[p]
  BY <1>1, <1>3, SMT DEF Inputs, Outputs, Files
<1>6. WrittenSoFar(p)' /\ OneCampaign(p)' /\ (p \in Directories => DecisionKept(p)')
  <2>1. "selection" \in Outputs /\ "manifest" \in Outputs
    BY SMT DEF Outputs
  <2> QED  BY <1>2, <1>3, <1>5, <2>1, SMT DEF PlaceInv, WrittenSoFar, OneCampaign,
     DecisionKept, Readable, Try, Campaigning, Unsummed, Summed, Undecided
<1>7. p \in Runners => Recordable(p)'
  BY <1>1, <1>2, <1>3, SMT DEF PlaceInv, Recordable, Campaigning, Unsummed, Summed, Undecided,
     Ending, Inputs, Files
<1> QED  BY <1>3, <1>4, <1>6, <1>7 DEF PlaceInv

\* Verifying, and the campaign's start and search: nothing is written.
LEMMA CampaignBegins ==
  ASSUME Typed, NEW p \in Places, PlaceInv(p), Start(p)
  PROVE  Typed' /\ PlaceInv(p)' /\ \A q \in Places \ {p} : Still(q)
<1>1. /\ Begin(p, "run", IF Bound(p) THEN "search" ELSE Stopped(p))
      /\ UNCHANGED <<ended, files, loose, opened>>
  BY DEF Start
<1>2. Typed' /\ \A q \in Places \ {p} : Still(q)
  BY <1>1, BeginEffect DEF Scripts
<1>3. /\ at'[p] = (IF Bound(p) THEN "search" ELSE Stopped(p)) /\ at[p] \in {"run", "idle"}
      /\ tries'[p] = [tries[p] EXCEPT !["run"] = @ + 1]
      /\ ended'[p] = ended[p] /\ files'[p] = files[p] /\ loose'[p] = loose[p]
      /\ opened'[p] = opened[p]
  BY <1>1, BeginEffect DEF Scripts
<1>4. /\ Try(p) \in Nat /\ Try(p)' = Try(p) + 1
      /\ tries'[p]["prepare"] = tries[p]["prepare"] /\ tries'[p]["fetch"] = tries[p]["fetch"]
  BY <1>3, SMT DEF Typed, Try, Scripts
<1>5. at'[p] \in {"search", "failed", "idle"} /\ (p \in Runners => at'[p] # "idle")
  BY <1>3, SMT DEF Stopped
<1>6. Prepared(p)'
  BY <1>3, <1>4, <1>5, SMT DEF PlaceInv, Prepared, Ready, Readable, Own
<1>7. WrittenSoFar(p)'
  <2>1. Made("search") = {} /\ "manifest" \in Outputs
    BY SMT DEF Made, BeforeTest, Outputs
  <2> QED  BY <1>3, <1>4, <1>5, <2>1, CampaignAssumption, SMT DEF PlaceInv, WrittenSoFar,
     Campaigning, Unsummed, Summed, Undecided
<1>8. OneCampaign(p)' /\ (p \in Directories => DecisionKept(p)')
  BY <1>3, <1>4, SMT DEF PlaceInv, WrittenSoFar, OneCampaign, DecisionKept, Readable
<1>9. p \in Runners => Recordable(p)'
  <2>1. Bound(p)' <=> Bound(p)
    BY <1>3, SMT DEF Bound, Readable
  <2> QED  BY <1>3, <1>5, <2>1, SMT DEF PlaceInv, Recordable, Campaigning, Unsummed, Summed,
     Undecided, Ending, Stopped
<1> QED  BY <1>2, <1>6, <1>7, <1>8, <1>9 DEF PlaceInv

LEMMA LookKeeps ==
  ASSUME Typed, NEW p \in Places, PlaceInv(p), Verify(p) \/ Search(p)
  PROVE  Typed' /\ PlaceInv(p)' /\ \A q \in Places \ {p} : Still(q)
<1>1. /\ Typed' /\ \A q \in Places \ {p} : Still(q)
      /\ UNCHANGED <<tries, ended, files, loose, opened>>
      /\ \/ at[p] = "verify" /\ at'[p] \in {"run", "failed", "idle"}
         \/ at[p] = "search" /\ at'[p] \in {"selection", "failed", "idle"}
      /\ p \in Runners => at'[p] # "idle"
  BY SMT DEF Typed, Still, Verify, Search, Go, Stopped
<1>2. Prepared(p)' /\ OneCampaign(p)' /\ (p \in Directories => DecisionKept(p)')
  BY <1>1, SMT DEF PlaceInv, Prepared, Ready, Readable, Own, OneCampaign, DecisionKept, Try
<1>3. WrittenSoFar(p)'
  <2>1. Made("selection") = {}
    BY SMT DEF Made, BeforeTest
  <2> QED  BY <1>1, <2>1, SMT DEF PlaceInv, WrittenSoFar, Try, Campaigning, Unsummed, Summed,
     Undecided
<1>4. p \in Runners => Recordable(p)'
  <2>1. Bound(p)' <=> Bound(p)
    BY <1>1, SMT DEF Bound, Readable
  <2> QED  BY <1>1, <2>1, SMT DEF PlaceInv, Recordable, Campaigning, Unsummed, Summed,
     Undecided, Ending
<1> QED  BY <1>1, <1>2, <1>3, <1>4 DEF PlaceInv

\* The final test is opened when the selection is there.
LEMMA OpeningKeeps ==
  ASSUME Typed, NEW p \in Places, PlaceInv(p), OpenFinalTest(p)
  PROVE  Typed' /\ PlaceInv(p)' /\ \A q \in Places \ {p} : Still(q)
<1>1. Try(p) \in Nat
  BY SMT DEF Typed, Try, Scripts
<1>2. /\ Typed' /\ \A q \in Places \ {p} : Still(q)
      /\ UNCHANGED <<tries, ended, files, loose>>
      /\ at[p] = "open" /\ at'[p] = "model"
      /\ opened'[p] = opened[p] \cup {Try(p)}
  BY <1>1, SMT DEF Typed, Still, OpenFinalTest, Go
<1>3. Prepared(p)' /\ OneCampaign(p)'
  BY <1>2, SMT DEF PlaceInv, Prepared, Ready, Readable, Own, OneCampaign
<1>4. Made("open") = {"selection"} /\ Made("model") = {"selection"}
  BY SMT DEF Made, BeforeTest
<1>5. files[p]["selection"] = Try(p) /\ Try(p) # 0
  BY <1>2, <1>4, SMT DEF PlaceInv, WrittenSoFar, Campaigning, Unsummed, Undecided
<1>6. WrittenSoFar(p)'
  BY <1>1, <1>2, <1>4, <1>5, SMT DEF PlaceInv, WrittenSoFar, Try, Campaigning, Unsummed, Summed,
     Undecided
<1>7. p \in Directories => DecisionKept(p)'
  BY <1>1, <1>2, <1>5, SMT DEF PlaceInv, WrittenSoFar, DecisionKept, Readable, Try
<1>8. p \in Runners => Recordable(p)'
  <2>1. (Bound(p)' <=> Bound(p)) /\ Try(p)' = Try(p)
    BY <1>2, SMT DEF Bound, Readable, Try
  <2> QED  BY <1>2, <2>1, SMT DEF PlaceInv, Recordable, Campaigning, Unsummed, Summed,
     Undecided, Ending
<1> QED  BY <1>2, <1>3, <1>6, <1>7, <1>8 DEF PlaceInv
\* A campaign writes f, next to what it has made, and is then at next.
Extends(p, f, next) ==
    /\ at[p] \in Campaigning \ {"search", "open"} /\ FileAt(at[p]) = f /\ f \in Outputs
    /\ "selection" \in Made(at[p]) \cup {f}
    /\ \/ /\ at[p] \in Unsummed /\ f # "manifest"
          /\ next \in Unsummed \ {"search", "selection"} /\ Made(next) \subseteq Made(at[p]) \cup {f}
       \/ /\ next \in Summed \cup {Then(p, "check")}
          /\ Outputs \ {"readme"} \subseteq Made(at[p]) \cup {f}
          /\ next # "readme" => Outputs \subseteq Made(at[p]) \cup {f}
    /\ at[p] \in Undecided <=> f = "selection"
    /\ next \in Undecided <=> f = "selection"

LEMMA OutputKeeps ==
  ASSUME Typed, NEW p \in Places, PlaceInv(p), NEW f, NEW next, Extends(p, f, next),
         Write(p, Try(p), next)
  PROVE  Typed' /\ PlaceInv(p)' /\ \A q \in Places \ {p} : Still(q)
<1>1. Try(p) \in Nat /\ f \in Files /\ Then(p, "check") \in {"check", "idle"}
      /\ (p \in Runners => Then(p, "check") = "check")
  BY SMT DEF Typed, Try, Scripts, Extends, Files, Then
<1>2. /\ Typed' /\ \A q \in Places \ {p} : Still(q)
      /\ at'[p] = next /\ tries'[p] = tries[p] /\ ended'[p] = ended[p]
      /\ opened'[p] = opened[p]
      /\ files'[p] = [files[p] EXCEPT ![f] = Try(p)]
      /\ loose'[p] \subseteq loose[p] \cup ({f} \ Synced)
  BY <1>1, WriteEffect DEF Extends
<1>3. DOMAIN files[p] = Files /\ Outputs \subseteq Files /\ Inputs \subseteq Files
      /\ Inputs \cap Outputs = {} /\ "selection" \in Outputs \cap Synced /\ "manifest" \in Outputs
  BY SMT DEF Typed, Files, Inputs, Outputs, Synced
<1>4. /\ \A g \in Made(at[p]) \cup {f} : files'[p][g] = Try(p)
      /\ \A g \in Files \ {f} : files'[p][g] = files[p][g]
      /\ Made(at[p]) \subseteq Outputs
  <2>1. Made(at[p]) \subseteq Outputs
    BY SMT DEF Made, BeforeTest, BeforeTables, BeforeManifest, Outputs
  <2> QED  BY <1>1, <1>2, <1>3, <2>1, SMT DEF PlaceInv, WrittenSoFar, Extends
<1>5. Try(p)' = Try(p) /\ Try(p) # 0
  BY <1>2, SMT DEF Try, PlaceInv, WrittenSoFar, Extends
<1>6. files'[p]["selection"] = Try(p)
  BY <1>4 DEF Extends
<1>7. at[p] \in Unsummed /\ f # "manifest" => files'[p]["manifest"] # Try(p)
  BY <1>3, <1>4, SMT DEF PlaceInv, WrittenSoFar
<1>8. Prepared(p)'
  <2>1. next \notin {"transform", "preparation"}
    BY <1>1, SMT DEF Extends, Unsummed, Summed, Undecided
  <2> QED  BY <1>2, <1>3, <1>4, <2>1, SMT DEF PlaceInv, Prepared, Ready, Readable, Extends, Inputs
<1>9. WrittenSoFar(p)'
  <2>1. next \in Campaigning => \A g \in Made(next) : files'[p][g] = Try(p)
    <3>1. next = "readme" => Made(next) = Outputs \ {"readme"}
      BY SMT DEF Made, BeforeTest, BeforeTables, BeforeManifest
    <3>2. next \in Summed => Made(next) \subseteq Outputs
      BY SMT DEF Made, BeforeTest, BeforeTables, BeforeManifest, Summed
    <3>3. Then(p, "check") \notin Campaigning
      BY <1>1, SMT DEF Campaigning, Unsummed, Summed, Undecided
    <3> QED  BY <1>1, <1>4, <3>1, <3>2, <3>3, SMT DEF Extends, Campaigning
  <2>2. next \in Unsummed => at[p] \in Unsummed /\ f # "manifest"
    BY <1>1, SMT DEF Extends, Unsummed, Summed, Undecided
  <2>3. \A g \in Outputs : files'[p][g] \in 0..Try(p) \cup {Torn}
    BY <1>1, <1>3, <1>4, SMT DEF PlaceInv, WrittenSoFar
  <2>4. next \in Undecided => Try(p) \notin opened[p]
    BY SMT DEF Extends, PlaceInv, WrittenSoFar
  <2>5. "selection" \notin loose'[p]
    BY <1>2, <1>3, SMT DEF PlaceInv, WrittenSoFar
  <2> QED  BY <1>2, <1>5, <1>7, <2>1, <2>2, <2>3, <2>4, <2>5, SMT DEF PlaceInv, WrittenSoFar
<1>10. OneCampaign(p)'
  <2>1. CASE at[p] \in Unsummed /\ f # "manifest"
    BY <1>6, <1>7, <2>1, SMT DEF OneCampaign, Readable
  <2>2. CASE ~(at[p] \in Unsummed /\ f # "manifest")
    BY <1>4, <2>2, <1>3, SMT DEF OneCampaign, Extends
  <2> QED  BY <2>1, <2>2
<1>11. p \in Directories => DecisionKept(p)'
  BY <1>1, <1>2, <1>5, <1>6, SMT DEF PlaceInv, WrittenSoFar, DecisionKept, Readable
<1>12. p \in Runners => Recordable(p)'
  <2> SUFFICES ASSUME p \in Runners PROVE Recordable(p)'
    OBVIOUS
  <2>1. \A g \in Inputs : files'[p][g] = files[p][g]
    BY <1>3, <1>4, SMT DEF Extends
  <2>2. Bound(p)' <=> Bound(p)
    BY <2>1, SMT DEF Bound, Readable, Inputs
  <2>3. next \in Campaigning \cup {"check"} /\ at[p] \in Campaigning
    BY <1>1, SMT DEF Extends, Campaigning
  <2>4. next = "check" => \A g \in Outputs : files'[p][g] = Try(p)
    BY <1>4, SMT DEF Extends, Unsummed, Summed, Undecided
  <2>5. next \in (Campaigning \ Undecided) \cup Ending => Try(p) \in opened[p]
    <3>1. Ending \cap Undecided = {}
      BY SMT DEF Ending, Undecided
    <3> QED  BY <3>1, SMT DEF PlaceInv, Recordable, Extends
  <2>6. next \in Ending => next = "check"
    BY <2>3, SMT DEF Campaigning, Unsummed, Summed, Undecided, Ending
  <2>7. next \notin {"idle", "metadata"}
    BY <2>3, SMT DEF Campaigning, Unsummed, Summed, Undecided
  <2>8. Bound(p) /\ files[p]["weather"] = files[p]["metadata"]
    BY <2>3 DEF PlaceInv, Recordable
  <2> QED  BY <1>2, <1>5, <2>1, <2>2, <2>4, <2>5, <2>6, <2>7, <2>8, SMT DEF Recordable, Inputs
<1> QED  BY <1>2, <1>8, <1>9, <1>10, <1>11, <1>12 DEF PlaceInv

\* Each output, in the order of the script.
LEMMA OutputsExtend ==
  ASSUME NEW p \in Places
  PROVE
    /\ at[p] = "selection" => Extends(p, "selection", "open")
    /\ at[p] = "model" => Extends(p, "model", "forecast")
    /\ at[p] = "forecast" => Extends(p, "forecast", "benchmark")
    /\ at[p] = "benchmark" => Extends(p, "benchmark", "bootstrap")
    /\ at[p] = "bootstrap" => Extends(p, "bootstrap", "copies")
    /\ at[p] = "copies" => Extends(p, "copies", "tables")
    /\ at[p] = "tables" => Extends(p, "tables", "charts")
    /\ at[p] = "charts" => Extends(p, "charts", "manifest")
    /\ at[p] = "manifest" => Extends(p, "manifest", "readme")
    /\ at[p] = "readme" => Extends(p, "readme", "amend_manifest")
    /\ at[p] = "readme" /\ p \in Directories => Extends(p, "readme", "idle")
    /\ at[p] = "amend_manifest" => Extends(p, "manifest", "amend_benchmark")
    /\ at[p] = "amend_benchmark" => Extends(p, "benchmark", "amend_readme")
    /\ at[p] = "amend_readme" => Extends(p, "readme", Then(p, "check"))
<1>1. Then(p, "check") \notin Undecided
  BY SMT DEF Then, Undecided
<1> USE FileOfStep DEF Extends, Made, BeforeTest, BeforeTables, BeforeManifest, Files, Outputs,
    Campaigning, Unsummed, Summed, Undecided
<1>2. at[p] = "selection" => Extends(p, "selection", "open")
  BY SMT
<1>3. at[p] = "model" => Extends(p, "model", "forecast")
  BY SMT
<1>4. at[p] = "forecast" => Extends(p, "forecast", "benchmark")
  BY SMT
<1>5. at[p] = "benchmark" => Extends(p, "benchmark", "bootstrap")
  BY SMT
<1>6. at[p] = "bootstrap" => Extends(p, "bootstrap", "copies")
  BY SMT
<1>7. at[p] = "copies" => Extends(p, "copies", "tables")
  BY SMT
<1>8. at[p] = "tables" => Extends(p, "tables", "charts")
  BY SMT
<1>9. at[p] = "charts" => Extends(p, "charts", "manifest")
  BY SMT
<1>10. at[p] = "manifest" => Extends(p, "manifest", "readme")
  BY SMT
<1>11. at[p] = "readme" => Extends(p, "readme", "amend_manifest")
  BY SMT
<1>12. at[p] = "amend_manifest" => Extends(p, "manifest", "amend_benchmark")
  BY SMT
<1>13. at[p] = "amend_benchmark" => Extends(p, "benchmark", "amend_readme")
  BY SMT
<1>14. at[p] = "amend_readme" => Extends(p, "readme", Then(p, "check"))
  BY <1>1, SMT
<1>15. at[p] = "readme" /\ p \in Directories => Extends(p, "readme", "idle")
  <2>1. p \in Directories => Then(p, "check") = "idle"
    BY CampaignAssumption, SMT DEF Then
  <2> QED  BY <2>1, SMT
<1> QED  BY <1>2, <1>3, <1>4, <1>5, <1>6, <1>7, <1>8, <1>9, <1>10, <1>11, <1>12, <1>13, <1>14,
            <1>15

\* Whatever step a script takes in a place.
LEMMA ScriptKeeps ==
  ASSUME Typed, NEW p \in Places, PlaceInv(p), ScriptStep(p)
  PROVE  Typed' /\ PlaceInv(p)' /\ \A q \in Places \ {p} : Still(q)
<1>1. CASE Prepare(p) \/ Fetch(p) \/ Bind(p)
  BY <1>1, BeginKeeps DEF Prepare, Fetch, Bind, Scripts
<1>2. CASE ImportSource(p) \/ TransformSource(p)
  BY <1>2, JobKeeps
<1>3. CASE SavePreparation(p) \/ SaveWeather(p) \/ DescribeWeather(p) \/ SaveHandoff(p)
  BY <1>3, InputKeeps
<1>4. CASE Start(p)
  BY <1>4, CampaignBegins
<1>5. CASE Verify(p) \/ Search(p)
  BY <1>5, LookKeeps
<1>6. CASE OpenFinalTest(p)
  BY <1>6, OpeningKeeps
<1>7. CASE Select(p)
  BY <1>7, OutputsExtend, OutputKeeps DEF Select, Selection
<1>8. CASE BenchmarkSelected(p)
  BY <1>8, OutputsExtend, OutputKeeps DEF BenchmarkSelected
<1>9. CASE ForecastOnce(p)
  BY <1>9, OutputsExtend, OutputKeeps DEF ForecastOnce
<1>10. CASE SaveBenchmark(p)
  BY <1>10, OutputsExtend, OutputKeeps DEF SaveBenchmark
<1>11. CASE SaveBootstrap(p)
  BY <1>11, OutputsExtend, OutputKeeps DEF SaveBootstrap
<1>12. CASE CopyInputs(p)
  BY <1>12, OutputsExtend, OutputKeeps DEF CopyInputs
<1>13. CASE SaveTables(p)
  BY <1>13, OutputsExtend, OutputKeeps DEF SaveTables
<1>14. CASE DrawCharts(p)
  BY <1>14, OutputsExtend, OutputKeeps DEF DrawCharts
<1>15. CASE SaveManifest(p)
  BY <1>15, OutputsExtend, OutputKeeps DEF SaveManifest
<1>16. CASE SaveReadme(p)
  BY <1>16, OutputsExtend, OutputKeeps DEF SaveReadme
<1>17. CASE AmendManifest(p)
  BY <1>17, OutputsExtend, OutputKeeps DEF AmendManifest
<1>18. CASE AmendBenchmark(p)
  BY <1>18, OutputsExtend, OutputKeeps DEF AmendBenchmark
<1>19. CASE AmendReadme(p)
  BY <1>19, OutputsExtend, OutputKeeps DEF AmendReadme
<1> QED  BY <1>1, <1>2, <1>3, <1>4, <1>5, <1>6, <1>7, <1>8, <1>9, <1>10, <1>11, <1>12, <1>13, <1>14, <1>15, <1>16, <1>17, <1>18, <1>19 DEF ScriptStep

-----------------------------------------------------------------------------
(* Interruptions *)

\* A script is killed: the file that it was writing is torn, or a runner's files are gone.
LEMMA BreakKeeps ==
  ASSUME Typed, NEW p \in Places, PlaceInv(p), Break(p)
  PROVE  Typed' /\ PlaceInv(p)' /\ \A q \in Places \ {p} : Still(q)
<1>1. PICK left \in Left(p) : files' = [files EXCEPT ![p] = left]
  BY DEF Break
<1>2. at' = [at EXCEPT ![p] = Stopped(p)] /\ UNCHANGED <<tries, ended, loose, opened>>
      /\ at[p] \in Running
  BY DEF Break, Go
<1>3. left \in [Files -> Nat \cup {Torn, Unbound}]
  BY <1>1, SMT DEF Left, Typed
<1>4. Typed' /\ \A q \in Places \ {p} : Still(q)
  BY <1>1, <1>2, <1>3, SMT DEF Typed, Still
<1>5. /\ at'[p] \in {"failed", "idle"} /\ (p \in Runners <=> at'[p] = "failed")
      /\ files'[p] = left /\ Try(p) \in Nat /\ Try(p)' = Try(p)
  BY <1>1, <1>2, SMT DEF Typed, Stopped, Try, Scripts
<1>6. \/ p \in Runners /\ left = [f \in Files |-> 0]
      \/ /\ p \notin Runners
         /\ \A f \in Files : left[f] = files[p][f] \/ (left[f] = Torn /\ FileAt(at[p]) = f)
  BY SMT DEF Left, Stopped, Typed
<1>7. /\ "preparation" \in Files /\ Outputs \subseteq Files
      /\ "selection" \in Outputs /\ "manifest" \in Outputs
  BY SMT DEF Files, Inputs, Outputs
<1>8. Prepared(p)'
  BY <1>2, <1>5, <1>6, <1>7, CampaignAssumption, SMT DEF PlaceInv, Prepared, Ready, Readable
<1>9. WrittenSoFar(p)'
  BY <1>2, <1>5, <1>6, <1>7, SMT DEF PlaceInv, WrittenSoFar, Campaigning, Unsummed, Summed,
     Undecided
<1>10. OneCampaign(p)'
  BY <1>2, <1>5, <1>6, <1>7, CampaignAssumption, SMT DEF PlaceInv, OneCampaign, Readable
<1>11. p \in Directories => DecisionKept(p)'
  <2>1. FileAt(at[p]) = "selection" => at[p] = "selection"
    BY SMT DEF FileAt, Amended
  <2> QED  BY <1>2, <1>5, <1>6, <1>7, <2>1, CampaignAssumption, SMT DEF PlaceInv,
     DecisionKept, Readable, WrittenSoFar, Undecided
<1>12. p \in Runners => Recordable(p)'
  BY <1>5, SMT DEF Recordable, Campaigning, Unsummed, Summed, Undecided, Ending
<1> QED  BY <1>4, <1>8, <1>9, <1>10, <1>11, <1>12 DEF PlaceInv

\* The selection is never among what the power may tear, but when it is being written.
LEMMA PowerKeeps ==
  ASSUME Typed, NEW p \in Places, PlaceInv(p), LosePower(p)
  PROVE  Typed' /\ PlaceInv(p)' /\ \A q \in Places \ {p} : Still(q)
<1>1. PICK lost \in SUBSET (loose[p] \cup (Files \cap {FileAt(at[p])})) :
          files' = [files EXCEPT ![p] = [f \in Files |-> IF f \in lost THEN Torn ELSE @[f]]]
  BY DEF LosePower
<1>2. /\ at' = [at EXCEPT ![p] = "idle"] /\ loose' = [loose EXCEPT ![p] = {}]
      /\ UNCHANGED <<tries, ended, opened>> /\ p \in Directories /\ p \notin Runners
  BY CampaignAssumption DEF LosePower, Go
<1>3. Typed' /\ \A q \in Places \ {p} : Still(q)
  BY <1>1, <1>2, SMT DEF Typed, Still
<1>4. /\ at'[p] = "idle" /\ loose'[p] = {} /\ Try(p) \in Nat /\ Try(p)' = Try(p)
      /\ files'[p] = [f \in Files |-> IF f \in lost THEN Torn ELSE files[p][f]]
  BY <1>1, <1>2, SMT DEF Typed, Try, Scripts
<1>5. /\ "preparation" \in Files /\ Outputs \subseteq Files
      /\ "selection" \in Outputs /\ "manifest" \in Outputs
  BY SMT DEF Files, Inputs, Outputs
<1>6. Prepared(p)'
  BY <1>2, <1>4, <1>5, CampaignAssumption, SMT DEF PlaceInv, Prepared, Ready, Readable
<1>7. WrittenSoFar(p)'
  BY <1>2, <1>4, <1>5, SMT DEF PlaceInv, WrittenSoFar, Campaigning, Unsummed, Summed, Undecided
<1>8. OneCampaign(p)'
  BY <1>2, <1>4, <1>5, CampaignAssumption, SMT DEF PlaceInv, OneCampaign, Readable
<1>9. DecisionKept(p)'
  <2>1. "selection" \in lost => at[p] = "selection"
    BY SMT DEF FileAt, Amended, PlaceInv, WrittenSoFar
  <2> QED  BY <1>2, <1>4, <1>5, <2>1, CampaignAssumption, SMT DEF PlaceInv, DecisionKept,
     Readable, WrittenSoFar, Undecided
<1> QED  BY <1>2, <1>3, <1>6, <1>7, <1>8, <1>9 DEF PlaceInv
-----------------------------------------------------------------------------
(* The workflow's own steps *)

LEMMA BegunKeeps ==
  ASSUME Typed, NEW p \in Runners, PlaceInv(p), NEW commit, Begun(p, commit)
  PROVE  Typed' /\ PlaceInv(p)' /\ \A q \in Places \ {p} : Still(q)
<1>1. /\ Typed' /\ \A q \in Places \ {p} : Still(q)
      /\ UNCHANGED <<tries, ended, files, loose, opened>>
      /\ at[p] = "free" /\ at'[p] = "prepare"
  BY SMT DEF Typed, Still, Begun, Go, Places
<1>2. Prepared(p)' /\ OneCampaign(p)' /\ (p \in Directories => DecisionKept(p)')
  BY <1>1, SMT DEF PlaceInv, Prepared, Ready, Readable, Own, OneCampaign, DecisionKept, Try
<1>3. WrittenSoFar(p)'
  BY <1>1, SMT DEF PlaceInv, WrittenSoFar, Try, Campaigning, Unsummed, Summed, Undecided
<1>4. Recordable(p)'
  BY <1>1, SMT DEF Recordable, Campaigning, Unsummed, Summed, Undecided, Ending
<1> QED  BY <1>1, <1>2, <1>3, <1>4 DEF PlaceInv

LEMMA EndingKeeps ==
  ASSUME Typed, NEW p \in Runners, PlaceInv(p), Check(p) \/ Commit(p) \/ PushEvidence(p)
  PROVE  Typed' /\ PlaceInv(p)' /\ \A q \in Places \ {p} : Still(q)
<1>1. /\ Typed' /\ \A q \in Places \ {p} : Still(q)
      /\ UNCHANGED <<tries, ended, files, loose, opened>>
      /\ at[p] \in Ending /\ at'[p] \in Ending \cup {"failed"}
  BY SMT DEF Typed, Still, Check, Commit, PushEvidence, Go, Places, Stopped, Ending
<1>2. Prepared(p)' /\ OneCampaign(p)' /\ (p \in Directories => DecisionKept(p)')
  BY <1>1, SMT DEF PlaceInv, Prepared, Ready, Readable, Own, OneCampaign, DecisionKept, Try,
     Ending
<1>3. WrittenSoFar(p)'
  BY <1>1, SMT DEF PlaceInv, WrittenSoFar, Try, Campaigning, Unsummed, Summed, Undecided, Ending
<1>4. Recordable(p)'
  <2>1. (Bound(p)' <=> Bound(p)) /\ Try(p)' = Try(p)
    BY <1>1, SMT DEF Bound, Readable, Try
  <2> QED  BY <1>1, <2>1, SMT DEF PlaceInv, Recordable, Campaigning, Unsummed, Summed,
     Undecided, Ending
<1> QED  BY <1>1, <1>2, <1>3, <1>4 DEF PlaceInv

Settled == {"done", "refused"}

\* Of the steps of a place only a push makes a run end as done or refused.
LEMMA StepMoves ==
  ASSUME Typed, NEW p \in Places,
         ScriptStep(p) \/ Check(p) \/ Commit(p) \/ Break(p) \/ LosePower(p),
         NEW r \in Runners, at[r] \in Settled \/ at'[r] \in Settled
  PROVE  at'[r] = at[r]
<1> SUFFICES /\ p \in Runners => at[p] \notin Settled /\ at'[p] \notin Settled
             /\ \A q \in Places \ {p} : at'[q] = at[q]
  BY SMT DEF Places
<1> USE DEF Typed, Settled, Go
<1>1. CASE Prepare(p) \/ Fetch(p) \/ Bind(p) \/ Start(p)
  BY <1>1, SMT DEF Prepare, Fetch, Bind, Start, Begin, Stopped
<1>2. CASE ImportSource(p) \/ TransformSource(p) \/ Verify(p) \/ Search(p) \/ OpenFinalTest(p)
  BY <1>2, SMT DEF ImportSource, TransformSource, Verify, Search, OpenFinalTest, Stopped
<1>3. CASE SavePreparation(p) \/ SaveWeather(p) \/ DescribeWeather(p) \/ SaveHandoff(p)
  BY <1>3, SMT DEF SavePreparation, SaveWeather, DescribeWeather, SaveHandoff, Write, Then
<1>4. CASE Select(p) \/ BenchmarkSelected(p) \/ ForecastOnce(p) \/ SaveBenchmark(p)
           \/ SaveBootstrap(p) \/ CopyInputs(p)
  BY <1>4, SMT DEF Select, BenchmarkSelected, ForecastOnce, SaveBenchmark, SaveBootstrap,
     CopyInputs, Write
<1>5. CASE SaveTables(p) \/ DrawCharts(p) \/ SaveManifest(p) \/ SaveReadme(p)
           \/ AmendManifest(p) \/ AmendBenchmark(p) \/ AmendReadme(p)
  BY <1>5, SMT DEF SaveTables, DrawCharts, SaveManifest, SaveReadme, AmendManifest,
     AmendBenchmark, AmendReadme, Write, Then
<1>6. CASE Check(p) \/ Commit(p)
  BY <1>6, SMT DEF Check, Commit, Differs, Stopped
<1>7. CASE Break(p)
  <2>1. Running \cap Settled = {}
    BY SMT DEF Running, Files, Inputs, Outputs, Amended
  <2> QED  BY <1>7, <2>1, SMT DEF Break, Stopped
<1>8. CASE LosePower(p)
  BY <1>8, CampaignAssumption, SMT DEF LosePower
<1> QED  BY <1>1, <1>2, <1>3, <1>4, <1>5, <1>6, <1>7, <1>8 DEF ScriptStep

-----------------------------------------------------------------------------
(* The branch *)

\* Appending leaves what was there, and what it says of the commits up to there.
LEMMA Appended ==
  ASSUME EvidenceStands, NEW e \in {"code"} \cup Runners, branch' = Append(branch, e)
  PROVE  /\ branch' \in Seq({"code"} \cup Runners) /\ Len(branch) \in Nat
         /\ Len(branch') = Len(branch) + 1 /\ branch'[Len(branch) + 1] = e
         /\ \A i \in 1..Len(branch) : branch'[i] = branch[i]
         /\ \A i \in 0..Len(branch) : CodeUpTo(i)' = CodeUpTo(i)
<1>1. /\ branch' \in Seq({"code"} \cup Runners) /\ Len(branch) \in Nat
      /\ Len(branch') = Len(branch) + 1 /\ branch'[Len(branch) + 1] = e
      /\ \A i \in 1..Len(branch) : branch'[i] = branch[i]
  BY SMT DEF EvidenceStands
<1>2. ASSUME NEW i \in 0..Len(branch) PROVE CodeUpTo(i)' = CodeUpTo(i)
  BY <1>1, SMT DEF CodeUpTo
<1> QED  BY <1>1, <1>2

LEMMA QuietKeeps ==
  ASSUME Typed, EvidenceStands, PushesAreStudied, NEW p \in Places, UNCHANGED <<branch, base>>,
         ScriptStep(p) \/ Check(p) \/ Commit(p) \/ Break(p) \/ LosePower(p)
  PROVE  EvidenceStands' /\ PushesAreStudied'
<1>1. \A r \in Runners : at[r] \in Settled \/ at'[r] \in Settled => at'[r] = at[r]
  BY StepMoves
<1>2. EvidenceStands'
  BY <1>1, SMT DEF EvidenceStands, Settled
<1>3. PushesAreStudied'
  BY <1>1, SMT DEF PushesAreStudied, EvidenceOf, CodeUpTo, Settled
<1> QED  BY <1>2, <1>3

\* A run begins on a commit of the branch, and no evidence is its own yet.
LEMMA BegunBranch ==
  ASSUME Typed, EvidenceStands, PushesAreStudied, NEW p \in Runners,
         PushCode(p) \/ Dispatch(p) \/ RunAgain(p)
  PROVE  EvidenceStands' /\ PushesAreStudied'
<1>1. ASSUME NEW commit, Begun(p, commit)
      PROVE  /\ at[p] = "free" /\ at' = [at EXCEPT ![p] = "prepare"]
             /\ base' = [base EXCEPT ![p] = commit]
  BY <1>1 DEF Begun, Go
<1>2. CASE PushCode(p)
  <2>1. /\ branch' = Append(branch, "code") /\ at[p] = "free" /\ at' = [at EXCEPT ![p] = "prepare"]
        /\ base' = [base EXCEPT ![p] = Len(branch) + 1]
    BY <1>1, <1>2 DEF PushCode
  <2>2. /\ branch' \in Seq({"code"} \cup Runners) /\ Len(branch) \in Nat
        /\ Len(branch') = Len(branch) + 1 /\ branch'[Len(branch) + 1] = "code"
        /\ \A i \in 1..Len(branch) : branch'[i] = branch[i]
    BY <2>1, Appended
  <2>3. EvidenceStands'
    BY <2>1, <2>2, StudyAssumption, SMT DEF EvidenceStands, Typed, Places
  <2>4. ASSUME NEW r \in Runners, at'[r] \in Settled
        PROVE  \E k \in CodeUpTo(Len(branch))' : k > base'[r]
    <3>1. base'[r] \in 0..Len(branch)
      BY <2>1, <2>4, SMT DEF EvidenceStands, Typed, Places, Settled
    <3>2. Len(branch') \in CodeUpTo(Len(branch))'
      BY <2>2, SMT DEF CodeUpTo
    <3> QED  BY <2>2, <3>1, <3>2, SMT
  <2> QED  BY <2>3, <2>4 DEF PushesAreStudied, Settled
<1>3. CASE Dispatch(p) \/ RunAgain(p)
  <2>1. PICK commit \in 0..Len(branch) :
          /\ UNCHANGED branch /\ at[p] = "free" /\ at' = [at EXCEPT ![p] = "prepare"]
          /\ base' = [base EXCEPT ![p] = commit]
    <3>1. CASE Dispatch(p)
      BY <1>1, <3>1, SMT DEF Dispatch, EvidenceStands
    <3>2. CASE RunAgain(p)
      BY <1>1, <3>2, SMT DEF RunAgain, EvidenceStands
    <3> QED  BY <1>3, <3>1, <3>2
  <2>2. EvidenceStands'
    BY <2>1, SMT DEF EvidenceStands, Typed, Places
  <2>3. ASSUME NEW r \in Runners \ {p} PROVE at'[r] = at[r] /\ base'[r] = base[r]
    BY <2>1, SMT DEF EvidenceStands, Typed, Places
  <2>4. ASSUME NEW i \in Nat PROVE CodeUpTo(i)' = CodeUpTo(i)
    BY <2>1 DEF CodeUpTo
  <2>5. \A j \in DOMAIN branch : branch[j] \in Runners => branch[j] # p
    BY <2>1, SMT DEF EvidenceStands
  <2>6. ASSUME NEW r \in Runners, at'[r] \in Settled
        PROVE  \/ EvidenceOf(CodeUpTo(base[r]))' # {}
               \/ \E k \in CodeUpTo(Len(branch))' : k > base'[r]
    <3>1. r # p /\ at[r] \in Settled /\ base'[r] = base[r] /\ base[r] \in Nat /\ Len(branch) \in Nat
      BY <2>1, <2>3, <2>6, SMT DEF Settled, Typed, Places, EvidenceStands
    <3>2. CASE EvidenceOf(CodeUpTo(base[r])) # {}
      <4>1. PICK j \in DOMAIN branch : branch[j] \in Runners
                                       /\ CodeUpTo(base[branch[j]]) = CodeUpTo(base[r])
        BY <3>2 DEF EvidenceOf
      <4>2. base'[branch[j]] = base[branch[j]] /\ base[branch[j]] \in Nat
        BY <2>3, <2>5, <4>1, SMT DEF EvidenceStands
      <4>3. CodeUpTo(base[branch[j]])' = CodeUpTo(base[r])'
        BY <2>1, <3>1, <4>1, <4>2 DEF CodeUpTo
      <4> QED  BY <2>1, <4>1, <4>3 DEF EvidenceOf
    <3>3. CASE \E k \in CodeUpTo(Len(branch)) : k > base[r]
      BY <2>1, <3>1, <3>3 DEF CodeUpTo
    <3> QED  BY <3>1, <3>2, <3>3 DEF PushesAreStudied, Settled
  <2> QED  BY <2>2, <2>6 DEF PushesAreStudied, Settled
<1> QED  BY <1>2, <1>3

\* Git takes the evidence of a run right after its commit, or something else is there.
LEMMA PushKeeps ==
  ASSUME Typed, EvidenceStands, PushesAreStudied, NEW p \in Runners, PushEvidence(p)
  PROVE  EvidenceStands' /\ PushesAreStudied'
<1>1. at[p] = "push" /\ base' = base /\ Len(branch) \in Nat /\ base[p] \in 0..Len(branch)
  BY SMT DEF PushEvidence, EvidenceStands
<1>2. CASE MayPush(p)
  <2>1. branch' = Append(branch, p) /\ at' = [at EXCEPT ![p] = "done"] /\ base[p] = Len(branch)
    BY <1>2, SMT DEF PushEvidence, MayPush, Go
  <2>2. /\ branch' \in Seq({"code"} \cup Runners)
        /\ Len(branch') = Len(branch) + 1 /\ branch'[Len(branch) + 1] = p
        /\ \A i \in 1..Len(branch) : branch'[i] = branch[i]
        /\ \A i \in 0..Len(branch) : CodeUpTo(i)' = CodeUpTo(i)
        /\ DOMAIN branch = 1..Len(branch) /\ DOMAIN branch' = 1..(Len(branch) + 1)
    <3>1. /\ branch' \in Seq({"code"} \cup Runners)
          /\ Len(branch') = Len(branch) + 1 /\ branch'[Len(branch) + 1] = p
          /\ \A i \in 1..Len(branch) : branch'[i] = branch[i]
          /\ \A i \in 0..Len(branch) : CodeUpTo(i)' = CodeUpTo(i)
      BY <2>1, Appended
    <3>2. DOMAIN branch = 1..Len(branch) /\ DOMAIN branch' = 1..Len(branch')
      BY <3>1, SMT DEF EvidenceStands
    <3> QED  BY <3>1, <3>2
  <2>3. EvidenceStands'
    BY <1>1, <2>1, <2>2, SMT DEF EvidenceStands, Typed, Places
  <2>4. ASSUME NEW r \in Runners, at'[r] \in Settled
        PROVE  \/ EvidenceOf(CodeUpTo(base[r]))' # {}
               \/ \E k \in CodeUpTo(Len(branch))' : k > base'[r]
    <3>1. CASE r = p
      <4>1. Len(branch) + 1 \in EvidenceOf(CodeUpTo(base[r]))'
        BY <1>1, <2>2, <3>1, SMT DEF EvidenceOf
      <4> QED  BY <4>1
    <3>2. CASE r # p
      <4>1. at[r] \in Settled /\ base[r] \in 0..Len(branch) /\ base'[r] = base[r]
        BY <1>1, <2>1, <2>4, <3>2, SMT DEF Typed, Places, EvidenceStands
      <4>2. CASE EvidenceOf(CodeUpTo(base[r])) # {}
        <5>1. PICK j \in DOMAIN branch : branch[j] \in Runners
                                         /\ CodeUpTo(base[branch[j]]) = CodeUpTo(base[r])
          BY <4>2 DEF EvidenceOf
        <5>2. base[branch[j]] \in 0..Len(branch) /\ j \in 1..Len(branch)
          BY <2>2, <5>1, SMT DEF EvidenceStands
        <5>3. j \in DOMAIN branch' /\ branch'[j] = branch[j]
          BY <1>1, <2>2, <5>2, SMT
        <5>4. CodeUpTo(base[branch[j]])' = CodeUpTo(base[r])'
          BY <1>1, <2>2, <4>1, <5>1, <5>2, <5>3
        <5>5. j \in EvidenceOf(CodeUpTo(base[r]))'
          BY <5>1, <5>3, <5>4 DEF EvidenceOf
        <5> QED  BY <5>5
      <4>3. CASE \E k \in CodeUpTo(Len(branch)) : k > base[r]
        BY <1>1, <2>2, <4>1, <4>3, SMT DEF CodeUpTo
      <4> QED  BY <4>1, <4>2, <4>3 DEF PushesAreStudied, Settled
    <3> QED  BY <3>1, <3>2
  <2> QED  BY <2>3, <2>4 DEF PushesAreStudied, Settled
<1>3. CASE ~MayPush(p)
  <2>1. branch' = branch /\ at' = [at EXCEPT ![p] = "refused"] /\ base[p] + 1 \in DOMAIN branch
    BY <1>1, <1>3, SMT DEF PushEvidence, MayPush, Go, EvidenceStands
  <2>2. EvidenceStands'
    BY <1>1, <2>1, SMT DEF EvidenceStands, Typed, Places
  <2>3. ASSUME NEW r \in Runners PROVE EvidenceOf(CodeUpTo(base[r]))' = EvidenceOf(CodeUpTo(base[r]))
                                        /\ CodeUpTo(Len(branch))' = CodeUpTo(Len(branch))
    BY <1>1, <2>1 DEF EvidenceOf, CodeUpTo
  <2>4. \/ EvidenceOf(CodeUpTo(base[p])) # {}
        \/ \E k \in CodeUpTo(Len(branch)) : k > base[p]
    <3>1. CASE branch[base[p] + 1] = "code"
      <4>1. base[p] + 1 \in CodeUpTo(Len(branch))
        BY <1>1, <2>1, <3>1, SMT DEF CodeUpTo, EvidenceStands
      <4> QED  BY <1>1, <4>1, SMT
    <3>2. CASE branch[base[p] + 1] # "code"
      <4>1. branch[base[p] + 1] \in Runners
        BY <2>1, <3>2, SMT DEF EvidenceStands
      <4>2. base[branch[base[p] + 1]] = base[p]
        BY <1>1, <2>1, <4>1, SMT DEF EvidenceStands
      <4>3. base[p] + 1 \in EvidenceOf(CodeUpTo(base[p]))
        BY <2>1, <4>1, <4>2 DEF EvidenceOf
      <4> QED  BY <4>3
    <3> QED  BY <3>1, <3>2
  <2>5. \A r \in Runners : at'[r] \in Settled => r = p \/ at[r] \in Settled
    BY <2>1, SMT DEF Typed, Places
  <2> QED  BY <1>1, <2>2, <2>3, <2>4, <2>5 DEF PushesAreStudied, Settled
<1> QED  BY <1>2, <1>3

-----------------------------------------------------------------------------
(* The theorems *)

LEMMA StudyInvInit == StudyInit => StudyInv
<1> SUFFICES ASSUME StudyInit PROVE StudyInv
  OBVIOUS
<1>1. /\ at \in {[p \in Places |-> IF p \in Runners THEN "free" ELSE "off"],
                [p \in Places |-> IF p \in Runners THEN "off" ELSE "idle"]}
      /\ tries = [p \in Places |-> [s \in Scripts |-> 0]]
      /\ ended = [p \in Places |-> {}]
      /\ files = [p \in Places |-> [f \in Files |-> 0]]
      /\ loose = [p \in Places |-> {}] /\ opened = [p \in Places |-> {}]
      /\ branch = <<>> /\ base = [p \in Runners |-> 0]
  BY DEF StudyInit, CampaignInit
<1>2. Typed
  BY <1>1, SMT DEF Typed
<1>3. \A p \in Places : at[p] \in {"free", "off", "idle"} /\ (p \in Runners => at[p] # "idle")
  <2>1. CASE at = [p \in Places |-> IF p \in Runners THEN "free" ELSE "off"]
    BY <2>1, SMT
  <2>2. CASE at = [p \in Places |-> IF p \in Runners THEN "off" ELSE "idle"]
    BY <2>2, SMT
  <2> QED  BY <1>1, <2>1, <2>2
<1>4. ASSUME NEW p \in Places PROVE PlaceInv(p)
  <2>1. /\ ended[p] = {} /\ loose[p] = {} /\ opened[p] = {} /\ Try(p) = 0
        /\ \A f \in Files : files[p][f] = 0
    BY <1>1, SMT DEF Try, Scripts
  <2>2. Prepared(p)
    BY <1>3, <2>1, SMT DEF Prepared, Readable, Files, Inputs
  <2>3. "manifest" \in Files /\ Outputs \subseteq Files
    BY SMT DEF Files, Outputs
  <2>4. WrittenSoFar(p) /\ OneCampaign(p) /\ DecisionKept(p)
    BY <1>3, <2>1, <2>3, SMT DEF WrittenSoFar, OneCampaign, DecisionKept, Readable, Campaigning,
       Unsummed, Summed, Undecided
  <2>5. p \in Runners => Recordable(p)
    BY <1>3, SMT DEF Recordable, Campaigning, Unsummed, Summed, Undecided, Ending
  <2> QED  BY <2>2, <2>4, <2>5 DEF PlaceInv
<1>5. EvidenceStands
  BY <1>1, SMT DEF EvidenceStands
<1>6. PushesAreStudied
  BY <1>3, SMT DEF PushesAreStudied, Places
<1> QED  BY <1>2, <1>4, <1>5, <1>6 DEF StudyInv

LEMMA StudyInvNext == StudyInv /\ [Next]_vars => StudyInv'
<1> SUFFICES ASSUME StudyInv, [Next]_vars PROVE StudyInv'
  OBVIOUS
<1> USE DEF StudyInv
<1>1. ASSUME NEW p \in Places, Typed', PlaceInv(p)', \A q \in Places \ {p} : Still(q),
             EvidenceStands' /\ PushesAreStudied'
      PROVE  StudyInv'
  BY <1>1, StillKeeps
<1>2. CASE \E p \in Runners : PushCode(p) \/ Dispatch(p) \/ RunAgain(p)
  <2>1. PICK p \in Runners : PushCode(p) \/ Dispatch(p) \/ RunAgain(p)
    BY <1>2
  <2>2. PICK commit : Begun(p, commit)
    BY <2>1 DEF PushCode, Dispatch, RunAgain
  <2> QED  BY <1>1, <2>1, <2>2, BegunKeeps, BegunBranch DEF Places
<1>3. CASE \E p \in Places : ScriptStep(p) /\ UNCHANGED <<branch, base>>
  BY <1>1, <1>3, ScriptKeeps, QuietKeeps
<1>4. CASE \E p \in Runners : Check(p) \/ Commit(p)
  <2>1. PICK p \in Runners : (Check(p) \/ Commit(p)) /\ UNCHANGED <<branch, base>>
    BY <1>4 DEF Check, Commit
  <2> QED  BY <1>1, <2>1, EndingKeeps, QuietKeeps DEF Places
<1>5. CASE \E p \in Runners : PushEvidence(p)
  BY <1>1, <1>5, EndingKeeps, PushKeeps DEF Places
<1>6. CASE \E p \in Places : (Break(p) \/ LosePower(p)) /\ UNCHANGED <<branch, base>>
  BY <1>1, <1>6, BreakKeeps, PowerKeeps, QuietKeeps
<1>7. CASE UNCHANGED vars
  <2>1. \A q \in Places : Still(q)
    BY <1>7 DEF Still, vars, places
  <2>2. Typed'
    BY <1>7, SMT DEF Typed, vars, places
  <2>3. EvidenceStands'
    BY <1>7, SMT DEF EvidenceStands, vars, places
  <2>4. PushesAreStudied'
    BY <1>7, SMT DEF PushesAreStudied, EvidenceOf, CodeUpTo, vars, places
  <2> QED  BY <2>1, <2>2, <2>3, <2>4, StillKeeps
<1> QED  BY <1>2, <1>3, <1>4, <1>5, <1>6, <1>7 DEF Next, RunnerStep, Places

\* The invariant holds of every reachable state.
THEOREM StudyHolds == StudySpec => []StudyInv
BY StudyInvInit, StudyInvNext, PTL DEF StudySpec

\* A campaign that has asked for the final test has left its selection in its directory,
\* whatever was interrupted.
THEOREM DecisionsAreKept == StudySpec => []OpenedTestsHaveTheirSelection
<1>1. StudyInv => OpenedTestsHaveTheirSelection
  BY SMT DEF StudyInv, PlaceInv, DecisionKept, OpenedTestsHaveTheirSelection, Places
<1> QED  BY <1>1, StudyHolds, PTL

\* A manifest next to its selection stands for one campaign.
THEOREM EvidenceIsNotMixed == StudySpec => []NoMixedEvidence
<1>1. StudyInv => NoMixedEvidence
  BY SMT DEF StudyInv, PlaceInv, OneCampaign, NoMixedEvidence
<1> QED  BY <1>1, StudyHolds, PTL

\* A preparation stands for its own version.
THEOREM PreparationsHold == StudySpec => []PreparationsAreReady
<1>1. StudyInv => PreparationsAreReady
  BY DEF StudyInv, PlaceInv, Prepared, Ready, PreparationsAreReady
<1> QED  BY <1>1, StudyHolds, PTL

\* What is on the branch was written by one campaign, from its start to its end.
THEOREM RecordsAreWhole == StudySpec => []RecordedEvidenceIsWhole
<1>1. StudyInv => RecordedEvidenceIsWhole
  <2> SUFFICES ASSUME StudyInv, NEW p \in Runners, NEW i \in DOMAIN branch, branch[i] = p
               PROVE  /\ \A f \in Outputs : files[p][f] = Try(p)
                      /\ Try(p) \in opened[p]
                      /\ Bound(p) /\ files[p]["weather"] = files[p]["metadata"]
    BY DEF RecordedEvidenceIsWhole
  <2>1. at[p] = "done" /\ Recordable(p)
    BY DEF StudyInv, EvidenceStands, PlaceInv, Places
  <2> QED  BY <2>1, SMT DEF Recordable, Ending
<1> QED  BY <1>1, StudyHolds, PTL

\* Evidence follows the code it was made from.
THEOREM EvidenceHasItsCode == StudySpec => []EvidenceFollowsItsCode
<1>1. StudyInv => EvidenceFollowsItsCode
  BY DEF StudyInv, EvidenceStands, EvidenceFollowsItsCode
<1> QED  BY <1>1, StudyHolds, PTL

\* A run that has come to its push leaves its code studied, or outdated.
THEOREM NoRunIsInVain == StudySpec => []PushesAreStudied
<1>1. StudyInv => PushesAreStudied
  BY DEF StudyInv
<1> QED  BY <1>1, StudyHolds, PTL
=============================================================================
