--------------------------- MODULE DatasetCatalog ---------------------------
(***************************************************************************)
(* The dataset catalogue and the artifact store: requests that write a file *)
(* under the artifact root, then its row in app.artifacts, then the rows    *)
(* that refer to it, with no transaction around the three, next to requests *)
(* that delete datasets and stage transformations.                          *)
(*                                                                          *)
(* A request that writes an artifact gives it its own name: storage keys    *)
(* and artifact ids are fresh UUIDs, and each request draws one of each.    *)
(* Temporary files are left out, for nothing reads them.  A transaction     *)
(* that locks a dataset row is two steps: lock and read, write and commit.  *)
(* The unique constraints of dataset_versions are left out: they would      *)
(* refuse nothing, as NumbersAndSourcesAreUnique says.                      *)
(***************************************************************************)
EXTENDS Naturals, FiniteSets

CONSTANTS
    Datasets,    \* dataset ids
    Requests,    \* requests to the API, artifact ids and storage keys
    Contents,    \* checksums of what is uploaded
    NoContent,   \* source_sha256 = NULL
    Nobody,      \* the holder of a row that is not locked
    MaxFaults,   \* bound: database calls that fail or lose their reply
    MaxCrashes   \* bound: crashes of the API process

ASSUME CatalogAssumption ==
    /\ Datasets # {} /\ IsFiniteSet(Requests)
    /\ Nobody \notin Requests
    /\ NoContent \notin Contents
    /\ MaxFaults \in Nat /\ MaxCrashes \in Nat

VARIABLES
    dataset,   \* whether each dataset's row is still to come, there, or deleted
    lock,      \* who holds the lock of a dataset's row
    versions,  \* rows of dataset_versions
    rows,      \* rows of app.artifacts
    files,     \* files under the artifact root
    request,   \* the requests and their local variables
    faults,    \* calls that have failed so far
    crashes

vars == <<dataset, lock, versions, rows, files, request, faults, crashes>>

Numbers == 1 .. Cardinality(Requests)

Kinds == {"upload", "export", "transformation", "deletion"}

\* "done": answered with success; "refused": with an error before anything was written;
\* "undone": with an error, after its compensation; "failed": with an error although
\* something may be left; "lost": not answered.
Ended == {"done", "refused", "undone", "failed", "lost"}

Places == {"new", "put", "add", "take_back", "stage", "commit", "delete", "erase"} \cup Ended

Request == [at : Places, kind : Kinds, dataset : Datasets, artifact : Requests,
            source : Contents \cup {NoContent}, no : Numbers \cup {0}]

Version == [dataset : Datasets, no : Numbers, artifact : Requests,
            source : Contents \cup {NoContent}]

CatalogInit ==
    /\ dataset = [d \in Datasets |-> "none"]
    /\ lock = [d \in Datasets |-> Nobody]
    /\ versions = {} /\ rows = {} /\ files = {}
    /\ request = [u \in Requests |->
            [at |-> "new", kind |-> "export", dataset |-> CHOOSE d \in Datasets : TRUE,
             artifact |-> u, source |-> NoContent, no |-> 0]]
    /\ faults = 0 /\ crashes = 0

-----------------------------------------------------------------------------
At(u, place) == request[u].at = place

Go(u, place) == request' = [request EXCEPT ![u].at = place]

Settled(u) == request[u].at \in Ended

OfDataset(d) == {v \in versions : v.dataset = d}

Referenced(a) == \E v \in versions : v.artifact = a

\* A database call raises: nothing was committed, or the reply to the commit was lost.
Fault == faults < MaxFaults /\ faults' = faults + 1

NoFault == UNCHANGED faults

-----------------------------------------------------------------------------
\* What the API is asked for.  DatasetService.get and the exports' look at their source
\* come before anything else; what they refuse has no effect and is left out.

Create(d) ==
    /\ dataset[d] = "none"
    /\ dataset' = [dataset EXCEPT ![d] = "present"]
    /\ UNCHANGED <<lock, versions, rows, files, request, faults, crashes>>

Receive(u, place, kind, d, a, c) ==
    /\ At(u, "new")
    /\ request' = [request EXCEPT ![u] = [at |-> place, kind |-> kind, dataset |-> d,
                                          artifact |-> a, source |-> c, no |-> 0]]
    /\ UNCHANGED <<dataset, lock, versions, rows, files, faults, crashes>>

\* stage_import has found its dataset, inspected the head of the file and rewound it.
Upload(u, d, c) == dataset[d] = "present" /\ Receive(u, "put", "upload", d, u, c)

\* An export of a completed forecast or experiment, or a model bundle.
Export(u) == Receive(u, "put", "export", request[u].dataset, u, NoContent)

\* Only an imported version is ready for a transformation, and it has a source.
Transform(u, v) ==
    /\ v.source # NoContent
    /\ Receive(u, "stage", "transformation", v.dataset, v.artifact, NoContent)

Delete(u, d) == Receive(u, "stage", "deletion", d, u, NoContent)

-----------------------------------------------------------------------------
\* ArtifactService.create.

\* store.put: the file appears whole under its key, by a hard link, or not at all: too
\* large, interrupted, no space.
put(u) ==
    /\ At(u, "put")
    /\ \/ files' = files \cup {u} /\ Go(u, "add")
       \/ UNCHANGED files /\ Go(u, "refused")
    /\ UNCHANGED <<dataset, lock, versions, rows, faults, crashes>>

\* metadata.add.
add(u) ==
    /\ At(u, "add")
    /\ \/ /\ rows' = rows \cup {u} /\ NoFault
          /\ Go(u, IF request[u].kind = "upload" THEN "stage" ELSE "done")
       \/ rows' \in {rows, rows \cup {u}} /\ Fault /\ Go(u, "take_back")
    /\ UNCHANGED <<dataset, lock, versions, files, crashes>>

\* Faulty variant: the file stays.
Unlink_None(u) == UNCHANGED files

\* store.delete.
Unlink(u) == files' = files \ {u}

\* After an exception out of add, which then goes on.
take_back(u) ==
    /\ At(u, "take_back")
    /\ Unlink(u) /\ Go(u, "failed")
    /\ UNCHANGED <<dataset, lock, versions, rows, faults, crashes>>

-----------------------------------------------------------------------------
\* The transactions that lock the dataset's row: stage_import, stage and delete_if_empty.

\* Faulty variant: a plain SELECT.
Locks_None(u) == UNCHANGED lock

\* SELECT ... FOR UPDATE.
Locks(u) ==
    /\ lock[request[u].dataset] = Nobody
    /\ lock' = [lock EXCEPT ![request[u].dataset] = u]

Unlocks(u) == lock' = [lock EXCEPT ![request[u].dataset] = Nobody]

\* max(version_no) + 1, or 1.
NextNumber(d, n) ==
    /\ n = 1 \/ \E v \in OfDataset(d) : v.no + 1 = n
    /\ \A v \in OfDataset(d) : v.no < n

\* Faulty variant: the check is forgotten.
Duplicate_None(u) == FALSE

Duplicate(u) == \E v \in OfDataset(request[u].dataset) : v.source = request[u].source

\* Faulty variant: only hourly versions keep a dataset.
InUse_Hourly(u) == \E v \in OfDataset(request[u].dataset) : v.source = NoContent

InUse(u) == OfDataset(request[u].dataset) # {}

Refuses(u) ==
    \/ dataset[request[u].dataset] # "present"
    \/ request[u].kind = "upload" /\ Duplicate(u)
    \/ request[u].kind = "deletion" /\ InUse(u)

\* Faulty variants: the artifact of a failed staging is not removed; the exception is
\* swallowed.
Except_NotUndone(u) == "refused"
Except_Swallowed(u) == "done"

\* Where an exception out of the transaction takes the request.
Except(u) == IF request[u].kind = "upload" THEN "delete" ELSE "refused"

\* The transaction reads what it needs under the lock.  Reads that refuse end it.
Begin(u) ==
    /\ At(u, "stage") /\ ~Refuses(u)
    /\ Locks(u)
    /\ \E n \in Numbers :
          /\ NextNumber(request[u].dataset, n)
          /\ request' = [request EXCEPT ![u].at = "commit", ![u].no = n]
    /\ UNCHANGED <<dataset, versions, rows, files, faults, crashes>>

Refuse(u) ==
    /\ At(u, "stage") /\ Refuses(u)
    /\ lock[request[u].dataset] = Nobody
    /\ Go(u, Except(u))
    /\ UNCHANGED <<dataset, lock, versions, rows, files, faults, crashes>>

\* Faulty variant: max(version_no) itself.
NewVersion_NotNext(u) ==
    [dataset |-> request[u].dataset, no |-> request[u].no - 1,
     artifact |-> request[u].artifact, source |-> request[u].source]

NewVersion(u) == [dataset |-> request[u].dataset, no |-> request[u].no,
                  artifact |-> request[u].artifact, source |-> request[u].source]

\* What the transaction writes: a version, with its import or run and its job, or the
\* deletion of the dataset's row.
Writes(u) ==
    IF request[u].kind = "deletion"
    THEN dataset' = [dataset EXCEPT ![request[u].dataset] = "deleted"] /\ UNCHANGED versions
    ELSE versions' = versions \cup {NewVersion(u)} /\ UNCHANGED dataset

Commit(u) ==
    /\ At(u, "commit")
    /\ Writes(u) /\ Unlocks(u)
    /\ \/ Go(u, "done") /\ NoFault
       \/ Go(u, Except(u)) /\ Fault
    /\ UNCHANGED <<rows, files, crashes>>

\* The transaction fails and is rolled back.
RollBack(u) ==
    /\ At(u, "commit")
    /\ Unlocks(u) /\ Fault /\ Go(u, Except(u))
    /\ UNCHANGED <<dataset, versions, rows, files, crashes>>

-----------------------------------------------------------------------------
\* ArtifactService.delete, the compensation of stage_import.

\* Faulty variant: the request knows that its version was not staged.
MayDelete_Always(u) == TRUE

MayDelete(u) == ~Referenced(u)

\* delete_if_unreferenced: the row goes first, then the file.  The reply to its commit may
\* be lost as well, and then the file stays.
delete(u) ==
    /\ At(u, "delete")
    /\ \/ /\ MayDelete(u) /\ rows' = rows \ {u}
          /\ (NoFault /\ Go(u, "erase")) \/ (Fault /\ Go(u, "failed"))
       \/ /\ UNCHANGED rows /\ Go(u, "failed")
          /\ (~MayDelete(u) /\ NoFault) \/ Fault
    /\ UNCHANGED <<dataset, lock, versions, files, crashes>>

erase(u) ==
    /\ At(u, "erase")
    /\ Unlink(u) /\ Go(u, "undone")
    /\ UNCHANGED <<dataset, lock, versions, rows, faults, crashes>>

-----------------------------------------------------------------------------
\* The API process dies with all its requests; the database rolls their transactions back.
Crash ==
    /\ crashes < MaxCrashes /\ crashes' = crashes + 1
    /\ request' = [u \in Requests |->
          IF Settled(u) \/ At(u, "new") THEN request[u]
                                        ELSE [request[u] EXCEPT !.at = "lost"]]
    /\ lock' = [d \in Datasets |-> Nobody]
    /\ UNCHANGED <<dataset, versions, rows, files, faults>>

RequestStep(u) ==
    \/ put(u) \/ add(u) \/ take_back(u)
    \/ Begin(u) \/ Refuse(u) \/ Commit(u) \/ RollBack(u)
    \/ delete(u) \/ erase(u)

NewRequest(u) ==
    \/ \E d \in Datasets, c \in Contents : Upload(u, d, c)
    \/ Export(u)
    \/ \E v \in versions : Transform(u, v)
    \/ \E d \in Datasets : Delete(u, d)

CatalogNext ==
    \/ \E d \in Datasets : Create(d)
    \/ \E u \in Requests : NewRequest(u) \/ RequestStep(u)
    \/ Crash

CatalogSpec == CatalogInit /\ [][CatalogNext]_vars

-----------------------------------------------------------------------------
\* Properties.

CatalogTypeOK ==
    /\ dataset \in [Datasets -> {"none", "present", "deleted"}]
    /\ lock \in [Datasets -> Requests \cup {Nobody}]
    /\ versions \subseteq Version
    /\ rows \subseteq Requests /\ files \subseteq Requests
    /\ request \in [Requests -> Request]
    /\ faults \in 0 .. MaxFaults /\ crashes \in 0 .. MaxCrashes

\* A version's job reads its artifact later, on another process: the row and the file of
\* every version are there, although the request that wrote them may have been told that
\* staging failed when it had not, and has tried to remove them.
VersionsKeepTheirBytes ==
    \A v \in versions : v.artifact \in rows /\ v.artifact \in files

\* A dataset is deleted only while it is empty, also while an upload that has seen it is
\* writing its file, so that no version is cascaded away or left without its dataset.
VersionsKeepTheirDataset ==
    \A v \in versions : dataset[v.dataset] = "present"

\* Versions of a dataset are numbered one by one, in whatever order concurrent uploads
\* and transformations commit, and no two of them come from the same file.
NumbersAndSourcesAreUnique ==
    /\ \A v, w \in versions : v.dataset = w.dataset /\ v # w =>
          v.no # w.no /\ (v.source = w.source => v.source = NoContent)
    /\ \A v \in versions : v.no = 1 \/ \E w \in OfDataset(v.dataset) : w.no + 1 = v.no

\* What the API has answered with success can be had for good: a staged version, a file
\* to download.  No other request's failure, compensation or crash takes it away.
AnswersAreKept ==
    \A u \in Requests : At(u, "done") =>
        /\ request[u].kind # "deletion" => request[u].artifact \in rows \cap files
        /\ request[u].kind \in {"upload", "transformation"} => NewVersion(u) \in versions
        /\ request[u].kind = "deletion" => dataset[request[u].dataset] = "deleted"

\* implementation-log.md:401-410: an upload that was refused or has failed, and whose
\* compensation went through, leaves neither bytes nor a row nor a version.
UndoneLeavesNothing ==
    \A u \in Requests : request[u].at \in {"refused", "undone"} /\ request[u].artifact = u =>
        u \notin rows /\ u \notin files /\ ~Referenced(u)

\* As long as no database call fails and the API does not crash, what is under the root
\* is what the table lists, and every artifact was asked for.
NothingIsLeftOver ==
    faults = 0 /\ crashes = 0 /\ (\A u \in Requests : At(u, "new") \/ Settled(u)) =>
        /\ files = rows
        /\ \A u \in rows : Referenced(u) \/ request[u].kind = "export"

-----------------------------------------------------------------------------
\* What the properties rest on: where a request is tells what it has written, and what a
\* transaction has read stays true while it holds the lock.

WrittenSoFar(u) ==
    LET r == request[u] IN
    /\ r.kind # "transformation" => r.artifact = u
    /\ r.kind = "upload" => r.source # NoContent
    /\ r.kind = "transformation" =>
          r.source = NoContent /\ r.artifact \in rows \cap files /\ Referenced(r.artifact)
    /\ r.at = "new" => r.kind = "export" /\ r.source = NoContent
    /\ r.at \in {"new", "put"} => u \notin rows \cup files
    /\ r.at = "add" => u \notin rows /\ u \in files
    /\ r.at \in {"new", "put", "add", "take_back", "erase"} => ~Referenced(u)
    /\ r.at \in {"put", "add", "take_back"} => r.kind \in {"upload", "export"}
    /\ r.at \in {"stage", "commit"} => r.kind \in Kinds \ {"export"}
    /\ r.kind = "upload" /\ r.at \in {"stage", "commit"} =>
          u \in rows \cap files /\ ~Referenced(u)
    /\ r.at = "delete" => r.kind = "upload" /\ u \in rows \cap files
    /\ r.at = "erase" => r.kind = "upload" /\ u \notin rows
    /\ r.kind \in {"deletion", "transformation"} =>
          ~Referenced(u) /\ u \notin rows \cup files

ReadUnderLock(u) ==
    LET r == request[u] IN
    r.at = "commit" =>
        /\ lock[r.dataset] = u
        /\ ~Refuses(u)
        /\ NextNumber(r.dataset, r.no) /\ r.no # 0

CatalogInv ==
    /\ CatalogTypeOK
    /\ VersionsKeepTheirBytes /\ VersionsKeepTheirDataset /\ NumbersAndSourcesAreUnique
    /\ UndoneLeavesNothing /\ AnswersAreKept
    /\ \A u \in Requests : WrittenSoFar(u) /\ ReadUnderLock(u)
=============================================================================
