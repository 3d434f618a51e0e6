------------------------ MODULE DatasetCatalogProofs -------------------------
(***************************************************************************)
(* Theorems about DatasetCatalog, for any number of datasets and requests,  *)
(* failing calls and crashes.                                               *)
(*                                                                          *)
(* CatalogInv is inductive.  Besides the properties it says what a request  *)
(* has written when it stands where it stands (WrittenSoFar), so that a     *)
(* compensation is known to meet only what is its own, and that what a      *)
(* transaction has read under its lock is still true when it commits        *)
(* (ReadUnderLock).  There is a lemma for each kind of step.  At the end,   *)
(* Undisturbed: what is left over as long as nothing fails.                 *)
(***************************************************************************)
EXTENDS DatasetCatalog, TLAPS

\* A new dataset was nobody's before, so nothing that is known of the others changes.
LEMMA CreateKeeps ==
  ASSUME CatalogInv, NEW d \in Datasets, Create(d)
  PROVE  CatalogInv'
<1>1. CatalogTypeOK'
  BY SMT DEF CatalogInv, CatalogTypeOK, Create
<1>2. VersionsKeepTheirBytes' /\ NumbersAndSourcesAreUnique'
  BY SMT DEF CatalogInv, VersionsKeepTheirBytes, NumbersAndSourcesAreUnique, OfDataset, Create
<1>3. VersionsKeepTheirDataset'
  BY SMT DEF CatalogInv, VersionsKeepTheirDataset, Create
<1>4. UndoneLeavesNothing'
  BY SMT DEF CatalogInv, UndoneLeavesNothing, Referenced, Create
<1>5. AnswersAreKept'
  BY SMT DEF CatalogInv, AnswersAreKept, NewVersion, At, Create
<1>6. ASSUME NEW w \in Requests PROVE WrittenSoFar(w)'
  BY SMT DEF CatalogInv, WrittenSoFar, Referenced, Create
<1>7. ASSUME NEW w \in Requests PROVE ReadUnderLock(w)'
  BY SMT DEF CatalogInv, ReadUnderLock, Refuses, Duplicate, InUse, NextNumber, OfDataset,
     Create
<1> QED  BY <1>1, <1>2, <1>3, <1>4, <1>5, <1>6, <1>7 DEF CatalogInv

\* A request that comes in is given its own artifact, of which nothing is there yet.
LEMMA UploadKeeps ==
  ASSUME CatalogInv, NEW u \in Requests, NEW d \in Datasets, NEW c \in Contents, Upload(u, d, c)
  PROVE  CatalogInv'
<1>1. CatalogTypeOK'
  BY SMT DEF CatalogInv, CatalogTypeOK, Request, Places, Kinds, Upload, Receive
<1>2. VersionsKeepTheirBytes' /\ VersionsKeepTheirDataset' /\ NumbersAndSourcesAreUnique'
  BY SMT DEF CatalogInv, VersionsKeepTheirBytes, VersionsKeepTheirDataset,
     NumbersAndSourcesAreUnique, OfDataset, Upload, Receive
<1>3. UndoneLeavesNothing' /\ AnswersAreKept'
  BY SMT DEF CatalogInv, UndoneLeavesNothing, Referenced, AnswersAreKept, NewVersion, At,
     Upload, Receive
<1>4. ASSUME NEW w \in Requests PROVE WrittenSoFar(w)'
  BY CatalogAssumption, SMT DEF CatalogInv, WrittenSoFar, Referenced, Upload, Receive, At
<1>5. ASSUME NEW w \in Requests PROVE ReadUnderLock(w)'
  BY SMT DEF CatalogInv, ReadUnderLock, Refuses, Duplicate, InUse, NextNumber, OfDataset,
     Upload, Receive
<1> QED  BY <1>1, <1>2, <1>3, <1>4, <1>5 DEF CatalogInv

\* An export starts like an upload, without a dataset.
LEMMA ExportKeeps ==
  ASSUME CatalogInv, NEW u \in Requests, Export(u)
  PROVE  CatalogInv'
<1>1. CatalogTypeOK'
  BY SMT DEF CatalogInv, CatalogTypeOK, Request, Places, Kinds, Export, Receive
<1>2. VersionsKeepTheirBytes' /\ VersionsKeepTheirDataset' /\ NumbersAndSourcesAreUnique'
  BY SMT DEF CatalogInv, VersionsKeepTheirBytes, VersionsKeepTheirDataset,
     NumbersAndSourcesAreUnique, OfDataset, Export, Receive
<1>3. UndoneLeavesNothing' /\ AnswersAreKept'
  BY SMT DEF CatalogInv, UndoneLeavesNothing, Referenced, AnswersAreKept, NewVersion, At,
     Export, Receive
<1>4. ASSUME NEW w \in Requests PROVE WrittenSoFar(w)'
  BY SMT DEF CatalogInv, WrittenSoFar, Referenced, Export, Receive, At
<1>5. ASSUME NEW w \in Requests PROVE ReadUnderLock(w)'
  BY SMT DEF CatalogInv, ReadUnderLock, Refuses, Duplicate, InUse, NextNumber, OfDataset,
     Export, Receive
<1> QED  BY <1>1, <1>2, <1>3, <1>4, <1>5 DEF CatalogInv

\* A transformation takes over the artifact of a version, which is there.
LEMMA TransformKeeps ==
  ASSUME CatalogInv, NEW u \in Requests, NEW v \in versions, Transform(u, v)
  PROVE  CatalogInv'
<1>1. CatalogTypeOK'
  BY SMT DEF CatalogInv, CatalogTypeOK, Request, Version, Places, Kinds, Transform, Receive
<1>2. VersionsKeepTheirBytes' /\ VersionsKeepTheirDataset' /\ NumbersAndSourcesAreUnique'
  BY SMT DEF CatalogInv, VersionsKeepTheirBytes, VersionsKeepTheirDataset,
     NumbersAndSourcesAreUnique, OfDataset, Transform, Receive
<1>3. UndoneLeavesNothing' /\ AnswersAreKept'
  BY SMT DEF CatalogInv, UndoneLeavesNothing, Referenced, AnswersAreKept, NewVersion, At,
     Transform, Receive
<1>4. ASSUME NEW w \in Requests PROVE WrittenSoFar(w)'
  BY SMT DEF CatalogInv, WrittenSoFar, VersionsKeepTheirBytes, Referenced, Kinds, Transform,
     Receive, At
<1>5. ASSUME NEW w \in Requests PROVE ReadUnderLock(w)'
  BY SMT DEF CatalogInv, ReadUnderLock, Refuses, Duplicate, InUse, NextNumber, OfDataset,
     Transform, Receive
<1> QED  BY <1>1, <1>2, <1>3, <1>4, <1>5 DEF CatalogInv

\* A deletion has no artifact.
LEMMA DeleteKeeps ==
  ASSUME CatalogInv, NEW u \in Requests, NEW d \in Datasets, Delete(u, d)
  PROVE  CatalogInv'
<1>1. CatalogTypeOK'
  BY SMT DEF CatalogInv, CatalogTypeOK, Request, Places, Kinds, Delete, Receive
<1>2. VersionsKeepTheirBytes' /\ VersionsKeepTheirDataset' /\ NumbersAndSourcesAreUnique'
  BY SMT DEF CatalogInv, VersionsKeepTheirBytes, VersionsKeepTheirDataset,
     NumbersAndSourcesAreUnique, OfDataset, Delete, Receive
<1>3. UndoneLeavesNothing' /\ AnswersAreKept'
  BY SMT DEF CatalogInv, UndoneLeavesNothing, Referenced, AnswersAreKept, NewVersion, At,
     Delete, Receive
<1>4. ASSUME NEW w \in Requests PROVE WrittenSoFar(w)'
  BY SMT DEF CatalogInv, WrittenSoFar, Referenced, Kinds, Delete, Receive, At
<1>5. ASSUME NEW w \in Requests PROVE ReadUnderLock(w)'
  BY SMT DEF CatalogInv, ReadUnderLock, Refuses, Duplicate, InUse, NextNumber, OfDataset,
     Delete, Receive
<1> QED  BY <1>1, <1>2, <1>3, <1>4, <1>5 DEF CatalogInv

\* The file of a request is its own.
LEMMA PutKeeps ==
  ASSUME CatalogInv, NEW u \in Requests, put(u)
  PROVE  CatalogInv'
<1>1. CatalogTypeOK'
  BY SMT DEF CatalogInv, CatalogTypeOK, Request, Places, Ended, put, Go
<1>2. VersionsKeepTheirBytes'
  BY SMT DEF CatalogInv, VersionsKeepTheirBytes, put
<1>3. VersionsKeepTheirDataset' /\ NumbersAndSourcesAreUnique'
  BY SMT DEF CatalogInv, VersionsKeepTheirDataset, NumbersAndSourcesAreUnique, OfDataset, put
<1>4. UndoneLeavesNothing'
  BY SMT DEF CatalogInv, CatalogTypeOK, UndoneLeavesNothing, WrittenSoFar, Referenced,
     Request, put, At, Go
<1>5. AnswersAreKept'
  BY SMT DEF CatalogInv, CatalogTypeOK, AnswersAreKept, NewVersion, Request, At, put, Go
<1>6. ASSUME NEW w \in Requests PROVE WrittenSoFar(w)'
  BY SMT DEF CatalogInv, CatalogTypeOK, WrittenSoFar, Referenced, Request, put, At, Go
<1>7. ASSUME NEW w \in Requests PROVE ReadUnderLock(w)'
  BY SMT DEF CatalogInv, CatalogTypeOK, ReadUnderLock, Refuses, Duplicate, InUse, NextNumber,
     OfDataset, Request, put, Go
<1> QED  BY <1>1, <1>2, <1>3, <1>4, <1>5, <1>6, <1>7 DEF CatalogInv

\* So is its row, whether or not the request hears of it.
LEMMA AddKeeps ==
  ASSUME CatalogInv, NEW u \in Requests, add(u)
  PROVE  CatalogInv'
<1>1. CatalogTypeOK'
  BY CatalogAssumption, SMT DEF CatalogInv, CatalogTypeOK, Request, Places, Ended, add, Go,
     Fault, NoFault
<1>2. VersionsKeepTheirBytes'
  BY SMT DEF CatalogInv, VersionsKeepTheirBytes, add
<1>3. VersionsKeepTheirDataset' /\ NumbersAndSourcesAreUnique'
  BY SMT DEF CatalogInv, VersionsKeepTheirDataset, NumbersAndSourcesAreUnique, OfDataset, add
<1>4. UndoneLeavesNothing'
  BY SMT DEF CatalogInv, CatalogTypeOK, UndoneLeavesNothing, Referenced, Request, add, Go
<1>5. AnswersAreKept'
  BY SMT DEF CatalogInv, CatalogTypeOK, AnswersAreKept, WrittenSoFar, NewVersion, Request, At,
     add, Go
<1>6. ASSUME NEW w \in Requests PROVE WrittenSoFar(w)'
  BY SMT DEF CatalogInv, CatalogTypeOK, WrittenSoFar, Referenced, Request, add, At, Go
<1>7. ASSUME NEW w \in Requests PROVE ReadUnderLock(w)'
  BY SMT DEF CatalogInv, CatalogTypeOK, ReadUnderLock, Refuses, Duplicate, InUse, NextNumber,
     OfDataset, Request, add, Go
<1> QED  BY <1>1, <1>2, <1>3, <1>4, <1>5, <1>6, <1>7 DEF CatalogInv

\* The file that is taken back belongs to no version: staging has not begun.
LEMMA TakeBackKeeps ==
  ASSUME CatalogInv, NEW u \in Requests, take_back(u)
  PROVE  CatalogInv'
<1>1. CatalogTypeOK'
  BY SMT DEF CatalogInv, CatalogTypeOK, Request, Places, Ended, take_back, Unlink, Go
<1>2. VersionsKeepTheirBytes'
  BY SMT DEF CatalogInv, VersionsKeepTheirBytes, WrittenSoFar, Referenced, take_back, Unlink,
     At
<1>3. VersionsKeepTheirDataset' /\ NumbersAndSourcesAreUnique'
  BY SMT DEF CatalogInv, VersionsKeepTheirDataset, NumbersAndSourcesAreUnique, OfDataset,
     take_back
<1>4. UndoneLeavesNothing'
  BY SMT DEF CatalogInv, UndoneLeavesNothing, Referenced, take_back, Unlink, Go
<1>5. AnswersAreKept'
  BY SMT DEF CatalogInv, AnswersAreKept, WrittenSoFar, NewVersion, At, take_back, Unlink, Go
<1>6. ASSUME NEW w \in Requests PROVE WrittenSoFar(w)'
  BY SMT DEF CatalogInv, WrittenSoFar, Referenced, take_back, Unlink, At, Go
<1>7. ASSUME NEW w \in Requests PROVE ReadUnderLock(w)'
  BY SMT DEF CatalogInv, ReadUnderLock, Refuses, Duplicate, InUse, NextNumber, OfDataset,
     take_back, Go
<1> QED  BY <1>1, <1>2, <1>3, <1>4, <1>5, <1>6, <1>7 DEF CatalogInv

\* What is read under the lock is the state at this moment.
LEMMA BeginKeeps ==
  ASSUME CatalogInv, NEW u \in Requests, Begin(u)
  PROVE  CatalogInv'
<1>1. CatalogTypeOK'
  <2>1. request' \in [Requests -> Request]
    <3>1. PICK n \in Numbers : request' = [request EXCEPT ![u].at = "commit", ![u].no = n]
      BY DEF Begin
    <3> DEFINE r == [request[u] EXCEPT !.at = "commit"]
               s == [r EXCEPT !.no = n]
    <3>2. r \in Request
      BY SMT DEF CatalogInv, CatalogTypeOK, Request, Places
    <3> HIDE DEF r
    <3>3. s \in Request
      BY <3>2, SMT DEF Request
    <3>4. request' = [request EXCEPT ![u] = s]
      BY <3>1, Zenon DEF r
    <3> HIDE DEF s
    <3> QED  BY <3>3, <3>4 DEF CatalogInv, CatalogTypeOK
  <2>2. lock' \in [Datasets -> Requests \cup {Nobody}]
    <3>1. lock' = [lock EXCEPT ![request[u].dataset] = u]
      BY DEF Begin, Locks
    <3> QED  BY <3>1 DEF CatalogInv, CatalogTypeOK
  <2> QED  BY <2>1, <2>2 DEF CatalogInv, CatalogTypeOK, Begin
<1>2. VersionsKeepTheirBytes' /\ VersionsKeepTheirDataset' /\ NumbersAndSourcesAreUnique'
  BY SMT DEF CatalogInv, VersionsKeepTheirBytes, VersionsKeepTheirDataset,
     NumbersAndSourcesAreUnique, OfDataset, Begin
<1>3. UndoneLeavesNothing' /\ AnswersAreKept'
  BY SMT DEF CatalogInv, CatalogTypeOK, UndoneLeavesNothing, Referenced, AnswersAreKept,
     NewVersion, At, Begin
<1>4. ASSUME NEW w \in Requests PROVE WrittenSoFar(w)'
  BY SMT DEF CatalogInv, CatalogTypeOK, WrittenSoFar, Referenced, Begin, At
<1>5. ASSUME NEW w \in Requests PROVE ReadUnderLock(w)'
  <2>1. PICK n \in Numbers :
           /\ NextNumber(request[u].dataset, n)
           /\ request' = [request EXCEPT ![u].at = "commit", ![u].no = n]
    BY DEF Begin
  <2>2. CASE w = u
    BY <2>1, <2>2, SMT DEF CatalogInv, CatalogTypeOK, ReadUnderLock, Refuses, Duplicate,
       InUse, NextNumber, OfDataset, Request, Numbers, Begin, Locks
  <2>3. CASE w # u
    BY <2>1, <2>3, CatalogAssumption, SMT DEF CatalogInv, CatalogTypeOK, ReadUnderLock,
       Refuses, Duplicate, InUse, NextNumber, OfDataset, Begin, Locks
  <2> QED  BY <2>2, <2>3
<1> QED  BY <1>1, <1>2, <1>3, <1>4, <1>5 DEF CatalogInv

\* A refusal changes the request only.
LEMMA RefuseKeeps ==
  ASSUME CatalogInv, NEW u \in Requests, Refuse(u)
  PROVE  CatalogInv'
<1>1. CatalogTypeOK'
  BY SMT DEF CatalogInv, CatalogTypeOK, Request, Places, Ended, Refuse, Except, Go
<1>2. VersionsKeepTheirBytes' /\ VersionsKeepTheirDataset' /\ NumbersAndSourcesAreUnique'
  BY SMT DEF CatalogInv, VersionsKeepTheirBytes, VersionsKeepTheirDataset,
     NumbersAndSourcesAreUnique, OfDataset, Refuse
<1>3. UndoneLeavesNothing' /\ AnswersAreKept'
  BY SMT DEF CatalogInv, UndoneLeavesNothing, WrittenSoFar, Referenced, Kinds, AnswersAreKept,
     NewVersion, At, Refuse, Except, Go
<1>4. ASSUME NEW w \in Requests PROVE WrittenSoFar(w)'
  BY SMT DEF CatalogInv, WrittenSoFar, Referenced, Refuse, Except, At, Go
<1>5. ASSUME NEW w \in Requests PROVE ReadUnderLock(w)'
  BY SMT DEF CatalogInv, ReadUnderLock, Refuses, Duplicate, InUse, NextNumber, OfDataset,
     Refuse, Except, Go
<1> QED  BY <1>1, <1>2, <1>3, <1>4, <1>5 DEF CatalogInv

\* The lock has kept what was read: the number is free, the file new to the dataset, or the
\* dataset empty.  Requests on other datasets read other versions.
LEMMA CommitKeeps ==
  ASSUME CatalogInv, NEW u \in Requests, Commit(u)
  PROVE  CatalogInv'
<1>1. CatalogTypeOK'
  BY CatalogAssumption, SMT DEF CatalogInv, CatalogTypeOK, Request, Version, Places, Ended,
     Commit, Writes, Unlocks, Except, NewVersion, At, Go, Fault, NoFault, ReadUnderLock
<1>2. VersionsKeepTheirBytes'
  BY SMT DEF CatalogInv, VersionsKeepTheirBytes, WrittenSoFar, Commit, Writes, NewVersion, At,
     Kinds
<1>3. VersionsKeepTheirDataset'
  BY SMT DEF CatalogInv, CatalogTypeOK, VersionsKeepTheirDataset, Commit, Writes, NewVersion,
     At, ReadUnderLock, Refuses, InUse, OfDataset, Version
<1>4. NumbersAndSourcesAreUnique'
  <2>1. CASE request[u].kind = "deletion"
    BY <2>1, SMT DEF CatalogInv, NumbersAndSourcesAreUnique, OfDataset, Commit, Writes
  <2>2. CASE request[u].kind # "deletion"
    <3>1. versions' = versions \cup {NewVersion(u)}
      BY <2>2 DEF Commit, Writes
    <3>2. NextNumber(request[u].dataset, request[u].no)
      BY DEF CatalogInv, ReadUnderLock, Commit, At
    <3>3. ASSUME NEW v \in OfDataset(request[u].dataset)
          PROVE  v.no # request[u].no /\ (v.source = request[u].source => v.source = NoContent)
      BY <3>2, <3>3, <2>2, SMT DEF CatalogInv, CatalogTypeOK, ReadUnderLock, WrittenSoFar,
         Refuses, Duplicate, NextNumber, Request, Kinds, Numbers, Commit, At
    <3>4. \A v, w \in versions' : v.dataset = w.dataset /\ v # w =>
             v.no # w.no /\ (v.source = w.source => v.source = NoContent)
      BY <3>1, <3>3, SMT DEF CatalogInv, NumbersAndSourcesAreUnique, OfDataset, NewVersion
    <3>5. \A v \in versions' :
             v.no = 1 \/ \E w \in OfDataset(v.dataset)' : w.no + 1 = v.no
      BY <3>1, <3>2, SMT DEF CatalogInv, NumbersAndSourcesAreUnique, OfDataset, NextNumber,
         NewVersion
    <3> QED  BY <3>4, <3>5 DEF NumbersAndSourcesAreUnique
  <2> QED  BY <2>1, <2>2
<1>5. UndoneLeavesNothing'
  BY SMT DEF CatalogInv, CatalogTypeOK, UndoneLeavesNothing, WrittenSoFar, Referenced,
     Request, Kinds, Commit, Writes, Except, NewVersion, At, Go
<1>6. AnswersAreKept'
  BY SMT DEF CatalogInv, CatalogTypeOK, AnswersAreKept, WrittenSoFar, NewVersion, Request, At,
     Commit, Writes, Go, Kinds
<1>7. ASSUME NEW w \in Requests PROVE WrittenSoFar(w)'
  BY SMT DEF CatalogInv, CatalogTypeOK, WrittenSoFar, Referenced, Request, Commit, Writes,
     Except, NewVersion, At, Go
<1>8. ASSUME NEW w \in Requests PROVE ReadUnderLock(w)'
  BY SMT DEF CatalogInv, CatalogTypeOK, ReadUnderLock, Refuses, Duplicate, InUse, NextNumber,
     OfDataset, Request, Commit, Writes, Unlocks, Except, NewVersion, At, Go
<1> QED  BY <1>1, <1>2, <1>3, <1>4, <1>5, <1>6, <1>7, <1>8 DEF CatalogInv

\* A transaction that is rolled back leaves its lock and nothing else.
LEMMA RollBackKeeps ==
  ASSUME CatalogInv, NEW u \in Requests, RollBack(u)
  PROVE  CatalogInv'
<1>1. CatalogTypeOK'
  BY CatalogAssumption, SMT DEF CatalogInv, CatalogTypeOK, Request, Places, Ended, RollBack,
     Unlocks, Except, Go, Fault
<1>2. VersionsKeepTheirBytes' /\ VersionsKeepTheirDataset' /\ NumbersAndSourcesAreUnique'
  BY SMT DEF CatalogInv, VersionsKeepTheirBytes, VersionsKeepTheirDataset,
     NumbersAndSourcesAreUnique, OfDataset, RollBack
<1>3. UndoneLeavesNothing' /\ AnswersAreKept'
  BY SMT DEF CatalogInv, UndoneLeavesNothing, WrittenSoFar, Referenced, Kinds, AnswersAreKept,
     NewVersion, At, RollBack, Except, Go
<1>4. ASSUME NEW w \in Requests PROVE WrittenSoFar(w)'
  BY SMT DEF CatalogInv, WrittenSoFar, Referenced, RollBack, Except, At, Go
<1>5. ASSUME NEW w \in Requests PROVE ReadUnderLock(w)'
  BY SMT DEF CatalogInv, CatalogTypeOK, ReadUnderLock, Refuses, Duplicate, InUse, NextNumber,
     OfDataset, RollBack, Unlocks, Except, At, Go
<1> QED  BY <1>1, <1>2, <1>3, <1>4, <1>5 DEF CatalogInv

\* The row that goes is referenced by no version, and its request has not ended well.
LEMMA DeleteRowKeeps ==
  ASSUME CatalogInv, NEW u \in Requests, delete(u)
  PROVE  CatalogInv'
<1>1. CatalogTypeOK'
  BY CatalogAssumption, SMT DEF CatalogInv, CatalogTypeOK, Request, Places, Ended, delete, Go,
     Fault, NoFault
<1>2. VersionsKeepTheirBytes'
  BY SMT DEF CatalogInv, VersionsKeepTheirBytes, Referenced, delete, MayDelete
<1>3. VersionsKeepTheirDataset' /\ NumbersAndSourcesAreUnique'
  BY SMT DEF CatalogInv, VersionsKeepTheirDataset, NumbersAndSourcesAreUnique, OfDataset,
     delete
<1>4. UndoneLeavesNothing'
  BY SMT DEF CatalogInv, CatalogTypeOK, UndoneLeavesNothing, Referenced, Request, delete, Go
<1>5. AnswersAreKept'
  BY SMT DEF CatalogInv, CatalogTypeOK, AnswersAreKept, WrittenSoFar, NewVersion, Request, At,
     delete, MayDelete, Go
<1>6. ASSUME NEW w \in Requests PROVE WrittenSoFar(w)'
  BY SMT DEF CatalogInv, CatalogTypeOK, WrittenSoFar, Referenced, Request, delete, MayDelete,
     At, Go
<1>7. ASSUME NEW w \in Requests PROVE ReadUnderLock(w)'
  BY SMT DEF CatalogInv, CatalogTypeOK, ReadUnderLock, Refuses, Duplicate, InUse, NextNumber,
     OfDataset, Request, delete, Go
<1> QED  BY <1>1, <1>2, <1>3, <1>4, <1>5, <1>6, <1>7 DEF CatalogInv

\* Nor is the file.
LEMMA EraseKeeps ==
  ASSUME CatalogInv, NEW u \in Requests, erase(u)
  PROVE  CatalogInv'
<1>1. CatalogTypeOK'
  BY SMT DEF CatalogInv, CatalogTypeOK, Request, Places, Ended, erase, Unlink, Go
<1>2. VersionsKeepTheirBytes'
  BY SMT DEF CatalogInv, VersionsKeepTheirBytes, WrittenSoFar, erase, Unlink, At
<1>3. VersionsKeepTheirDataset' /\ NumbersAndSourcesAreUnique'
  BY SMT DEF CatalogInv, VersionsKeepTheirDataset, NumbersAndSourcesAreUnique, OfDataset,
     erase
<1>4. UndoneLeavesNothing'
  BY SMT DEF CatalogInv, UndoneLeavesNothing, WrittenSoFar, Referenced, erase, Unlink, At, Go
<1>5. AnswersAreKept'
  BY SMT DEF CatalogInv, AnswersAreKept, WrittenSoFar, NewVersion, At, erase, Unlink, Go
<1>6. ASSUME NEW w \in Requests PROVE WrittenSoFar(w)'
  BY SMT DEF CatalogInv, WrittenSoFar, Referenced, erase, Unlink, At, Go
<1>7. ASSUME NEW w \in Requests PROVE ReadUnderLock(w)'
  BY SMT DEF CatalogInv, ReadUnderLock, Refuses, Duplicate, InUse, NextNumber, OfDataset,
     erase, Go
<1> QED  BY <1>1, <1>2, <1>3, <1>4, <1>5, <1>6, <1>7 DEF CatalogInv

\* A crash ends what is under way; every property allows for requests that are lost.
LEMMA CrashKeeps ==
  ASSUME CatalogInv, Crash
  PROVE  CatalogInv'
<1>1. CatalogTypeOK'
  BY CatalogAssumption, SMT DEF CatalogInv, CatalogTypeOK, Request, Places, Ended, Crash
<1>2. VersionsKeepTheirBytes' /\ VersionsKeepTheirDataset' /\ NumbersAndSourcesAreUnique'
  BY SMT DEF CatalogInv, VersionsKeepTheirBytes, VersionsKeepTheirDataset,
     NumbersAndSourcesAreUnique, OfDataset, Crash
<1>3. UndoneLeavesNothing' /\ AnswersAreKept'
  BY SMT DEF CatalogInv, UndoneLeavesNothing, Referenced, AnswersAreKept, NewVersion, At,
     Crash
<1>4. ASSUME NEW w \in Requests PROVE WrittenSoFar(w)'
  BY SMT DEF CatalogInv, WrittenSoFar, Referenced, Crash
<1>5. ASSUME NEW w \in Requests PROVE ReadUnderLock(w)'
  BY SMT DEF ReadUnderLock, Ended, Crash, Settled, At
<1> QED  BY <1>1, <1>2, <1>3, <1>4, <1>5 DEF CatalogInv

\* Nothing is there initially.
LEMMA InitHolds ==
  CatalogInit => CatalogInv
<1> SUFFICES ASSUME CatalogInit PROVE CatalogInv
  OBVIOUS
<1> DEFINE d0 == CHOOSE d \in Datasets : TRUE
<1>1. d0 \in Datasets
  BY CatalogAssumption
<1> HIDE DEF d0
<1>2. request = [u \in Requests |->
          [at |-> "new", kind |-> "export", dataset |-> d0, artifact |-> u,
           source |-> NoContent, no |-> 0]]
  BY DEF CatalogInit, d0
<1>3. CatalogTypeOK
  BY <1>1, <1>2, CatalogAssumption, SMT DEF CatalogInit, CatalogTypeOK, Request, Places, Kinds
<1>4. /\ VersionsKeepTheirBytes /\ VersionsKeepTheirDataset
      /\ NumbersAndSourcesAreUnique
  BY SMT DEF CatalogInit, VersionsKeepTheirBytes, VersionsKeepTheirDataset,
     NumbersAndSourcesAreUnique
<1>5. UndoneLeavesNothing /\ AnswersAreKept
  BY <1>2, SMT DEF UndoneLeavesNothing, AnswersAreKept, At
<1>6. ASSUME NEW u \in Requests PROVE WrittenSoFar(u) /\ ReadUnderLock(u)
  BY <1>2, SMT DEF CatalogInit, WrittenSoFar, ReadUnderLock, Referenced
<1> QED  BY <1>3, <1>4, <1>5, <1>6 DEF CatalogInv

\* Every step keeps the invariant.
LEMMA StepKeeps ==
  CatalogInv /\ [CatalogNext]_vars => CatalogInv'
<1> SUFFICES ASSUME CatalogInv, [CatalogNext]_vars PROVE CatalogInv'
  OBVIOUS
<1>1. CASE UNCHANGED vars
  <2>1. CatalogTypeOK'
    BY <1>1 DEF CatalogInv, CatalogTypeOK, vars
  <2>2. /\ VersionsKeepTheirBytes' /\ VersionsKeepTheirDataset'
        /\ NumbersAndSourcesAreUnique' /\ UndoneLeavesNothing' /\ AnswersAreKept'
    BY <1>1 DEF CatalogInv, VersionsKeepTheirBytes, VersionsKeepTheirDataset,
       NumbersAndSourcesAreUnique, UndoneLeavesNothing, AnswersAreKept, At, NewVersion,
       Referenced, OfDataset, vars
  <2>3. ASSUME NEW w \in Requests PROVE WrittenSoFar(w)' /\ ReadUnderLock(w)'
    BY <1>1 DEF CatalogInv, WrittenSoFar, ReadUnderLock, Referenced, Refuses, Duplicate,
       InUse, NextNumber, OfDataset, vars
  <2> QED  BY <2>1, <2>2, <2>3 DEF CatalogInv
<1>2. CASE \E d \in Datasets : Create(d)
  BY <1>2, CreateKeeps
<1>3. ASSUME NEW u \in Requests, NewRequest(u) PROVE CatalogInv'
  BY <1>3, UploadKeeps, ExportKeeps, TransformKeeps, DeleteKeeps DEF NewRequest
<1>4. ASSUME NEW u \in Requests, RequestStep(u) PROVE CatalogInv'
  BY <1>4, PutKeeps, AddKeeps, TakeBackKeeps, BeginKeeps, RefuseKeeps, CommitKeeps,
     RollBackKeeps, DeleteRowKeeps, EraseKeeps DEF RequestStep
<1>5. CASE Crash
  BY <1>5, CrashKeeps
<1> QED  BY <1>1, <1>2, <1>3, <1>4, <1>5 DEF CatalogNext

\* The inductive invariant of the catalogue and the artifact store.
THEOREM CatalogInvariant == CatalogSpec => []CatalogInv
<1> QED  BY InitHolds, StepKeeps, PTL DEF CatalogSpec

\* Types, for every number of datasets and requests.
THEOREM CatalogTypesHold == CatalogSpec => []CatalogTypeOK
<1>1. CatalogInv => CatalogTypeOK
  BY DEF CatalogInv
<1> QED  BY <1>1, CatalogInvariant, PTL

\* No compensation, crash or lost reply takes a version's row or file away.
THEOREM BytesAreKept == CatalogSpec => []VersionsKeepTheirBytes
<1>1. CatalogInv => VersionsKeepTheirBytes
  BY DEF CatalogInv
<1> QED  BY <1>1, CatalogInvariant, PTL

\* No deletion takes a dataset from under its versions.
THEOREM DatasetsAreKept == CatalogSpec => []VersionsKeepTheirDataset
<1>1. CatalogInv => VersionsKeepTheirDataset
  BY DEF CatalogInv
<1> QED  BY <1>1, CatalogInvariant, PTL

\* The locks alone keep version numbers and sources apart.
THEOREM NumbersAreUnique == CatalogSpec => []NumbersAndSourcesAreUnique
<1>1. CatalogInv => NumbersAndSourcesAreUnique
  BY DEF CatalogInv
<1> QED  BY <1>1, CatalogInvariant, PTL

\* A compensation that went through has left nothing.
THEOREM CompensationIsComplete == CatalogSpec => []UndoneLeavesNothing
<1>1. CatalogInv => UndoneLeavesNothing
  BY DEF CatalogInv
<1> QED  BY <1>1, CatalogInvariant, PTL

\* A success is never taken back.
THEOREM SuccessIsKept == CatalogSpec => []AnswersAreKept
<1>1. CatalogInv => AnswersAreKept
  BY DEF CatalogInv
<1> QED  BY <1>1, CatalogInvariant, PTL

-----------------------------------------------------------------------------
\* What is left over when nothing fails.

\* Without faults and crashes no request fails with something left, and an upload that
\* compensates has no version.
Undisturbed ==
    faults = 0 /\ crashes = 0 =>
        \A u \in Requests :
            /\ request[u].at \notin {"take_back", "failed", "lost"}
            /\ At(u, "delete") => ~Referenced(u)

\* One request moves, and keeps the others as they are.
LEMMA RequestKeepsUndisturbed ==
  ASSUME CatalogInv, Undisturbed, NEW u \in Requests, NewRequest(u) \/ RequestStep(u)
  PROVE  Undisturbed'
<1> SUFFICES ASSUME faults' = 0, crashes' = 0, NEW w \in Requests
             PROVE  /\ request'[w].at \notin {"take_back", "failed", "lost"}
                    /\ request'[w].at = "delete" => ~Referenced(w)'
  BY DEF Undisturbed, At
<1>1. /\ request \in [Requests -> Request] /\ faults \in Nat /\ crashes \in Nat
      /\ WrittenSoFar(u) /\ WrittenSoFar(w)
  BY CatalogAssumption DEF CatalogInv, CatalogTypeOK
<1>2. CASE NewRequest(u)
  <2>1. /\ UNCHANGED <<versions, faults, crashes>>
        /\ request'[u].at \in {"put", "stage"}
        /\ \A x \in Requests \ {u} : request'[x] = request[x]
    <3>1. ASSUME NEW place \in {"put", "stage"}, NEW kind, NEW d, NEW a, NEW c,
                 Receive(u, place, kind, d, a, c)
          PROVE  /\ UNCHANGED <<versions, faults, crashes>>
                 /\ request'[u].at \in {"put", "stage"}
                 /\ \A x \in Requests \ {u} : request'[x] = request[x]
      BY <1>1, <3>1 DEF Receive
    <3> QED  BY <1>2, <3>1 DEF NewRequest, Upload, Export, Transform, Delete
  <2> QED  BY <1>1, <2>1 DEF Undisturbed, At, Referenced
<1>3. CASE put(u) \/ add(u) \/ take_back(u) \/ Begin(u) \/ erase(u)
  <2>1. versions' = versions /\ faults = 0 /\ crashes = 0
    BY <1>1, <1>3 DEF put, add, take_back, Begin, erase, NoFault, Fault
  <2>2. /\ request'[u].at \in {"add", "refused", "stage", "done", "commit", "undone"}
        /\ \A x \in Requests \ {u} : request'[x] = request[x]
    <3>1. ASSUME NEW place \in {"add", "refused", "stage", "done", "undone"}, Go(u, place)
          PROVE  /\ request'[u].at \in {"add", "refused", "stage", "done", "undone"}
                 /\ \A x \in Requests \ {u} : request'[x] = request[x]
      BY <1>1, <3>1 DEF Go, Request
    <3>2. CASE put(u) \/ erase(u) \/ add(u)
      <4>1. \E place \in {"add", "refused", "stage", "done", "undone"} : Go(u, place)
        BY <1>1, <3>2, <2>1 DEF put, erase, add, NoFault, Fault
      <4> QED  BY <3>1, <4>1
    <3>3. CASE take_back(u)
      BY <2>1, <3>3 DEF take_back, At, Undisturbed
    <3>4. CASE Begin(u)
      BY <1>1, <3>4 DEF Begin
    <3> QED  BY <1>3, <3>2, <3>3, <3>4
  <2> QED  BY <2>1, <2>2 DEF Undisturbed, At, Referenced
<1>4. CASE Refuse(u)
  <2>1. /\ versions' = versions /\ faults = 0 /\ crashes = 0
        /\ request' = [request EXCEPT ![u].at = Except(u)]
        /\ Except(u) = "delete" => request[u].kind = "upload" /\ request[u].at = "stage"
        /\ Except(u) \in {"delete", "refused"}
    BY <1>4 DEF Refuse, Go, At, Except
  <2>2. Except(u) = "delete" => ~Referenced(u)
    BY <1>1, <2>1 DEF WrittenSoFar
  <2> QED  BY <1>1, <2>1, <2>2 DEF Undisturbed, At, Referenced
<1>5. CASE Commit(u) \/ RollBack(u)
  <2>1. /\ faults = 0 /\ crashes = 0 /\ At(u, "commit")
        /\ versions' = versions \/ versions' = versions \cup {NewVersion(u)}
        /\ request' = [request EXCEPT ![u].at = "done"]
    BY <1>1, <1>5 DEF Commit, RollBack, Writes, Go, NoFault, Fault
  <2>2. ASSUME w # u, request[w].at = "delete" PROVE ~Referenced(w)'
    <3>1. ~Referenced(w)
      BY <2>1, <2>2 DEF Undisturbed, At
    <3>2. NewVersion(u).artifact # w
      <4>1. NewVersion(u).artifact = request[u].artifact
        BY DEF NewVersion
      <4>2. request[u].artifact = u \/ Referenced(request[u].artifact)
        BY <1>1 DEF WrittenSoFar
      <4> QED  BY <2>2, <3>1, <4>1, <4>2
    <3> QED  BY <2>1, <3>1, <3>2 DEF Referenced
  <2> QED  BY <1>1, <2>1, <2>2 DEF Undisturbed, At
<1>6. CASE delete(u)
  <2>1. versions' = versions /\ faults = 0 /\ crashes = 0 /\ At(u, "delete")
    BY <1>1, <1>6 DEF delete, NoFault, Fault
  <2>2. MayDelete(u)
    BY <2>1 DEF Undisturbed, MayDelete
  <2>3. request' = [request EXCEPT ![u].at = "erase"]
    BY <1>1, <1>6, <2>1, <2>2 DEF delete, Go, NoFault, Fault
  <2> QED  BY <1>1, <2>1, <2>3 DEF Undisturbed, At, Referenced
<1> QED  BY <1>2, <1>3, <1>4, <1>5, <1>6 DEF RequestStep

\* Undisturbed is inductive, given CatalogInv.
LEMMA StepKeepsUndisturbed ==
  CatalogInv /\ Undisturbed /\ [CatalogNext]_vars => Undisturbed'
<1> SUFFICES ASSUME CatalogInv, Undisturbed, [CatalogNext]_vars PROVE Undisturbed'
  OBVIOUS
<1>1. CASE UNCHANGED vars \/ \E d \in Datasets : Create(d)
  BY <1>1 DEF Undisturbed, At, Referenced, Create, vars
<1>2. CASE Crash
  BY <1>2, CatalogAssumption DEF Undisturbed, Crash, CatalogInv, CatalogTypeOK
<1> QED  BY <1>1, <1>2, RequestKeepsUndisturbed DEF CatalogNext

\* Where every request has ended, each of its artifacts is whole or gone.
LEMMA UndisturbedIsTidy == CatalogInv /\ Undisturbed => NothingIsLeftOver
<1> SUFFICES ASSUME CatalogInv, Undisturbed, faults = 0, crashes = 0,
                    \A u \in Requests : At(u, "new") \/ Settled(u),
                    NEW u \in Requests
             PROVE  /\ u \in files <=> u \in rows
                    /\ u \in rows => Referenced(u) \/ request[u].kind = "export"
  BY DEF NothingIsLeftOver, CatalogInv, CatalogTypeOK
<1>1. /\ request[u].at \in {"new", "done", "refused", "undone"}
      /\ request[u].kind \in Kinds /\ WrittenSoFar(u)
  BY DEF Undisturbed, Settled, Ended, At, CatalogInv, CatalogTypeOK, Request
<1>2. CASE request[u].kind \in {"deletion", "transformation"} \/ At(u, "new")
  BY <1>1, <1>2 DEF WrittenSoFar, At
<1>3. CASE request[u].kind \in {"upload", "export"} /\ request[u].at \in {"refused", "undone"}
  BY <1>1, <1>3 DEF WrittenSoFar, CatalogInv, UndoneLeavesNothing
<1>4. CASE request[u].kind \in {"upload", "export"} /\ At(u, "done")
  <2>1. u \in rows /\ u \in files /\ (request[u].kind = "upload" => NewVersion(u) \in versions)
    BY <1>1, <1>4 DEF WrittenSoFar, CatalogInv, AnswersAreKept
  <2>2. NewVersion(u).artifact = u
    BY <1>1, <1>4 DEF WrittenSoFar, NewVersion
  <2> QED  BY <1>4, <2>1, <2>2 DEF Referenced
<1> QED  BY <1>1, <1>2, <1>3, <1>4 DEF Kinds, At

\* Refused uploads, duplicates, races of stagings with each other and with deletions: as
\* long as no database call fails and the API does not crash, the order of file, row and
\* version and its compensation leave neither bytes without a row nor rows without a use.
THEOREM TidyWithoutFaults == CatalogSpec => []NothingIsLeftOver
<1>1. CatalogInit => Undisturbed
  BY DEF CatalogInit, Undisturbed, At
<1> QED  BY <1>1, InitHolds, StepKeeps, StepKeepsUndisturbed, UndisturbedIsTidy, PTL
         DEF CatalogSpec
=============================================================================
