---------------------- MODULE DocumentsAndLifecycleProofs ----------------------
(***************************************************************************)
(* Proofs about private documents and about onboarding and offboarding, for  *)
(* any documents, uploads, recoveries and faults, and for any appointments,  *)
(* events, definitions, requests and processes.  The two do not interact.    *)
(***************************************************************************)
EXTENDS Documents, Lifecycle, FiniteSetTheorems, SequenceTheorems, TLAPS

-----------------------------------------------------------------------------
(* Private documents.                                                       *)

\* What the row, the file and the request of an upload say of each other.
Sound(u) ==
  LET row == upload[u] at == uploader[u].at IN
  /\ row.status = "NONE" <=> at = "IDLE"
  /\ row.status # "NONE" => row.document \in Document
  /\ at \in {"IDLE", "STARTED"} => file[u] = "ABSENT"
  /\ IsVersion(u) <=> row.status = "COMMITTED"
  /\ row.status = "COMMITTED" => file[u] = "WHOLE" /\ at = "ENDED"
  /\ at = "CHECKED" => row.status = "PENDING"
  /\ row.status = "PENDING" /\ at = "WRITING" => file[u] = "PARTIAL"
  /\ row.status = "PENDING" /\ at \in {"WRITTEN", "CHECKED"} => file[u] = "WHOLE"
  /\ row.cleaned => row.status = "FAILED" /\ file[u] = "ABSENT" /\ at # "STARTED"

\* What a recovery knows of the uploads of its page, and of the one it is at.
Certain(r) ==
  /\ \A u \in recovery[r].page : upload[u].status # "NONE"
  /\ \A u \in Upload : AtHead(r, u) =>
       /\ recovery[r].at \in {"DISCARD", "CLEAN"} => upload[u].status = "FAILED"
       /\ recovery[r].at = "CLEAN" => file[u] = "ABSENT" /\ uploader[u].at # "STARTED"

DocumentsInv ==
  /\ DocumentsTypeOK
  /\ \A u \in Upload : Sound(u)
  /\ \A r \in Recovery : Certain(r)

LEMMA InitHolds == DocumentsInit => DocumentsInv
  <1> SUFFICES ASSUME DocumentsInit PROVE DocumentsInv
    OBVIOUS
  <1>0. Cardinality(Upload) \in Nat
    BY DocumentsAssumption, FS_CardinalityType
  <1>1. DocumentsTypeOK
    BY <1>0, DocumentsAssumption DEF DocumentsInit, DocumentsTypeOK, NoUpload, Asleep, UploadRow, Uploader, Memory
  <1>2. ASSUME NEW u \in Upload PROVE ~ IsVersion(u)
    BY DEF DocumentsInit, IsVersion, ToSet
  <1>3. ASSUME NEW u \in Upload PROVE Sound(u)
    BY <1>2 DEF DocumentsInit, Sound, NoUpload
  <1>4. ASSUME NEW r \in Recovery PROVE Certain(r)
    BY DEF DocumentsInit, Certain, Asleep, AtHead
  <1> QED
    BY <1>1, <1>3, <1>4 DEF DocumentsInv

-----------------------------------------------------------------------------
(* What a step leaves alone.                                                *)

\* Nothing a recovery relies on is taken back: an intent stays recorded, a
\* failed one stays failed, and no file is opened for it once it is past that.
Forward ==
  \A u \in Upload : upload[u].status # "NONE" =>
    /\ upload'[u].status # "NONE"
    /\ upload[u].status = "FAILED" =>
         /\ upload'[u].status = "FAILED"
         /\ file[u] = "ABSENT" /\ uploader[u].at # "STARTED" =>
              file'[u] = "ABSENT" /\ uploader'[u].at # "STARTED"

LEMMA SoundKept ==
  ASSUME DocumentsInv, NEW v \in Upload, upload'[v] = upload[v], file'[v] = file[v],
         uploader'[v] = uploader[v], IsVersion(v)' <=> IsVersion(v)
  PROVE  Sound(v)'
  <1>1. Sound(v)
    BY DEF DocumentsInv
  <1> HIDE DEF DocumentsInv
  <1> QED
    BY <1>1 DEF Sound

LEMMA CertainKept ==
  ASSUME DocumentsInv, Forward, NEW r \in Recovery, recovery'[r] = recovery[r]
  PROVE  Certain(r)'
  <1>1. Certain(r) /\ recovery[r].page \subseteq Upload
    BY DEF DocumentsInv, DocumentsTypeOK, Memory
  <1>2. \A u \in Upload : AtHead(r, u)' <=> AtHead(r, u)
    BY DEF AtHead
  <1>3. \A u \in Upload : AtHead(r, u) => upload[u].status # "NONE"
    BY <1>1 DEF AtHead, Certain
  <1> QED
    BY <1>1, <1>2, <1>3 DEF Certain, Forward

\* A step of an upload touches its own row, its own file and its own request.
LEMMA UploadStep ==
  ASSUME DocumentsInv, DocumentsTypeOK', NEW u \in Upload, Forward, UNCHANGED recovery,
         \A v \in Upload \ {u} :
           /\ upload'[v] = upload[v] /\ file'[v] = file[v]
           /\ uploader'[v] = uploader[v] /\ (IsVersion(v)' <=> IsVersion(v)),
         Sound(u)'
  PROVE  DocumentsInv'
  <1>1. ASSUME NEW v \in Upload PROVE Sound(v)'
    <2>1. CASE v = u
      BY <2>1
    <2>2. CASE v # u
      BY <2>2, SoundKept
    <2> QED
      BY <2>1, <2>2
  <1>2. ASSUME NEW r \in Recovery PROVE Certain(r)'
    BY CertainKept
  <1> QED
    BY <1>1, <1>2 DEF DocumentsInv

LEMMA VersionsKept ==
  ASSUME UNCHANGED versions, NEW u \in Upload
  PROVE  IsVersion(u)' <=> IsVersion(u)
  BY DEF IsVersion

-----------------------------------------------------------------------------
(* Uploads.                                                                 *)

LEMMA StartIInv ==
  ASSUME DocumentsInv, NEW u \in Upload, Starts(u)
  PROVE  DocumentsInv'
  <1>1. PICK d \in Document, seen \in 0 .. Cardinality(Upload) - 1 : Begin(u, d, seen)
    BY DEF Starts
  <1>2. DocumentsTypeOK /\ Sound(u) /\ Cardinality(Upload) \in Nat
    BY DocumentsAssumption, FS_CardinalityType DEF DocumentsInv
  <1>3. upload[u].status = "NONE"
    BY <1>1, <1>2 DEF Sound, Begin
  <1> DEFINE row == [upload[u] EXCEPT !.document = d, !.status = "PENDING"]
             new == [at |-> "STARTED", expected |-> seen]
  <1>4. row \in UploadRow /\ row.status = "PENDING" /\ row.document = d
        /\ row.cleaned = upload[u].cleaned
    BY <1>2 DEF DocumentsTypeOK, UploadRow
  <1>5. new \in Uploader /\ new.at = "STARTED"
    BY <1>2 DEF Uploader
  <1>6. upload' = [upload EXCEPT ![u] = row] /\ uploader' = [uploader EXCEPT ![u] = new]
    BY <1>1 DEF Begin
  <1> HIDE DEF row, new
  <1>7. DocumentsTypeOK' /\ upload'[u] = row /\ uploader'[u] = new
    BY <1>1, <1>2, <1>4, <1>5, <1>6 DEF DocumentsTypeOK, Begin
  <1>8. \A v \in Upload : IsVersion(v)' <=> IsVersion(v)
    BY <1>1, VersionsKept DEF Begin
  <1>9. Sound(u)'
    BY <1>1, <1>2, <1>3, <1>4, <1>5, <1>7, <1>8 DEF Sound, Begin
  <1>10. \A v \in Upload \ {u} :
           upload'[v] = upload[v] /\ file'[v] = file[v] /\ uploader'[v] = uploader[v]
    BY <1>1, <1>2, <1>6 DEF DocumentsTypeOK, Begin
  <1>11. Forward
    BY <1>3, <1>10 DEF Forward
  <1> QED
    BY <1>1, <1>7, <1>8, <1>9, <1>10, <1>11, UploadStep DEF Begin

LEMMA RequestMoves ==
  ASSUME DocumentsTypeOK, NEW u \in Upload, NEW from,
         NEW to \in {"IDLE", "STARTED", "WRITING", "WRITTEN", "CHECKED", "ENDED"},
         UploaderAt(u, from, to)
  PROVE  /\ uploader' \in [Upload -> Uploader]
         /\ uploader[u].at = from /\ uploader'[u].at = to
         /\ \A v \in Upload \ {u} : uploader'[v] = uploader[v]
  <1> DEFINE new == [uploader[u] EXCEPT !.at = to]
  <1>1. new \in Uploader /\ new.at = to
    BY DEF DocumentsTypeOK, Uploader
  <1>2. uploader' = [uploader EXCEPT ![u] = new] /\ uploader[u].at = from
    BY DEF UploaderAt
  <1> HIDE DEF new
  <1> QED
    BY <1>1, <1>2 DEF DocumentsTypeOK

\* A request that ends without a version leaves its row and its file behind.
LEMMA EndsIInv ==
  ASSUME DocumentsInv, NEW u \in Upload, uploader[u].at \notin {"IDLE", "ENDED"},
         UploaderAt(u, uploader[u].at, "ENDED"),
         UNCHANGED <<upload, old, file, versions, recovery>>,
         stops' \in 0 .. MaxStops
  PROVE  DocumentsInv'
  <1>1. DocumentsTypeOK /\ Sound(u)
    BY DEF DocumentsInv
  <1>2. /\ uploader' \in [Upload -> Uploader] /\ uploader'[u].at = "ENDED"
        /\ \A v \in Upload \ {u} : uploader'[v] = uploader[v]
    BY <1>1, RequestMoves
  <1>3. DocumentsTypeOK'
    BY <1>1, <1>2 DEF DocumentsTypeOK
  <1>4. \A v \in Upload : IsVersion(v)' <=> IsVersion(v)
    BY VersionsKept
  <1>5. Sound(u)'
    BY <1>1, <1>2, <1>4 DEF Sound
  <1>6. Forward
    BY <1>2 DEF Forward
  <1> QED
    BY <1>2, <1>3, <1>4, <1>5, <1>6, UploadStep

LEMMA GoesIInv ==
  ASSUME DocumentsInv, NEW u \in Upload, Goes(u)
  PROVE  DocumentsInv'
  <1>1. DocumentsTypeOK /\ Sound(u)
    BY DEF DocumentsInv
  <1>2. CASE Refuse(u)
    <2>1. uploader[u].at = "STARTED" /\ stops' \in 0 .. MaxStops
      BY <1>1, <1>2 DEF Refuse, UploaderAt, DocumentsTypeOK
    <2> QED
      BY <1>2, <2>1, EndsIInv DEF Refuse
  <1>3. ASSUME NEW from, NEW to \in {"WRITING", "WRITTEN"}, UploaderAt(u, from, to),
               NEW new \in {"ABSENT", "PARTIAL", "WHOLE"}, file' = [file EXCEPT ![u] = new],
               \/ from = "STARTED" /\ to = "WRITING" /\ new = "PARTIAL"
               \/ /\ from = "WRITING" /\ to = "WRITTEN"
                  /\ new = IF file[u] = "PARTIAL" THEN "WHOLE" ELSE file[u],
               UNCHANGED <<upload, old, versions, recovery, stops>>
        PROVE  DocumentsInv'
    <2>1. /\ uploader' \in [Upload -> Uploader]
          /\ uploader[u].at = from /\ uploader'[u].at = to
          /\ \A v \in Upload \ {u} : uploader'[v] = uploader[v]
      BY <1>1, <1>3, RequestMoves
    <2>2. DocumentsTypeOK' /\ file'[u] = new /\ \A v \in Upload \ {u} : file'[v] = file[v]
      BY <1>1, <1>3, <2>1 DEF DocumentsTypeOK
    <2>3. \A v \in Upload : IsVersion(v)' <=> IsVersion(v)
      BY <1>3, VersionsKept
    <2>4. Sound(u)'
      BY <1>1, <1>3, <2>1, <2>2, <2>3 DEF Sound
    <2>5. Forward
      BY <1>3, <2>1, <2>2 DEF Forward
    <2> QED
      BY <1>3, <2>1, <2>2, <2>3, <2>4, <2>5, UploadStep
  <1>4. CASE Open(u)
    BY <1>3, <1>4 DEF Open
  <1>5. CASE Write(u)
    <2> DEFINE new == IF file[u] = "PARTIAL" THEN "WHOLE" ELSE file[u]
    <2>1. new \in {"ABSENT", "PARTIAL", "WHOLE"}
      BY <1>1 DEF DocumentsTypeOK
    <2>2. UploaderAt(u, "WRITING", "WRITTEN") /\ file' = [file EXCEPT ![u] = new]
          /\ UNCHANGED <<upload, old, versions, recovery, stops>>
      BY <1>5 DEF Write
    <2> QED
      BY <1>3, <2>1, <2>2
  <1> QED
    BY <1>2, <1>4, <1>5 DEF Goes

LEMMA CheckIntentIInv ==
  ASSUME DocumentsInv, NEW u \in Upload, CheckIntent(u)
  PROVE  DocumentsInv'
  <1>1. DocumentsTypeOK /\ Sound(u)
    BY DEF DocumentsInv
  <1>2. UploaderAt(u, "WRITTEN", "CHECKED")
    BY DEF CheckIntent
  <1>3. /\ uploader' \in [Upload -> Uploader]
        /\ uploader[u].at = "WRITTEN" /\ uploader'[u].at = "CHECKED"
        /\ \A v \in Upload \ {u} : uploader'[v] = uploader[v]
    BY <1>1, <1>2, RequestMoves
  <1>4. DocumentsTypeOK'
    BY <1>1, <1>3 DEF DocumentsTypeOK, CheckIntent
  <1>5. \A v \in Upload : IsVersion(v)' <=> IsVersion(v)
    BY VersionsKept DEF CheckIntent
  <1>6. Sound(u)'
    BY <1>1, <1>3, <1>5 DEF Sound, CheckIntent
  <1>7. Forward
    BY <1>3 DEF Forward, CheckIntent
  <1> QED
    BY <1>3, <1>4, <1>5, <1>6, <1>7, UploadStep DEF CheckIntent

LEMMA AbandonIInv ==
  ASSUME DocumentsInv, NEW u \in Upload, Abandon(u)
  PROVE  DocumentsInv'
  <1>1. DocumentsTypeOK
    BY DEF DocumentsInv
  <1>2. stops' \in 0 .. MaxStops /\ uploader[u].at \notin {"IDLE", "ENDED"}
    BY <1>1 DEF DocumentsTypeOK, Abandon
  <1> QED
    BY <1>2, EndsIInv DEF Abandon

\* A version is added at the end of one document, and no other one moves.
LEMMA VersionAdded ==
  ASSUME DocumentsTypeOK, NEW d \in Document, NEW u \in Upload,
         versions' = [versions EXCEPT ![d] = Append(versions[d], u)]
  PROVE  /\ versions' \in [Document -> Seq(Upload)]
         /\ \A v \in Upload : IsVersion(v)' <=> IsVersion(v) \/ v = u
  <1>1. versions \in [Document -> Seq(Upload)]
    BY DEF DocumentsTypeOK
  <1>2. versions' \in [Document -> Seq(Upload)]
    BY <1>1
  <1>3. ToSet(Append(versions[d], u)) = ToSet(versions[d]) \cup {u}
    <2> DEFINE s == versions[d]
    <2>1. s \in Seq(Upload)
      BY <1>1
    <2> HIDE DEF s
    <2>2. /\ Len(Append(s, u)) = Len(s) + 1 /\ Append(s, u)[Len(s) + 1] = u
          /\ \A i \in 1 .. Len(s) : Append(s, u)[i] = s[i]
      BY <2>1
    <2>3. DOMAIN Append(s, u) = DOMAIN s \cup {Len(s) + 1} /\ DOMAIN s = 1 .. Len(s)
      BY <2>1
    <2>4. ToSet(Append(s, u)) = ToSet(s) \cup {u}
      BY <2>2, <2>3 DEF ToSet
    <2> QED
      BY <2>4 DEF s
  <1>4. \A c \in Document : versions'[c] = IF c = d THEN Append(versions[d], u) ELSE versions[c]
    BY <1>1
  <1>5. ASSUME NEW v \in Upload PROVE IsVersion(v)' <=> IsVersion(v) \/ v = u
    BY <1>3, <1>4 DEF IsVersion
  <1> QED
    BY <1>2, <1>5

LEMMA CommitIInv ==
  ASSUME DocumentsInv, NEW u \in Upload, Commit(u)
  PROVE  DocumentsInv'
  <1> DEFINE d == upload[u].document
             row == [upload[u] EXCEPT !.status = "COMMITTED"]
  <1>1. DocumentsTypeOK /\ Sound(u) /\ UploaderAt(u, "CHECKED", "ENDED")
    BY DEF DocumentsInv, Commit
  <1>2. /\ uploader' \in [Upload -> Uploader]
        /\ uploader[u].at = "CHECKED" /\ uploader'[u].at = "ENDED"
        /\ \A v \in Upload \ {u} : uploader'[v] = uploader[v]
    BY <1>1, RequestMoves
  <1>3. upload[u].status = "PENDING" /\ d \in Document /\ file[u] = "WHOLE"
        /\ ~ upload[u].cleaned
    BY <1>1, <1>2 DEF Sound
  <1>4. /\ versions' \in [Document -> Seq(Upload)]
        /\ \A v \in Upload : IsVersion(v)' <=> IsVersion(v) \/ v = u
    BY <1>1, <1>3, VersionAdded DEF Commit
  <1>5. /\ row \in UploadRow /\ row.status = "COMMITTED" /\ row.document = d
        /\ row.cleaned = upload[u].cleaned
    BY <1>1 DEF DocumentsTypeOK, UploadRow
  <1>6. upload' = [upload EXCEPT ![u] = row]
    BY DEF Commit
  <1> HIDE DEF row
  <1>7. upload'[u] = row /\ DocumentsTypeOK' /\ \A v \in Upload \ {u} : upload'[v] = upload[v]
    BY <1>1, <1>2, <1>4, <1>5, <1>6 DEF DocumentsTypeOK, Commit
  <1>8. Sound(u)'
    BY <1>1, <1>2, <1>3, <1>4, <1>5, <1>7 DEF Sound, Commit
  <1>9. Forward
    BY <1>2, <1>3, <1>5, <1>7 DEF Forward, Commit
  <1> QED
    BY <1>2, <1>4, <1>7, <1>8, <1>9, UploadStep DEF Commit

LEMMA AgesIInv ==
  ASSUME DocumentsInv, NEW u \in Upload, Ages(u)
  PROVE  DocumentsInv'
  <1>1. DocumentsTypeOK' /\ Sound(u)
    BY DEF DocumentsInv, DocumentsTypeOK, Ages
  <1>2. \A v \in Upload : IsVersion(v)' <=> IsVersion(v)
    BY VersionsKept DEF Ages
  <1>3. Sound(u)'
    BY <1>2, SoundKept DEF Ages
  <1>4. Forward
    BY DEF Forward, Ages
  <1> QED
    BY <1>1, <1>2, <1>3, <1>4, UploadStep DEF Ages

-----------------------------------------------------------------------------
(* Recovery.                                                                *)

\* The page of a recovery has a first upload, if it has any, and only one.
LEMMA OneHead ==
  ASSUME DocumentsTypeOK, NEW r \in Recovery, NEW u \in Upload, AtHead(r, u), NEW v \in Upload, AtHead(r, v)
  PROVE  u = v
  <1>1. u <= v /\ v <= u /\ u \in Nat /\ v \in Nat
    BY DocumentsAssumption DEF AtHead
  <1> QED
    BY <1>1

\* A recovery remembers something of its type; the others remember what they did.
LEMMA MemoryReplaced ==
  ASSUME DocumentsTypeOK, NEW r \in Recovery, NEW m \in Memory, Remembers(r, m)
  PROVE  /\ recovery' \in [Recovery -> Memory] /\ recovery'[r] = m
         /\ \A q \in Recovery \ {r} : recovery'[q] = recovery[q]
  BY DEF DocumentsTypeOK, Remembers

LEMMA AsleepTyped == Asleep \in Memory /\ Asleep.page = {}
  BY DEF Asleep, Memory

LEMMA OnwardTyped ==
  ASSUME NEW m \in Memory, NEW u \in Upload
  PROVE  /\ Onward(m, u) \in Memory /\ Onward(m, u).page \subseteq m.page
         /\ Onward(m, u).at \in {"IDLE", "SCAN", "RECOVER"}
  <1>1. m.page \ {u} \in SUBSET Upload
    BY DEF Memory
  <1>2. ASSUME NEW p \in SUBSET Upload
        PROVE  LET n == [m EXCEPT !.at = "RECOVER", !.page = p]
               IN  n \in Memory /\ n.page = p /\ n.at = "RECOVER"
    BY DEF Memory
  <1>3. LET n == [m EXCEPT !.at = "SCAN"] IN n \in Memory /\ n.page = m.page /\ n.at = "SCAN"
    BY DEF Memory
  <1> QED
    BY <1>1, <1>2, <1>3, AsleepTyped DEF Onward, Asleep

\* A step of a recovery: every upload stays sound, the others know what they
\* knew, and it knows the upload it is at.
LEMMA RecoveryStep ==
  ASSUME DocumentsInv, DocumentsTypeOK', NEW r \in Recovery, Forward,
         \A q \in Recovery \ {r} : recovery'[q] = recovery[q],
         \A u \in Upload : Sound(u)', Certain(r)'
  PROVE  DocumentsInv'
  <1>1. ASSUME NEW q \in Recovery PROVE Certain(q)'
    <2>1. CASE q = r
      BY <2>1
    <2>2. CASE q # r
      BY <2>2, CertainKept
    <2> QED
      BY <2>1, <2>2
  <1> QED
    BY <1>1 DEF DocumentsInv

\* A recovery that goes on to another upload claims nothing of it yet.
LEMMA CertainOfNone ==
  ASSUME NEW r \in Recovery, \A u \in recovery'[r].page : upload'[u].status # "NONE",
         recovery'[r].at \in {"IDLE", "SCAN", "RECOVER"}
  PROVE  Certain(r)'
  BY DEF Certain

LEMMA NothingMoves ==
  ASSUME DocumentsInv, UNCHANGED <<upload, file, versions, uploader>>
  PROVE  Forward /\ \A u \in Upload : Sound(u)'
  BY VersionsKept, SoundKept DEF Forward

LEMMA ReadPageIInv ==
  ASSUME DocumentsInv, NEW r \in Recovery, ReadPage(r)
  PROVE  DocumentsInv'
  <1>1. PICK last \in Upload \cup {0} :
          Remembers(r, IF PageAfter(last) = {} THEN Asleep
                       ELSE [at |-> "RECOVER", page |-> PageAfter(last),
                             full |-> Cardinality(PageAfter(last)) = ScanSize])
    BY DEF ReadPage
  <1> DEFINE m == IF PageAfter(last) = {} THEN Asleep
                  ELSE [at |-> "RECOVER", page |-> PageAfter(last),
                        full |-> Cardinality(PageAfter(last)) = ScanSize]
  <1>2. PageAfter(last) \in SUBSET Upload
        /\ \A u \in PageAfter(last) : upload[u].status # "NONE"
    BY DEF PageAfter, Abandoned
  <1>3. m \in Memory /\ m.at \in {"IDLE", "RECOVER"} /\ m.page \subseteq PageAfter(last)
    <2>1. (Cardinality(PageAfter(last)) = ScanSize) \in BOOLEAN
      OBVIOUS
    <2> QED
      BY <1>2, <2>1, AsleepTyped DEF Memory, Asleep
  <1>4. Remembers(r, m)
    BY <1>1
  <1> HIDE DEF m
  <1>5. DocumentsTypeOK /\ UNCHANGED <<upload, old, file, versions, uploader, stops>>
    BY DEF ReadPage, DocumentsInv
  <1>6. /\ recovery' \in [Recovery -> Memory] /\ recovery'[r] = m
        /\ \A q \in Recovery \ {r} : recovery'[q] = recovery[q]
    BY <1>3, <1>4, <1>5, MemoryReplaced
  <1>7. DocumentsTypeOK'
    BY <1>5, <1>6 DEF DocumentsTypeOK
  <1>8. Certain(r)'
    BY <1>2, <1>3, <1>5, <1>6, CertainOfNone
  <1> QED
    BY <1>5, <1>6, <1>7, <1>8, NothingMoves, RecoveryStep

LEMMA RecoveryStopsIInv ==
  ASSUME DocumentsInv, NEW r \in Recovery, RecoveryStops(r), stops' \in 0 .. MaxStops
  PROVE  DocumentsInv'
  <1>1. DocumentsTypeOK /\ UNCHANGED <<upload, old, file, versions, uploader>>
    BY DEF RecoveryStops, DocumentsInv
  <1>2. /\ recovery' \in [Recovery -> Memory] /\ recovery'[r] = Asleep
        /\ \A q \in Recovery \ {r} : recovery'[q] = recovery[q]
    BY <1>1, AsleepTyped, MemoryReplaced DEF RecoveryStops
  <1>3. DocumentsTypeOK'
    BY <1>1, <1>2 DEF DocumentsTypeOK
  <1>4. Certain(r)'
    BY <1>2, CertainOfNone DEF Asleep
  <1> QED
    BY <1>1, <1>2, <1>3, <1>4, NothingMoves, RecoveryStep

\* Claiming marks an upload that is no version as failed, whatever it was.
LEMMA ClaimMarks ==
  ASSUME DocumentsInv, NEW r \in Recovery, NEW u \in Upload, AtHead(r, u),
         Recoverable(u), upload' = Claimed(u), UNCHANGED <<old, file, versions, uploader>>
  PROVE  /\ upload' \in [Upload -> UploadRow] /\ upload'[u].status = "FAILED"
         /\ \A v \in Upload \ {u} : upload'[v] = upload[v]
         /\ ~ IsVersion(u) /\ Forward /\ \A v \in Upload : Sound(v)'
  <1>1. DocumentsTypeOK /\ Sound(u) /\ Certain(r)
    BY DEF DocumentsInv
  <1>2. ~ IsVersion(u) /\ uploader[u].at # "CHECKED" /\ ~ upload[u].cleaned
    BY <1>1 DEF Sound, Recoverable, HoldsRow
  <1>3. upload[u].status # "NONE"
    BY <1>1 DEF Certain, AtHead
  <1> DEFINE row == [upload[u] EXCEPT !.status = "FAILED"]
  <1>4. /\ row \in UploadRow /\ row.status = "FAILED"
        /\ row.document = upload[u].document /\ row.cleaned = upload[u].cleaned
    BY <1>1 DEF DocumentsTypeOK, UploadRow
  <1>5. upload' = [upload EXCEPT ![u] = row]
    BY <1>2 DEF Claimed
  <1> HIDE DEF row
  <1>6. /\ upload' \in [Upload -> UploadRow] /\ upload'[u] = row
        /\ \A v \in Upload \ {u} : upload'[v] = upload[v]
    BY <1>1, <1>4, <1>5 DEF DocumentsTypeOK
  <1>7. \A v \in Upload : IsVersion(v)' <=> IsVersion(v)
    BY VersionsKept
  <1>8. ASSUME NEW v \in Upload PROVE Sound(v)'
    <2>1. CASE v = u
      BY <1>1, <1>2, <1>3, <1>4, <1>6, <1>7, <2>1 DEF Sound
    <2>2. CASE v # u
      BY <1>6, <1>7, <2>2, SoundKept
    <2> QED
      BY <2>1, <2>2
  <1>9. Forward
    BY <1>4, <1>6 DEF Forward
  <1> QED
    BY <1>2, <1>4, <1>6, <1>8, <1>9

\* A recovery that is done with the upload at its head goes on to the next.
LEMMA OnwardCertain ==
  ASSUME DocumentsInv, NEW r \in Recovery, NEW u \in Upload, Forward,
         Remembers(r, Onward(recovery[r], u))
  PROVE  /\ recovery' \in [Recovery -> Memory] /\ Certain(r)'
         /\ \A q \in Recovery \ {r} : recovery'[q] = recovery[q]
  <1>1. DocumentsTypeOK /\ Certain(r) /\ recovery[r] \in Memory
    BY DEF DocumentsInv, DocumentsTypeOK
  <1>2. /\ recovery' \in [Recovery -> Memory] /\ recovery'[r] = Onward(recovery[r], u)
        /\ \A q \in Recovery \ {r} : recovery'[q] = recovery[q]
    BY <1>1, OnwardTyped, MemoryReplaced
  <1>3. recovery'[r].page \subseteq recovery[r].page /\ recovery[r].page \subseteq Upload
        /\ recovery'[r].at \in {"IDLE", "SCAN", "RECOVER"}
    BY <1>1, <1>2, OnwardTyped DEF Memory
  <1>4. \A v \in recovery'[r].page : upload'[v].status # "NONE"
    BY <1>1, <1>3 DEF Certain, Forward
  <1> QED
    BY <1>2, <1>3, <1>4, CertainOfNone

\* A recovery that stays at the upload at its head knows it as the step leaves it.
LEMMA StaysCertain ==
  ASSUME DocumentsInv, NEW r \in Recovery, NEW u \in Upload, AtHead(r, u), Forward,
         NEW to \in {"DISCARD", "CLEAN"}, Remembers(r, [recovery[r] EXCEPT !.at = to]),
         upload'[u].status = "FAILED",
         to = "CLEAN" => file'[u] = "ABSENT" /\ uploader'[u].at # "STARTED"
  PROVE  /\ recovery' \in [Recovery -> Memory] /\ Certain(r)'
         /\ \A q \in Recovery \ {r} : recovery'[q] = recovery[q]
  <1> DEFINE m == [recovery[r] EXCEPT !.at = to]
  <1>1. DocumentsTypeOK /\ Certain(r) /\ recovery[r] \in Memory
    BY DEF DocumentsInv, DocumentsTypeOK
  <1>2. m \in Memory /\ m.at = to /\ m.page = recovery[r].page
    BY <1>1 DEF Memory
  <1> HIDE DEF m
  <1>3. /\ recovery' \in [Recovery -> Memory] /\ recovery'[r] = m
        /\ \A q \in Recovery \ {r} : recovery'[q] = recovery[q]
    BY <1>1, <1>2, MemoryReplaced DEF m
  <1>4. \A v \in recovery'[r].page : upload'[v].status # "NONE"
    BY <1>1, <1>2, <1>3 DEF Certain, Forward, Memory
  <1>5. ASSUME NEW v \in Upload, AtHead(r, v)' PROVE v = u
    <2>1. AtHead(r, v)
      BY <1>2, <1>3, <1>5 DEF AtHead
    <2> QED
      BY <1>1, <2>1, OneHead
  <1> QED
    BY <1>2, <1>3, <1>4, <1>5 DEF Certain

LEMMA ClaimIInv ==
  ASSUME DocumentsInv, NEW r \in Recovery, NEW u \in Upload, AtHead(r, u), Claim(r, u)
  PROVE  DocumentsInv'
  <1>1. DocumentsTypeOK /\ UNCHANGED <<old, file, versions, uploader, stops>>
    BY DEF Claim, DocumentsInv
  <1>2. CASE ~ Recoverable(u)
    <2>1. Remembers(r, Onward(recovery[r], u)) /\ UNCHANGED upload
      BY <1>2 DEF Claim
    <2>2. Forward /\ \A v \in Upload : Sound(v)'
      BY <1>1, <2>1, NothingMoves
    <2>3. /\ recovery' \in [Recovery -> Memory] /\ Certain(r)'
          /\ \A q \in Recovery \ {r} : recovery'[q] = recovery[q]
      BY <2>1, <2>2, OnwardCertain
    <2>4. DocumentsTypeOK'
      BY <1>1, <2>1, <2>3 DEF DocumentsTypeOK
    <2> QED
      BY <2>2, <2>3, <2>4, RecoveryStep
  <1>3. CASE Recoverable(u)
    <2>1. upload' = Claimed(u)
      BY <1>3 DEF Claim
    <2>2. /\ upload' \in [Upload -> UploadRow] /\ upload'[u].status = "FAILED"
          /\ ~ IsVersion(u) /\ Forward /\ \A v \in Upload : Sound(v)'
      BY <1>1, <1>3, <2>1, ClaimMarks
    <2>3. Remembers(r, [recovery[r] EXCEPT !.at = "DISCARD"])
      BY <1>3, <2>2 DEF Claim
    <2>4. /\ recovery' \in [Recovery -> Memory] /\ Certain(r)'
          /\ \A q \in Recovery \ {r} : recovery'[q] = recovery[q]
      BY <2>2, <2>3, StaysCertain
    <2>5. DocumentsTypeOK'
      BY <1>1, <2>2, <2>4 DEF DocumentsTypeOK
    <2> QED
      BY <2>2, <2>4, <2>5, RecoveryStep
  <1> QED
    BY <1>2, <1>3

LEMMA DiscardIInv ==
  ASSUME DocumentsInv, NEW r \in Recovery, NEW u \in Upload, AtHead(r, u), Discard(r, u)
  PROVE  DocumentsInv'
  <1>1. DocumentsTypeOK /\ Sound(u) /\ upload[u].status = "FAILED"
        /\ UNCHANGED <<upload, old, versions, uploader, stops>>
    BY DEF Discard, DocumentsInv, Certain
  <1>2. /\ file' \in [Upload -> {"ABSENT", "PARTIAL", "WHOLE"}] /\ file'[u] = "ABSENT"
        /\ \A v \in Upload \ {u} : file'[v] = file[v]
    BY <1>1 DEF Discard, DocumentsTypeOK
  <1>3. \A v \in Upload : IsVersion(v)' <=> IsVersion(v)
    BY <1>1, VersionsKept
  <1>4. Forward
    BY <1>1, <1>2 DEF Forward
  <1>5. ASSUME NEW v \in Upload PROVE Sound(v)'
    <2>1. CASE v = u
      BY <1>1, <1>2, <1>3, <2>1 DEF Sound
    <2>2. CASE v # u
      BY <1>1, <1>2, <1>3, <2>2, SoundKept
    <2> QED
      BY <2>1, <2>2
  <1>6. /\ recovery' \in [Recovery -> Memory] /\ Certain(r)'
        /\ \A q \in Recovery \ {r} : recovery'[q] = recovery[q]
    <2>1. CASE file[u] = "ABSENT"
      BY <1>4, <2>1, OnwardCertain DEF Discard
    <2>2. CASE file[u] # "ABSENT"
      <3>1. Remembers(r, [recovery[r] EXCEPT !.at = "CLEAN"])
        BY <2>2 DEF Discard
      <3>2. uploader'[u].at # "STARTED"
        BY <1>1, <2>2 DEF Sound
      <3> QED
        BY <1>1, <1>2, <1>4, <3>1, <3>2, StaysCertain
    <2> QED
      BY <2>1, <2>2
  <1>7. DocumentsTypeOK'
    BY <1>1, <1>2, <1>6 DEF DocumentsTypeOK
  <1> QED
    BY <1>4, <1>5, <1>6, <1>7, RecoveryStep

LEMMA MarkCleanIInv ==
  ASSUME DocumentsInv, NEW r \in Recovery, NEW u \in Upload, AtHead(r, u), MarkClean(r, u)
  PROVE  DocumentsInv'
  <1>1. DocumentsTypeOK /\ Sound(u) /\ UNCHANGED <<old, file, versions, uploader, stops>>
    BY DEF MarkClean, DocumentsInv
  <1>2. upload[u].status = "FAILED" /\ file[u] = "ABSENT" /\ uploader[u].at # "STARTED"
    BY DEF MarkClean, DocumentsInv, Certain
  <1> DEFINE row == [upload[u] EXCEPT !.cleaned = TRUE]
  <1>3. /\ row \in UploadRow /\ row.cleaned /\ row.status = "FAILED"
        /\ row.document = upload[u].document
    BY <1>1, <1>2 DEF DocumentsTypeOK, UploadRow
  <1>4. upload' = [upload EXCEPT ![u] = row]
    BY DEF MarkClean
  <1> HIDE DEF row
  <1>5. /\ upload' \in [Upload -> UploadRow] /\ upload'[u] = row
        /\ \A v \in Upload \ {u} : upload'[v] = upload[v]
    BY <1>1, <1>3, <1>4 DEF DocumentsTypeOK
  <1>6. \A v \in Upload : IsVersion(v)' <=> IsVersion(v)
    BY <1>1, VersionsKept
  <1>7. Forward
    BY <1>1, <1>2, <1>3, <1>5 DEF Forward
  <1>8. ASSUME NEW v \in Upload PROVE Sound(v)'
    <2>1. CASE v = u
      BY <1>1, <1>2, <1>3, <1>5, <1>6, <2>1 DEF Sound
    <2>2. CASE v # u
      BY <1>1, <1>5, <1>6, <2>2, SoundKept
    <2> QED
      BY <2>1, <2>2
  <1>9. /\ recovery' \in [Recovery -> Memory] /\ Certain(r)'
        /\ \A q \in Recovery \ {r} : recovery'[q] = recovery[q]
    BY <1>7, OnwardCertain DEF MarkClean
  <1>10. DocumentsTypeOK'
    BY <1>1, <1>5, <1>9 DEF DocumentsTypeOK
  <1> QED
    BY <1>7, <1>8, <1>9, <1>10, RecoveryStep

LEMMA ClaimUnheardIInv ==
  ASSUME DocumentsInv, NEW r \in Recovery, NEW u \in Upload, AtHead(r, u), ClaimUnheard(r, u),
         stops' \in 0 .. MaxStops
  PROVE  DocumentsInv'
  <1>1. DocumentsTypeOK /\ UNCHANGED <<old, file, versions, uploader>>
    BY DEF ClaimUnheard, DocumentsInv
  <1>2. upload' \in [Upload -> UploadRow] /\ Forward /\ \A v \in Upload : Sound(v)'
    BY <1>1, ClaimMarks DEF ClaimUnheard
  <1>3. /\ recovery' \in [Recovery -> Memory] /\ recovery'[r] = Asleep
        /\ \A q \in Recovery \ {r} : recovery'[q] = recovery[q]
    BY <1>1, AsleepTyped, MemoryReplaced DEF ClaimUnheard
  <1>4. Certain(r)'
    BY <1>3, CertainOfNone DEF Asleep
  <1>5. DocumentsTypeOK'
    BY <1>1, <1>2, <1>3 DEF DocumentsTypeOK
  <1> QED
    BY <1>2, <1>3, <1>4, <1>5, RecoveryStep

-----------------------------------------------------------------------------
LEMMA StepIInv == DocumentsInv /\ [DocumentsNext]_documentVars => DocumentsInv'
  <1> SUFFICES ASSUME DocumentsInv, [DocumentsNext]_documentVars PROVE DocumentsInv'
    OBVIOUS
  <1>1. ASSUME NEW u \in Upload, Starts(u) \/ Goes(u) \/ Ends(u) \/ Ages(u) PROVE DocumentsInv'
    BY <1>1, StartIInv, GoesIInv, CheckIntentIInv, AbandonIInv, CommitIInv, AgesIInv DEF Ends
  <1>2. ASSUME NEW r \in Recovery, Recovers(r) PROVE DocumentsInv'
    BY <1>2, ReadPageIInv, ClaimIInv, DiscardIInv, MarkCleanIInv DEF Recovers, WorksOff
  <1>3. CASE DocumentsFault
    <2>1. stops' \in 0 .. MaxStops
      BY <1>3, DocumentsAssumption DEF DocumentsFault, DocumentsInv, DocumentsTypeOK
    <2>2. ASSUME NEW u \in Upload, UploadStops(u) PROVE DocumentsInv'
      BY <2>1, <2>2, EndsIInv DEF UploadStops
    <2> QED
      BY <1>3, <2>1, <2>2, RecoveryStopsIInv, ClaimUnheardIInv DEF DocumentsFault
  <1>4. CASE UNCHANGED documentVars
    <2>1. DocumentsTypeOK' /\ Forward /\ \A u \in Upload : Sound(u)'
      BY <1>4, NothingMoves DEF documentVars, DocumentsInv, DocumentsTypeOK
    <2>2. \A r \in Recovery : Certain(r)'
      BY <1>4, <2>1, CertainKept DEF documentVars
    <2> QED
      BY <2>1, <2>2 DEF DocumentsInv
  <1> QED
    BY <1>1, <1>2, <1>3, <1>4 DEF DocumentsNext

LEMMA AlwaysIInv == DocumentsSpec => []DocumentsInv
  BY InitHolds, StepIInv, PTL DEF DocumentsSpec

\* Every row, request and recovery always has the shape the code gives it; in
\* particular a document's versions are uploads.
THEOREM DocumentsTyped == DocumentsSpec => []DocumentsTypeOK
  <1>1. DocumentsInv => DocumentsTypeOK
    BY DEF DocumentsInv
  <1> QED
    BY <1>1, AlwaysIInv, PTL

\* A version always has its whole file, and a file without a version always has
\* an intent that a recovery still looks at, for any number of uploads and
\* recoveries, however often each of them stops and wherever it does.
THEOREM FilesAgree == DocumentsSpec => []FilesAndVersionsAgree
  <1>1. DocumentsInv => FilesAndVersionsAgree
    BY DEF DocumentsInv, Sound, FilesAndVersionsAgree
  <1> QED
    BY <1>1, AlwaysIInv, PTL

-----------------------------------------------------------------------------
(* Onboarding and offboarding.  The row of the template and the rows of     *)
(* tasks are held by one request at a time; what a request has read of a row *)
(* that it holds is what it finds when it commits.                          *)

RowsTyped ==
  /\ template \in [status : {"DRAFT", "ACTIVE"}, definition : Definition]
  /\ instance \in [Case -> [status : {"NONE", "ACTIVE", "COMPLETE"}, definition : Definition \cup {None}]]
  /\ task \in [Case -> [Key -> {"NONE", "OPEN", "DONE"}]]
  /\ history \in [Case -> [Key -> Seq({"OPEN", "DONE"})]]
  /\ request \in [Request -> Transaction]

Configuring(r) == At(r, "EDIT") \/ At(r, "PUBLISH")
Working(r) == At(r, "CHECKED") \/ At(r, "COUNTED")

(* The row of the template has one holder, who found a draft in it.         *)
TemplateHeld ==
  /\ \A r \in Request : Configuring(r) => template.status = "DRAFT"
  /\ \A q, r \in Request : Configuring(q) /\ Configuring(r) => q = r

(* The row of a task has one holder, who is about to turn it over.          *)
TaskHeld ==
  /\ \A r \in Request : Working(r) =>
       /\ Exists(request[r].of) /\ request[r].key \in instance[request[r].of].definition.keys
       /\ task[request[r].of][request[r].key] # request[r].status
  /\ \A q, r \in Request :
       Working(q) /\ Working(r) /\ request[q].of = request[r].of /\ request[q].key = request[r].key
       => q = r

(* An instance has the definition of the active template.                   *)
CaseFollows(c) ==
  Exists(c) => template.status = "ACTIVE" /\ instance[c].definition = template.definition

Side(n) == IF n % 2 = 1 THEN "DONE" ELSE "OPEN"
Turns(h) == \A i \in 1 .. Len(h) : h[i] = Side(i)

(* A task of the definition is on the side to which its history has turned  *)
(* it; there is no history of any other.                                    *)
TaskTurns(c, k) ==
  LET h == history[c][k] IN
  /\ Turns(h)
  /\ IF Exists(c) /\ k \in instance[c].definition.keys
     THEN task[c][k] = Side(Len(h)) ELSE h = <<>>

IInv ==
  /\ RowsTyped /\ TemplateHeld /\ TaskHeld
  /\ \A c \in Case : CaseFollows(c)
  /\ \A c \in Case, k \in Key : TaskTurns(c, k)

-----------------------------------------------------------------------------
LEMMA TransactionIs ==
  ASSUME NEW m \in Transaction
  PROVE  /\ m.at = "EDIT" => m.definition \in Definition
         /\ m.at = "MOVE" => m.of \in Assignment /\ m.unit \in Unit
         /\ m.at = "ACTIVATE" => m.of \in Assignment /\ m.event \in Event
         /\ m.at \in {"CHECKED", "COUNTED"} =>
              m.of \in Case /\ m.key \in Key /\ m.status \in {"OPEN", "DONE"}
         /\ m.at = "COUNTED" => m.outcome \in {"ACTIVE", "COMPLETE"}
  BY DEF Transaction

LEMMA RequestsAre ==
  ASSUME IInv, NEW r \in Request
  PROVE  request[r] \in Transaction
  BY DEF IInv, RowsTyped

LEMMA FreeIs == Free \in Transaction /\ Free.at = "IDLE"
  BY DEF Free, Transaction

LEMMA BecomesIs ==
  ASSUME IInv, NEW r \in Request, NEW m \in Transaction, Becomes(r, m)
  PROVE  /\ request' \in [Request -> Transaction] /\ request'[r] = m
         /\ \A q \in Request \ {r} : request'[q] = request[q]
  BY DEF IInv, RowsTyped, Becomes

CasesStay == UNCHANGED <<template, instance, task, history>>

(* Only a request moves on.  It holds no row, or the one that it held, or   *)
(* one that was free.                                                       *)
LEMMA RequestKeeps ==
  ASSUME IInv, CasesStay, NEW r \in Request, NEW m \in Transaction, Becomes(r, m),
         m.at \in {"EDIT", "PUBLISH"} =>
           template.status = "DRAFT" /\ \A q \in Request \ {r} : ~ Configuring(q),
         m.at \in {"CHECKED", "COUNTED"} =>
           /\ Exists(m.of) /\ m.key \in instance[m.of].definition.keys
           /\ task[m.of][m.key] # m.status
           /\ \A q \in Request \ {r} : Working(q) => <<request[q].of, request[q].key>> # <<m.of, m.key>>
  PROVE  IInv'
  <1>1. /\ request' \in [Request -> Transaction] /\ request'[r] = m
        /\ \A q \in Request \ {r} : request'[q] = request[q]
    BY BecomesIs
  <1>2. /\ template' = template /\ instance' = instance /\ task' = task /\ history' = history
        /\ \A c : Exists(c)' <=> Exists(c)
    BY DEF CasesStay, Exists
  <1>3. TemplateHeld'
    BY <1>1, <1>2 DEF IInv, TemplateHeld, Configuring, At
  <1>4. TaskHeld'
    BY <1>1, <1>2 DEF IInv, TaskHeld, Working, At
  <1>5. RowsTyped'
    BY <1>1, <1>2 DEF IInv, RowsTyped
  <1> QED
    BY <1>2, <1>3, <1>4, <1>5 DEF IInv, CaseFollows, TaskTurns

LEMMA StillKeeps ==
  ASSUME IInv, CasesStay, UNCHANGED request
  PROVE  IInv'
  BY DEF IInv, CasesStay, RowsTyped, TemplateHeld, TaskHeld, CaseFollows, TaskTurns, Configuring,
         Working, At, Exists

LEMMA AsksKeep ==
  ASSUME IInv, NEW r \in Request, Arrival(r) \/ Rollback(r) \/ Move(r)
  PROVE  IInv'
  <1>1. ASSUME NEW d \in Definition, AskEdit(r, d) PROVE IInv'
    <2>1. PICK m : m = [at |-> "EDIT", definition |-> d]
      OBVIOUS
    <2>2. m \in Transaction /\ m.at = "EDIT"
      BY <2>1 DEF Transaction
    <2>3. /\ Becomes(r, m) /\ CasesStay /\ template.status = "DRAFT"
          /\ \A q \in Request : ~ Configuring(q)
      BY <1>1, <2>1 DEF AskEdit, CasesStay, settings, tasks, TemplateRowFree, Configuring
    <2> QED
      BY <2>2, <2>3, RequestKeeps
  <1>2. ASSUME AskPublish(r) PROVE IInv'
    <2>1. PICK m : m = [at |-> "PUBLISH"]
      OBVIOUS
    <2>2. m \in Transaction /\ m.at = "PUBLISH"
      BY <2>1 DEF Transaction
    <2>3. /\ Becomes(r, m) /\ CasesStay /\ template.status = "DRAFT"
          /\ \A q \in Request : ~ Configuring(q)
      BY <1>2, <2>1 DEF AskPublish, CasesStay, settings, tasks, TemplateRowFree, Configuring
    <2> QED
      BY <2>2, <2>3, RequestKeeps
  <1>3. ASSUME NEW a \in Assignment, NEW u \in Unit, AskMove(r, a, u) PROVE IInv'
    <2>1. PICK m : m = [at |-> "MOVE", of |-> a, unit |-> u]
      OBVIOUS
    <2>2. m \in Transaction /\ m.at = "MOVE"
      BY <2>1 DEF Transaction
    <2>3. Becomes(r, m) /\ CasesStay
      BY <1>3, <2>1 DEF AskMove, CasesStay, settings, tasks
    <2> QED
      BY <2>2, <2>3, RequestKeeps
  <1>4. ASSUME NEW a \in Assignment, NEW e \in Event, AskActivate(r, a, e) PROVE IInv'
    <2>1. PICK m : m = [at |-> "ACTIVATE", of |-> a, event |-> e]
      OBVIOUS
    <2>2. m \in Transaction /\ m.at = "ACTIVATE"
      BY <2>1 DEF Transaction
    <2>3. Becomes(r, m) /\ CasesStay
      BY <1>4, <2>1 DEF AskActivate, CasesStay, settings, tasks
    <2> QED
      BY <2>2, <2>3, RequestKeeps
  <1>5. ASSUME NEW c \in Case, NEW k \in Key, NEW s \in {"OPEN", "DONE"}, CheckTask(r, c, k, s)
        PROVE  IInv'
    <2>1. PICK m : m = [at |-> "CHECKED", of |-> c, key |-> k, status |-> s]
      OBVIOUS
    <2>2. m \in Transaction /\ m.at = "CHECKED" /\ m.of = c /\ m.key = k /\ m.status = s
      BY <2>1 DEF Transaction
    <2>3. /\ Becomes(r, m) /\ CasesStay /\ Exists(c) /\ k \in instance[c].definition.keys
          /\ task[c][k] # s
          /\ \A q \in Request : Working(q) => <<request[q].of, request[q].key>> # <<c, k>>
      BY <1>5, <2>1 DEF CheckTask, CasesStay, settings, tasks, TaskRowFree, Working, MayBecome
    <2> QED
      BY <2>2, <2>3, RequestKeeps
  <1>6. ASSUME Rollback(r) \/ Move(r) PROVE IInv'
    <2>1. Becomes(r, Free) /\ CasesStay
      BY <1>6 DEF Rollback, Move, CasesStay, settings, tasks
    <2> QED
      BY <2>1, FreeIs, RequestKeeps
  <1> QED
    BY <1>1, <1>2, <1>3, <1>4, <1>5, <1>6 DEF Arrival, Configures, Administers, Works

LEMMA CountTasksKeeps ==
  ASSUME IInv, NEW r \in Request, CountTasks(r)
  PROVE  IInv'
  <1>1. PICK t \in Transaction : t = request[r]
    BY RequestsAre
  <1>2. PICK m : /\ Becomes(r, m)
                 /\ \E o \in {"COMPLETE", "ACTIVE"} :
                      m = [at |-> "COUNTED", of |-> t.of, key |-> t.key, status |-> t.status,
                           outcome |-> o]
    BY <1>1 DEF CountTasks
  <1>3. t.at = "CHECKED" /\ CasesStay
    BY <1>1 DEF CountTasks, At, CasesStay, settings, tasks
  <1>4. /\ m \in Transaction /\ m.at = "COUNTED" /\ m.of = t.of /\ m.key = t.key
        /\ m.status = t.status
    BY <1>2, <1>3, TransactionIs DEF Transaction
  <1>5. Working(r)
    BY <1>1, <1>3 DEF Working, At
  <1>6. /\ Exists(t.of) /\ t.key \in instance[t.of].definition.keys
        /\ task[t.of][t.key] # t.status
        /\ \A q \in Request \ {r} : Working(q) => <<request[q].of, request[q].key>> # <<t.of, t.key>>
    BY <1>1, <1>5 DEF IInv, TaskHeld
  <1> QED
    BY <1>2, <1>3, <1>4, <1>6, RequestKeeps

(* The draft becomes another, or is one no more: nothing follows it yet.    *)
LEMMA TemplateKeeps ==
  ASSUME IInv, NEW r \in Request, EditTemplate(r) \/ ActivateTemplate(r)
  PROVE  IInv'
  <1>1. PICK t \in Transaction : t = request[r]
    BY RequestsAre
  <1>2. /\ Configuring(r) /\ Becomes(r, Free) /\ UNCHANGED <<instance, task, history>>
        /\ \/ t.at = "EDIT" /\ template' = [template EXCEPT !.definition = t.definition]
           \/ template' = [template EXCEPT !.status = "ACTIVE"]
    BY <1>1 DEF EditTemplate, ActivateTemplate, Configuring, At, tasks
  <1>3. /\ template.status = "DRAFT" /\ \A q \in Request \ {r} : ~ Configuring(q)
    BY <1>2 DEF IInv, TemplateHeld
  <1>4. template' \in [status : {"DRAFT", "ACTIVE"}, definition : Definition]
    BY <1>2, TransactionIs DEF IInv, RowsTyped
  <1>5. /\ request' \in [Request -> Transaction] /\ request'[r] = Free /\ Free.at = "IDLE"
        /\ \A q \in Request \ {r} : request'[q] = request[q]
    BY <1>2, FreeIs, BecomesIs
  <1>6. \A c \in Case : ~ Exists(c) /\ ~ Exists(c)'
    BY <1>2, <1>3 DEF IInv, CaseFollows, Exists
  <1>7. RowsTyped'
    BY <1>2, <1>4, <1>5 DEF IInv, RowsTyped
  <1>8. TemplateHeld'
    BY <1>3, <1>5 DEF TemplateHeld, Configuring, At
  <1>9. TaskHeld'
    BY <1>2, <1>5 DEF IInv, TaskHeld, Working, At, Exists
  <1> QED
    BY <1>2, <1>6, <1>7, <1>8, <1>9 DEF IInv, CaseFollows, TaskTurns

(* Requests stay where they are or end.                                     *)
SomeEnd ==
  /\ request' \in [Request -> Transaction]
  /\ \A q \in Request : request'[q] = request[q] \/ request'[q].at = "IDLE"

(* The first activation of an event opens its tasks; another does nothing.  *)
LEMMA ActivatedKeeps ==
  ASSUME IInv, NEW c, Activated(c), UNCHANGED <<template, history>>, SomeEnd
  PROVE  IInv'
  <1>1. TemplateHeld'
    BY DEF IInv, TemplateHeld, Configuring, At, SomeEnd
  <1>2. CASE UNCHANGED <<instance, task>>
    <2>1. RowsTyped'
      BY <1>2 DEF IInv, RowsTyped, SomeEnd
    <2>2. \A r \in Request : Working(r)' => Working(r) /\ request'[r] = request[r]
      BY DEF SomeEnd, Working, At
    <2>3. TaskHeld'
      BY <1>2, <2>2 DEF IInv, TaskHeld, Exists
    <2> QED
      BY <1>1, <1>2, <2>1, <2>3 DEF IInv, CaseFollows, TaskTurns, Exists
  <1>3. CASE ~ UNCHANGED <<instance, task>>
    <2>1. PICK n, tasked :
            /\ n = [status |-> "ACTIVE", definition |-> template.definition]
            /\ tasked = [k \in Key |-> IF k \in template.definition.keys THEN "OPEN" ELSE "NONE"]
      OBVIOUS
    <2>2. /\ ~ Exists(c) /\ template.status = "ACTIVE"
          /\ instance' = [instance EXCEPT ![c] = n] /\ task' = [task EXCEPT ![c] = tasked]
      BY <1>3, <2>1 DEF Activated
    <2>3. /\ n \in [status : {"NONE", "ACTIVE", "COMPLETE"}, definition : Definition \cup {None}]
          /\ n.status = "ACTIVE" /\ n.definition = template.definition
          /\ tasked \in [Key -> {"NONE", "OPEN", "DONE"}]
      BY <2>1 DEF IInv, RowsTyped
    <2>4. c \in Case
      BY <1>3, <2>2 DEF IInv, RowsTyped
    <2>5. /\ instance'[c] = n /\ task'[c] = tasked
          /\ \A d \in Case \ {c} : instance'[d] = instance[d] /\ task'[d] = task[d]
      BY <2>2, <2>4 DEF IInv, RowsTyped
    <2>6. RowsTyped'
      BY <2>2, <2>3 DEF IInv, RowsTyped, SomeEnd
    <2>7. \A r \in Request : Working(r)' => Working(r) /\ request'[r] = request[r]
                                               /\ request[r].of \in Case \ {c}
      BY <2>2, RequestsAre, TransactionIs DEF SomeEnd, Working, At, IInv, TaskHeld
    <2>8. TaskHeld'
      BY <2>5, <2>7 DEF IInv, TaskHeld, Exists
    <2>9. \A d \in Case : CaseFollows(d)'
      BY <2>2, <2>3, <2>5 DEF IInv, CaseFollows, Exists
    <2>10. \A d \in Case, k \in Key : TaskTurns(d, k)'
      <3>1. ASSUME NEW k \in Key PROVE TaskTurns(c, k)'
        <4>1. history[c][k] = <<>> /\ history'[c][k] = <<>> /\ Len(<<>>) = 0
          BY <2>2, <2>4 DEF IInv, TaskTurns
        <4>2. k \in n.definition.keys => task'[c][k] = "OPEN"
          BY <2>1, <2>5
        <4>3. Side(0) = "OPEN"
          BY DEF Side
        <4> QED
          BY <2>5, <4>1, <4>2, <4>3 DEF TaskTurns, Turns
      <3>2. ASSUME NEW d \in Case \ {c}, NEW k \in Key PROVE TaskTurns(d, k)'
        BY <2>5 DEF IInv, TaskTurns, Exists
      <3> QED
        BY <3>1, <3>2
    <2> QED
      BY <1>1, <2>6, <2>8, <2>9, <2>10 DEF IInv
  <1> QED
    BY <1>2, <1>3

LEMMA ActivateKeeps ==
  ASSUME IInv, NEW r \in Request, Activate(r)
  PROVE  IInv'
  <1>1. PICK c : c = <<request[r].of, request[r].event>>
    OBVIOUS
  <1>2. Activated(c) /\ UNCHANGED <<template, history>> /\ Becomes(r, Free)
    BY <1>1 DEF Activate, settings
  <1>3. SomeEnd
    BY <1>2, FreeIs, BecomesIs DEF SomeEnd
  <1> QED
    BY <1>2, <1>3, ActivatedKeeps

LEMMA CreateInstanceKeeps ==
  ASSUME IInv, NEW p \in Process, CreateInstance(p)
  PROVE  IInv'
  <1>1. PICK c : c = <<Head(automation[p].page), "RULE">>
    OBVIOUS
  <1>2. Activated(c) /\ UNCHANGED <<template, history, request>>
    BY <1>1 DEF CreateInstance, Scans, settings
  <1>3. SomeEnd
    BY <1>2 DEF SomeEnd, IInv, RowsTyped
  <1> QED
    BY <1>2, <1>3, ActivatedKeeps

LEMMA TurnsOver ==
  ASSUME NEW h \in Seq({"OPEN", "DONE"}), Turns(h), NEW s \in {"OPEN", "DONE"}, s # Side(Len(h))
  PROVE  /\ Append(h, s) \in Seq({"OPEN", "DONE"}) /\ Turns(Append(h, s))
         /\ s = Side(Len(Append(h, s)))
  <1>1. Len(h) \in Nat /\ Len(Append(h, s)) = Len(h) + 1
    OBVIOUS
  <1>2. (Len(h) + 1) % 2 = 1 <=> Len(h) % 2 # 1
    BY <1>1
  <1>3. s = Side(Len(h) + 1)
    BY <1>2 DEF Side
  <1>4. \A i \in 1 .. Len(h) + 1 : Append(h, s)[i] = IF i <= Len(h) THEN h[i] ELSE s
    BY <1>1
  <1>5. \A i \in 1 .. Len(h) + 1 : Append(h, s)[i] = Side(i)
    <2>1. TAKE i \in 1 .. Len(h) + 1
    <2>2. i \in 1 .. Len(h) \/ i = Len(h) + 1
      BY <1>1
    <2> QED
      BY <1>1, <1>3, <1>4, <2>2 DEF Turns
  <1> QED
    BY <1>1, <1>3, <1>5 DEF Turns
(* A task is turned over: its holder still finds the side that it has read. *)
LEMMA CommitTaskKeeps ==
  ASSUME IInv, NEW r \in Request, CommitTask(r)
  PROVE  IInv'
  <1>1. PICK t \in Transaction : t = request[r]
    BY RequestsAre
  <1>2. t.at = "COUNTED" /\ Working(r)
    BY <1>1 DEF CommitTask, At, Working
  <1>3. PICK c, k, s, o : c = t.of /\ k = t.key /\ s = t.status /\ o = t.outcome
    OBVIOUS
  <1>4. c \in Case /\ k \in Key /\ s \in {"OPEN", "DONE"} /\ o \in {"ACTIVE", "COMPLETE"}
    BY <1>2, <1>3, TransactionIs
  <1>5. /\ Exists(c) /\ k \in instance[c].definition.keys /\ task[c][k] # s
        /\ \A q \in Request \ {r} : Working(q) => ~ (request[q].of = c /\ request[q].key = k)
    BY <1>1, <1>2, <1>3 DEF IInv, TaskHeld
  <1>6. /\ Becomes(r, Free) /\ template' = template
        /\ task' = [task EXCEPT ![c][k] = s]
        /\ history' = [history EXCEPT ![c][k] = Append(@, s)]
        /\ instance' = [instance EXCEPT ![c].status = o]
    BY <1>1, <1>3 DEF CommitTask, settings
  <1>7. /\ request' \in [Request -> Transaction] /\ request'[r] = Free /\ Free.at = "IDLE"
        /\ \A q \in Request \ {r} : request'[q] = request[q]
    BY <1>6, FreeIs, BecomesIs
  <1>8. history[c][k] \in Seq({"OPEN", "DONE"}) /\ Turns(history[c][k])
        /\ s # Side(Len(history[c][k]))
    BY <1>4, <1>5 DEF IInv, RowsTyped, TaskTurns
  <1>9. PICK h : h = Append(history[c][k], s)
    OBVIOUS
  <1>10. h \in Seq({"OPEN", "DONE"}) /\ Turns(h) /\ s = Side(Len(h))
    BY <1>4, <1>8, <1>9, TurnsOver
  <1>11. /\ task'[c][k] = s /\ history'[c][k] = h
         /\ \A d \in Case, l \in Key : <<d, l>> # <<c, k>> =>
              task'[d][l] = task[d][l] /\ history'[d][l] = history[d][l]
    BY <1>4, <1>6, <1>9 DEF IInv, RowsTyped
  <1>12. /\ \A d \in Case : instance'[d].definition = instance[d].definition
         /\ \A d \in Case : Exists(d)' <=> Exists(d)
    <2>1. instance'[c] = [instance[c] EXCEPT !.status = o]
          /\ \A d \in Case \ {c} : instance'[d] = instance[d]
      BY <1>4, <1>6 DEF IInv, RowsTyped
    <2>2. instance'[c].definition = instance[c].definition /\ instance'[c].status = o
      BY <1>4, <2>1 DEF IInv, RowsTyped
    <2> QED
      BY <1>4, <1>5, <2>1, <2>2 DEF Exists
  <1>13. RowsTyped'
    <2>1. task' \in [Case -> [Key -> {"NONE", "OPEN", "DONE"}]]
      BY <1>4, <1>6 DEF IInv, RowsTyped
    <2>2. history' \in [Case -> [Key -> Seq({"OPEN", "DONE"})]]
      BY <1>4, <1>6, <1>9, <1>10 DEF IInv, RowsTyped
    <2>3. instance' \in [Case -> [status : {"NONE", "ACTIVE", "COMPLETE"},
                                  definition : Definition \cup {None}]]
      BY <1>4, <1>6 DEF IInv, RowsTyped
    <2> QED
      BY <1>6, <1>7, <2>1, <2>2, <2>3 DEF IInv, RowsTyped
  <1>14. TemplateHeld'
    BY <1>6, <1>7 DEF IInv, TemplateHeld, Configuring, At
  <1>15. \A q \in Request : Working(q)' =>
           /\ Working(q) /\ request'[q] = request[q] /\ request[q].of \in Case /\ request[q].key \in Key
           /\ <<request[q].of, request[q].key>> # <<c, k>>
    BY <1>5, <1>7, RequestsAre, TransactionIs DEF Working, At
  <1>16. TaskHeld'
    BY <1>11, <1>12, <1>15 DEF IInv, TaskHeld
  <1>17. \A d \in Case : CaseFollows(d)'
    BY <1>6, <1>12 DEF IInv, CaseFollows
  <1>18. \A d \in Case, l \in Key : TaskTurns(d, l)'
    <2>1. TaskTurns(c, k)'
      BY <1>4, <1>5, <1>10, <1>11, <1>12 DEF TaskTurns
    <2>2. ASSUME NEW d \in Case, NEW l \in Key, <<d, l>> # <<c, k>> PROVE TaskTurns(d, l)'
      BY <1>11, <1>12, <2>2 DEF IInv, TaskTurns
    <2> QED
      BY <2>1, <2>2
  <1> QED
    BY <1>13, <1>14, <1>16, <1>17, <1>18 DEF IInv

-----------------------------------------------------------------------------
LEMMA InitKeeps == Init => IInv
  <1> SUFFICES ASSUME Init PROVE IInv
    OBVIOUS
  <1>1. RowsTyped
    BY FreeIs DEF Init, RowsTyped, NoInstance
  <1>2. \A r \in Request : request[r].at = "IDLE"
    BY FreeIs DEF Init
  <1>3. \A c \in Case : ~ Exists(c)
    BY DEF Init, Exists, NoInstance
  <1>4. \A c \in Case, k \in Key : history[c][k] = <<>> /\ Len(<<>>) = 0
    BY DEF Init
  <1> QED
    BY <1>1, <1>2, <1>3, <1>4 DEF IInv, TemplateHeld, TaskHeld, CaseFollows, TaskTurns, Turns,
         Configuring, Working, At

LEMMA StepKeeps == IInv /\ [Next]_vars => IInv'
  <1> SUFFICES ASSUME IInv, [Next]_vars PROVE IInv'
    OBVIOUS
  <1>1. CASE Growth
    BY <1>1, StillKeeps DEF Growth, DayPasses, CreateAutomation, Hire, CasesStay, tasks
  <1>2. ASSUME NEW r \in Request, Arrival(r) \/ Rollback(r) PROVE IInv'
    BY <1>2, AsksKeep
  <1>3. ASSUME NEW r \in Request, Progress(r) PROVE IInv'
    BY <1>3, AsksKeep, TemplateKeeps, ActivateKeeps, CountTasksKeeps, CommitTaskKeeps DEF Progress
  <1>4. ASSUME NEW p \in Process, Scan(p) PROVE IInv'
    <2>1. CASE ReadCandidates(p) \/ ResolveCandidate(p) \/ LockCandidate(p)
      <3>1. CasesStay /\ UNCHANGED request
        BY <2>1 DEF ReadCandidates, ResolveCandidate, LockCandidate, Scans, settings, CasesStay
      <3> QED
        BY <3>1, StillKeeps
    <2> QED
      BY <1>4, <2>1, CreateInstanceKeeps DEF Scan
  <1>5. ASSUME NEW p \in Process, Remind(p) \/ Fault(p) PROVE IInv'
    <2>1. CasesStay /\ UNCHANGED request
      BY <1>5 DEF Remind, ReadDue, RemindOne, Reminds, Fault, Restart, CandidateFails, RemindersFail,
           Scans, settings, tasks, CasesStay
    <2> QED
      BY <2>1, StillKeeps
  <1>6. CASE UNCHANGED vars
    BY <1>6, StillKeeps DEF vars, CasesStay
  <1> QED
    BY <1>1, <1>2, <1>3, <1>4, <1>5, <1>6 DEF Next

LEMMA AlwaysSound == Spec => []IInv
  BY InitKeeps, StepKeeps, PTL DEF Spec

LEMMA SoundCases == IInv => CasesAreSound
  <1> SUFFICES ASSUME IInv PROVE CasesAreSound
    OBVIOUS
  <1>1. InstancesFollowTemplate
    BY DEF IInv, InstancesFollowTemplate, CaseFollows
  <1>2. ASSUME NEW c \in Case, NEW k \in Key
        PROVE  LET h == history[c][k] IN
                 /\ \A i \in 1 .. Len(h) : h[i] = IF i % 2 = 1 THEN "DONE" ELSE "OPEN"
                 /\ Exists(c) /\ h # <<>> => task[c][k] = h[Len(h)]
    <2>1. PICK h \in Seq({"OPEN", "DONE"}) : h = history[c][k]
      BY <1>2 DEF IInv, RowsTyped
    <2>2. \A i \in 1 .. Len(h) : h[i] = Side(i)
      BY <1>2, <2>1 DEF IInv, TaskTurns, Turns
    <2>3. ASSUME Exists(c), h # <<>> PROVE task[c][k] = h[Len(h)]
      <3>1. task[c][k] = Side(Len(h))
        BY <1>2, <2>1, <2>3 DEF IInv, TaskTurns
      <3>2. Len(h) \in 1 .. Len(h)
        BY <2>1, <2>3
      <3> QED
        BY <2>2, <3>1, <3>2
    <2> QED
      BY <2>1, <2>2, <2>3 DEF Side
  <1> QED
    BY <1>1, <1>2 DEF CasesAreSound, HistoryIsTheStatus

(* However many people draft, activate, complete and reopen at a time: an   *)
(* instance has the definition that was activated, and the history of every *)
(* task takes turns and ends with its status                                *)
(* (lifecycle-configuration.service.ts, lifecycle-task.service.ts).         *)
THEOREM CasesStaySound == Spec => []CasesAreSound
  BY AlwaysSound, SoundCases, PTL

(* What the requests hold and remember has its type, and so have the rows   *)
(* they write.                                                              *)
THEOREM LifecycleTyped == Spec => []RowsTyped
  <1>1. IInv => RowsTyped
    BY DEF IInv
  <1> QED
    BY <1>1, AlwaysSound, PTL
================================================================================
