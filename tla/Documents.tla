------------------------------ MODULE Documents ------------------------------
(***************************************************************************)
(* Private documents: a version is a row of the database and an encrypted    *)
(* file beside it.  An upload records its intent, writes the file and then   *)
(* commits the version; whatever stops on the way is left to a recovery      *)
(* that every process runs, a day later.                                     *)
(*                                                                          *)
(* Both may stop between any two steps, and an upload may pause for days     *)
(* and go on.  A version is named by its upload.                             *)
(***************************************************************************)
EXTENDS Integers, Sequences, FiniteSets, SequencesExt

CONSTANTS
  Document,
  OwnerOf,   \* the person of each document
  Upload,     \* a set of numbers: uploads are read in the order of their ids
  Recovery,   \* the processes that recover
  ScanSize,   \* how many uploads a recovery reads at a time
  MaxStops,  \* bound: crashes and failing statements
  NoDocument

ASSUME DocumentsAssumption ==
  /\ Upload \subseteq Nat \ {0} /\ IsFiniteSet(Upload)
  /\ ScanSize \in Nat \ {0} /\ MaxStops \in Nat

VARIABLES
  upload,    \* document_uploads: document, status, and whether it is cleaned up
  old,       \* the uploads that began more than a day ago
  file,      \* the object of each upload in the storage
  versions,  \* personnel_document_versions of each document, oldest first
  uploader,  \* where the request of each upload is, and the version it expects
  recovery,  \* what each recovery remembers
  stops

documentVars == <<upload, old, file, versions, uploader, recovery, stops>>

-----------------------------------------------------------------------------
IsVersion(u) == \E d \in Document : u \in ToSet(versions[d])

NoUpload == [document |-> NoDocument, status |-> "NONE", cleaned |-> FALSE]
Asleep == [at |-> "IDLE", page |-> {}, full |-> FALSE]

\* The requests that hold the lock of the row of their upload, and of the person.
HoldsRow(u) == uploader[u].at = "CHECKED"
Finalizing(x) == \E u \in Upload : HoldsRow(u) /\ OwnerOf[upload[u].document] = x

UploadRow == [document : Document \cup {NoDocument}, cleaned : BOOLEAN,
              status : {"NONE", "PENDING", "COMMITTED", "FAILED"}]
Uploader == [at : {"IDLE", "STARTED", "WRITING", "WRITTEN", "CHECKED", "ENDED"},
            expected : 0 .. Cardinality(Upload)]
Memory == [at : {"IDLE", "SCAN", "RECOVER", "DISCARD", "CLEAN"},
           page : SUBSET Upload, full : BOOLEAN]

DocumentsTypeOK ==
  /\ upload \in [Upload -> UploadRow] /\ uploader \in [Upload -> Uploader]
  /\ old \subseteq Upload
  /\ file \in [Upload -> {"ABSENT", "PARTIAL", "WHOLE"}]
  /\ versions \in [Document -> Seq(Upload)]
  /\ recovery \in [Recovery -> Memory]
  /\ stops \in 0 .. MaxStops

DocumentsInit ==
  /\ upload = [u \in Upload |-> NoUpload]
  /\ old = {}
  /\ file = [u \in Upload |-> "ABSENT"]
  /\ versions = [d \in Document |-> <<>>]
  /\ uploader = [u \in Upload |-> [at |-> "IDLE", expected |-> 0]]
  /\ recovery = [r \in Recovery |-> Asleep]
  /\ stops = 0

-----------------------------------------------------------------------------
(* Uploads.                                                                 *)

UploaderAt(u, from, to) ==
  uploader[u].at = from /\ uploader' = [uploader EXCEPT ![u].at = to]

\* Somebody uploads on top of the version they saw last.
Begin(u, d, seen) ==
  /\ uploader[u].at = "IDLE"
  /\ uploader' = [uploader EXCEPT ![u] = [at |-> "STARTED", expected |-> seen]]
  /\ upload' = [upload EXCEPT ![u] = [@ EXCEPT !.document = d, !.status = "PENDING"]]
  /\ UNCHANGED <<old, file, versions, recovery, stops>>

\* The content is no document, or the storage takes none: the intent is left.
Refuse(u) ==
  /\ UploaderAt(u, "STARTED", "ENDED")
  /\ UNCHANGED <<upload, old, file, versions, recovery, stops>>

Open(u) ==
  /\ UploaderAt(u, "STARTED", "WRITING") /\ file' = [file EXCEPT ![u] = "PARTIAL"]
  /\ UNCHANGED <<upload, old, versions, recovery, stops>>

\* Writing goes to the file that was opened, which may be unlinked meanwhile.
Write(u) ==
  /\ UploaderAt(u, "WRITING", "WRITTEN")
  /\ file' = [file EXCEPT ![u] = IF @ = "PARTIAL" THEN "WHOLE" ELSE @]
  /\ UNCHANGED <<upload, old, versions, recovery, stops>>

\* Mutant: what has become of the intent is not looked at again.
CheckIntent_Trusting(u) ==
  LET d == upload[u].document IN
  /\ UploaderAt(u, "WRITTEN", "CHECKED")
  /\ ~ Finalizing(OwnerOf[d])
  /\ Len(versions[d]) = uploader[u].expected
  /\ UNCHANGED <<upload, old, file, versions, recovery, stops>>

\* The transaction that commits a version locks the intent and the person.
CheckIntent(u) ==
  LET d == upload[u].document IN
  /\ UploaderAt(u, "WRITTEN", "CHECKED")
  /\ upload[u].status = "PENDING"
  /\ ~ Finalizing(OwnerOf[d])
  /\ Len(versions[d]) = uploader[u].expected
  /\ UNCHANGED <<upload, old, file, versions, recovery, stops>>

\* It is refused, for one of these reasons or because the person is busy.
Abandon(u) ==
  /\ uploader[u].at \in {"WRITTEN", "CHECKED"}
  /\ UploaderAt(u, uploader[u].at, "ENDED")
  /\ UNCHANGED <<upload, old, file, versions, recovery, stops>>

Commit(u) ==
  LET d == upload[u].document IN
  /\ UploaderAt(u, "CHECKED", "ENDED")
  /\ versions' = [versions EXCEPT ![d] = Append(@, u)]
  /\ upload' = [upload EXCEPT ![u].status = "COMMITTED"]
  /\ UNCHANGED <<old, file, recovery, stops>>

\* A day passes, during which an upload may be paused.
Ages(u) ==
  /\ upload[u].status = "PENDING" /\ old' = old \cup {u}
  /\ UNCHANGED <<upload, file, versions, uploader, recovery, stops>>

-----------------------------------------------------------------------------
(* Recovery: page by page, one upload after the other.                      *)

Remembers(r, m) == recovery' = [recovery EXCEPT ![r] = m]

\* Mutant: an upload that was marked as failed is not looked at again.
Abandoned_Once(u) == upload[u].status = "PENDING" /\ ~ upload[u].cleaned /\ u \in old
Abandoned(u) == upload[u].status \in {"PENDING", "FAILED"} /\ ~ upload[u].cleaned /\ u \in old

\* The ids of a page: the first ones after the upload a recovery is at.
PageAfter(last) ==
  LET after == {u \in Upload : Abandoned(u) /\ u > last}
  IN {u \in after : Cardinality({v \in after : v < u}) < ScanSize}

\* The upload of its page that a recovery is at: pages are worked off in order.
AtHead(r, u) == u \in recovery[r].page /\ \A v \in recovery[r].page : u <= v

ReadPage(r) ==
  /\ recovery[r].at \in {"IDLE", "SCAN"}
  /\ \E last \in Upload \cup {0} :
       /\ IF recovery[r].at = "IDLE" THEN last = 0 ELSE AtHead(r, last)
       /\ Remembers(r, IF PageAfter(last) = {} THEN Asleep
                       ELSE [at |-> "RECOVER", page |-> PageAfter(last),
                             full |-> Cardinality(PageAfter(last)) = ScanSize])
  /\ UNCHANGED <<upload, old, file, versions, uploader, stops>>

\* The upload at the head of the page is done with; the last one stays as cursor.
Onward(m, u) ==
  IF m.page # {u} THEN [m EXCEPT !.at = "RECOVER", !.page = m.page \ {u}]
  ELSE IF m.full THEN [m EXCEPT !.at = "SCAN"] ELSE Asleep

\* A row that is locked is skipped, and so is one that is settled by now.
Recoverable(u) ==
  ~ HoldsRow(u) /\ upload[u].status # "COMMITTED" /\ ~ upload[u].cleaned

\* Before anything is removed the upload is marked as failed, in a transaction
\* of its own; one with a version is marked as committed.
Claimed(u) == [upload EXCEPT ![u].status = IF IsVersion(u) THEN "COMMITTED" ELSE "FAILED"]

Claim(r, u) ==
  LET m == recovery[r] IN
  /\ m.at = "RECOVER"
  /\ \/ /\ Recoverable(u) /\ upload' = Claimed(u)
        /\ Remembers(r, IF IsVersion(u) THEN Onward(m, u) ELSE [m EXCEPT !.at = "DISCARD"])
     \/ ~ Recoverable(u) /\ Remembers(r, Onward(m, u)) /\ UNCHANGED upload
  /\ UNCHANGED <<old, file, versions, uploader, stops>>

\* Where there is no file yet, the upload stays for another pass.
Discard(r, u) ==
  LET m == recovery[r] IN
  /\ m.at = "DISCARD"
  /\ file' = [file EXCEPT ![u] = "ABSENT"]
  /\ Remembers(r, IF file[u] = "ABSENT" THEN Onward(m, u) ELSE [m EXCEPT !.at = "CLEAN"])
  /\ UNCHANGED <<upload, old, versions, uploader, stops>>

MarkClean(r, u) ==
  LET m == recovery[r] IN
  /\ m.at = "CLEAN"
  /\ upload' = [upload EXCEPT ![u].cleaned = TRUE]
  /\ Remembers(r, Onward(m, u))
  /\ UNCHANGED <<old, file, versions, uploader, stops>>

-----------------------------------------------------------------------------
(* Faults.                                                                  *)

UploadStops(u) ==
  /\ uploader[u].at \notin {"IDLE", "ENDED"} /\ UploaderAt(u, uploader[u].at, "ENDED")
  /\ UNCHANGED <<upload, old, file, versions, recovery>>

\* A crash, a failing statement and a storage error end the whole pass.
RecoveryStops(r) ==
  /\ recovery[r].at # "IDLE" /\ Remembers(r, Asleep)
  /\ UNCHANGED <<upload, old, file, versions, uploader>>

\* The claim is committed, but its acknowledgement is lost.
ClaimUnheard(r, u) ==
  /\ recovery[r].at = "RECOVER" /\ Recoverable(u)
  /\ upload' = Claimed(u) /\ Remembers(r, Asleep)
  /\ UNCHANGED <<old, file, versions, uploader>>

DocumentsFault ==
  /\ stops < MaxStops /\ stops' = stops + 1
  /\ \/ \E u \in Upload : UploadStops(u)
     \/ \E r \in Recovery : RecoveryStops(r)
     \/ \E r \in Recovery, u \in Upload : AtHead(r, u) /\ ClaimUnheard(r, u)

-----------------------------------------------------------------------------
Starts(u) == \E d \in Document, seen \in 0 .. Cardinality(Upload) - 1 : Begin(u, d, seen)
Goes(u) == Refuse(u) \/ Open(u) \/ Write(u)
Ends(u) == CheckIntent(u) \/ Abandon(u) \/ Commit(u)
WorksOff(r, u) == AtHead(r, u) /\ (Claim(r, u) \/ Discard(r, u) \/ MarkClean(r, u))
Recovers(r) == ReadPage(r) \/ \E u \in Upload : WorksOff(r, u)

DocumentsNext ==
  \/ \E u \in Upload : Starts(u) \/ Goes(u) \/ Ends(u) \/ Ages(u)
  \/ \E r \in Recovery : Recovers(r)
  \/ DocumentsFault

\* Days pass, a transaction ends, and a recovery polls every thirty seconds.
DocumentsFairness ==
  /\ \A u \in Upload : WF_documentVars(Ages(u)) /\ WF_documentVars(uploader[u].at = "CHECKED" /\ Ends(u))
  /\ \A r \in Recovery : WF_documentVars(Recovers(r))

DocumentsSpec == DocumentsInit /\ [][DocumentsNext]_documentVars
DocumentsFairSpec == DocumentsSpec /\ DocumentsFairness

-----------------------------------------------------------------------------
\* What a document shows can be read, and no file is lost from sight: a version
\* has its whole file, and any file belongs to a version or to an intent that a
\* recovery still looks at, although recoveries remove files and an upload may
\* open, write and commit after a pause of days.
FilesAndVersionsAgree ==
  \A u \in Upload :
    /\ IsVersion(u) <=> upload[u].status = "COMMITTED"
    /\ IsVersion(u) => file[u] = "WHOLE"
    /\ file[u] # "ABSENT" => IsVersion(u) \/ ~ upload[u].cleaned

\* A file that belongs to no version is removed in the end, after any crash of
\* its upload or of a recovery.
OrphansAreRemoved ==
  \A u \in Upload : (file[u] # "ABSENT") ~> (file[u] = "ABSENT" \/ IsVersion(u))
=============================================================================
