---------------------------- MODULE Attachments -----------------------------
(***************************************************************************)
(* Attachments of one ticket, asset or service request: a file in          *)
(* LocalAttachmentStorage and a row that points at it.                     *)
(*                                                                         *)
(* The file system and the database commit separately, and every step of   *)
(* an upload or a deletion may be the last one the process takes.  The     *)
(* three services differ: tickets refuse duplicate content and keep the    *)
(* file of a deleted row, assets and requests limit the number of rows and *)
(* delete the file after the row, and a request's upload does not clean up *)
(* when its row cannot be inserted.  None of the checks is a constraint of *)
(* the database.  A behaviour is about one of the three.                   *)
(*                                                                         *)
(* Abstractions: permissions, names, sizes and types are validated before  *)
(* anything is stored and left out; a file is identified by the upload     *)
(* that wrote it (its name is a fresh UUID).                               *)
(***************************************************************************)
EXTENDS Naturals, FiniteSets

CONSTANTS
  Files,           \* uploads ever made
  NoFile,          \* an idle request
  Contents,        \* SHA-256 values of uploads
  Uploaders,       \* requests in progress
  MaxFiles         \* ASSET_ATTACHMENT_MAX_FILES, REQUEST_ATTACHMENT_MAX_FILES

ASSUME AttachmentConstants == NoFile \notin Files /\ MaxFiles \in Nat \ {0}

ASSUME FiniteUploads == IsFiniteSet(Files) /\ IsFiniteSet(Uploaders) /\ Uploaders # {}

VARIABLES
  owner,       \* what the attachments belong to
  disk,        \* files in the storage directory
  fileRow,     \* rows by the file they point at
  sha,         \* the content of an upload
  used,        \* file names generated so far
  upload       \* requests

attachmentVars == <<owner, disk, fileRow, sha, used, upload>>

AttachmentTypeOK ==
  /\ owner \in {"ticket", "asset", "request"}
  /\ disk \subseteq Files
  /\ fileRow \in [Files -> {"none", "active", "deleted"}]
  /\ sha \in [Files -> Contents]
  /\ used \subseteq Files
  /\ upload \in [Uploaders -> [pc   : {"idle", "counted", "written", "clean", "unwanted", "deleting",
                                       "rowDeleted"},
                               file : Files \cup {NoFile}]]

NoUpload == [pc |-> "idle", file |-> NoFile]

AttachmentInit ==
  /\ owner \in {"ticket", "asset", "request"}
  /\ disk = {}
  /\ fileRow = [f \in Files |-> "none"]
  /\ sha \in [Files -> Contents]
  /\ used = {}
  /\ upload = [u \in Uploaders |-> NoUpload]

Active == {f \in Files : fileRow[f] = "active"}

Step(u, from, to) ==
  /\ upload[u].pc = from
  /\ upload' = [upload EXCEPT ![u].pc = to]

Done(u, from) ==
  /\ upload[u].pc = from
  /\ upload' = [upload EXCEPT ![u] = NoUpload]

-----------------------------------------------------------------------------
(* Upload                                                                  *)

\* generateStoredFilename: a name nobody has had.
Receive(u, f) ==
  /\ upload[u].pc = "idle"
  /\ f \notin used
  /\ upload' = [upload EXCEPT ![u] = [pc |-> "counted", file |-> f]]
  /\ used' = used \cup {f}
  /\ UNCHANGED <<owner, disk, fileRow, sha>>

\* A ticket takes any number of files ...
ReceiveForTicket(u, f) == owner = "ticket" /\ Receive(u, f)

\* ... assets and requests count their rows before anything is stored.
ReceiveForAsset(u, f) ==
  owner = "asset" /\ Cardinality(Active) < MaxFiles /\ Receive(u, f)

ReceiveForRequest(u, f) ==
  owner = "request" /\ Cardinality(Active) < MaxFiles /\ Receive(u, f)

WriteFile(u) ==
  /\ Step(u, "counted", "written")
  /\ disk' = disk \cup {upload[u].file}
  /\ UNCHANGED <<owner, fileRow, sha, used>>

\* A failed write ends the request; what was written of the file stays.
WriteFileFails(u) ==
  /\ Done(u, "counted")
  /\ disk' \in {disk, disk \cup {upload[u].file}}
  /\ UNCHANGED <<owner, fileRow, sha, used>>

\* The scanner's verdict and, for a ticket, the look for a row with the content.
ScanForTicket(u) ==
  LET duplicate == \E g \in Active : sha[g] = sha[upload[u].file] IN
  /\ owner = "ticket"
  /\ \E infected \in BOOLEAN :
       Step(u, "written", IF infected \/ duplicate THEN "unwanted" ELSE "clean")
  /\ UNCHANGED <<owner, disk, fileRow, sha, used>>

ScanForOthers(u) ==
  /\ owner # "ticket"
  /\ \E verdict \in {"unwanted", "clean"} : Step(u, "written", verdict)
  /\ UNCHANGED <<owner, disk, fileRow, sha, used>>

\* deleteFile of an upload that is refused, or whose row could not be inserted.
DropFile(u) ==
  /\ Done(u, "unwanted")
  /\ disk' = disk \ {upload[u].file}
  /\ UNCHANGED <<owner, fileRow, sha, used>>

InsertRow(u) ==
  /\ Done(u, "clean")
  /\ fileRow' = [fileRow EXCEPT ![upload[u].file] = "active"]
  /\ UNCHANGED <<owner, disk, sha, used>>

\* The transaction of a ticket's or an asset's row fails: the file is deleted.
InsertFails(u) ==
  /\ Step(u, "clean", "unwanted")
  /\ UNCHANGED <<owner, disk, fileRow, sha, used>>

InsertTicketRow(u) == owner = "ticket" /\ (InsertRow(u) \/ InsertFails(u))

InsertAssetRow(u) == owner = "asset" /\ (InsertRow(u) \/ InsertFails(u))

\* A request's file stays without a row.
InsertRequestRow(u) ==
  /\ owner = "request"
  /\ \/ InsertRow(u)
     \/ Done(u, "clean") /\ UNCHANGED <<owner, disk, fileRow, sha, used>>

-----------------------------------------------------------------------------
(* Deletion                                                                *)

\* findById: the row is there.
BeginDelete(u, f) ==
  /\ upload[u].pc = "idle"
  /\ f \in Active
  /\ upload' = [upload EXCEPT ![u] = [pc |-> "deleting", file |-> f]]
  /\ UNCHANGED <<owner, disk, fileRow, sha, used>>

DropRow(u, left) ==
  LET f == upload[u].file IN
  /\ fileRow' = [fileRow EXCEPT ![f] = IF @ = "active" THEN left ELSE @]
  /\ UNCHANGED <<owner, disk, sha, used>>

\* A ticket's row gets deleted_at, if it has none, and that is all.
DeleteTicketRow(u) == owner = "ticket" /\ Done(u, "deleting") /\ DropRow(u, "deleted")

\* Mutant: the file goes before the row.
MutantDeleteAssetRow(u) ==
  /\ owner = "asset"
  /\ Step(u, "deleting", "rowDeleted")
  /\ disk' = disk \ {upload[u].file}
  /\ UNCHANGED <<owner, fileRow, sha, used>>

\* An asset's row is deleted, which fails if it is gone.
DeleteAssetRow(u) ==
  /\ owner = "asset"
  /\ upload[u].pc = "deleting"
  /\ IF upload[u].file \in Active THEN Step(u, "deleting", "rowDeleted") ELSE Done(u, "deleting")
  /\ DropRow(u, "none")

\* A request's row is deleted if it is there (deleteMany).
DeleteRequestRow(u) ==
  owner = "request" /\ Step(u, "deleting", "rowDeleted") /\ DropRow(u, "none")

\* deleteFile: a file that is not there is no error.
DeleteFile(u) ==
  /\ Done(u, "rowDeleted")
  /\ disk' = disk \ {upload[u].file}
  /\ UNCHANGED <<owner, fileRow, sha, used>>

\* The process dies, or the file system fails, between two steps.
AbandonUpload(u) ==
  /\ upload[u].pc # "idle"
  /\ upload' = [upload EXCEPT ![u] = NoUpload]
  /\ UNCHANGED <<owner, disk, fileRow, sha, used>>

AttachmentNext ==
  \E u \in Uploaders :
    \/ \E f \in Files :
         \/ ReceiveForTicket(u, f)
         \/ ReceiveForAsset(u, f)
         \/ ReceiveForRequest(u, f)
         \/ BeginDelete(u, f)
    \/ WriteFile(u)
    \/ WriteFileFails(u)
    \/ ScanForTicket(u)
    \/ ScanForOthers(u)
    \/ DropFile(u)
    \/ InsertTicketRow(u)
    \/ InsertAssetRow(u)
    \/ InsertRequestRow(u)
    \/ DeleteTicketRow(u)
    \/ DeleteAssetRow(u)
    \/ DeleteRequestRow(u)
    \/ DeleteFile(u)
    \/ AbandonUpload(u)

AttachmentSpec == AttachmentInit /\ [][AttachmentNext]_attachmentVars

-----------------------------------------------------------------------------
\* Whatever crashes or fails, the file behind an attachment people can see is
\* there.  (The converse does not hold: files without a row are left behind.)
RowsHaveFiles == Active \subseteq disk

\* Checks and inserts are apart, so requests that overlap can pass a limit
\* together, but no further than their number: an asset or a request has fewer
\* than MaxFiles + |Uploaders| attachments, a ticket at most |Uploaders| with
\* the same content.
LimitsHoldUpToOverlap ==
  /\ owner # "ticket" => Cardinality(Active) < MaxFiles + Cardinality(Uploaders)
  /\ owner = "ticket" =>
       \A x \in Contents : Cardinality({f \in Active : sha[f] = x}) <= Cardinality(Uploaders)

\* Attachments people can see have their files, and are not too many.
AttachmentsSound == RowsHaveFiles /\ LimitsHoldUpToOverlap
=============================================================================
