------------------------------- MODULE Files -------------------------------
(***************************************************************************)
(* Workspace Files: rows in PostgreSQL (File, FileRevision, FileUpload) and *)
(* objects in a provider that no transaction covers.  A File is a chain of  *)
(* immutable revisions; each revision names an object.  Uploads stage their *)
(* bytes and a confirmation promotes them; the server reserves, copies,     *)
(* edits and restores; deletion, retention and purge remove; a background   *)
(* job extracts Markdown and reports it in the File's status.               *)
(*                                                                         *)
(* An identifier stands for the ids minted by one request: the upload row,  *)
(* the revision and, for a new File, the File itself.  Every transaction    *)
(* that talks to the provider is several steps, so that others, and its own *)
(* failure, come between them.  Videos, whose probe replaces extraction, and *)
(* platform Files are left out.                                             *)
(***************************************************************************)
EXTENDS Naturals, FiniteSets

CONSTANTS
    Id,             \* identifiers, numbered in the order they are minted
    Content,        \* what bytes can be
    Plans,          \* the kinds of requests a behaviour makes, in order
    MaxFaults,      \* rollbacks, crashes, timeouts and provider failures
    MaxAttempts     \* attempts of an extraction job

None == 0

VARIABLES
    upload,     \* the request behind an id, with its FileUpload row
    rev,        \* FileRevision rows
    file,       \* File rows
    stage,      \* temporary objects: a grant's target, a copy's stage
    final,      \* durable objects, at the key of the revision
    markdown,   \* ids whose Markdown object exists
    tx,         \* the transaction the request runs, if any
    purging,    \* Files whose purge has deleted objects and not committed
    job,        \* extraction jobs, by revision
    faults,     \* faults so far
    sent,       \* history: the bytes a pending grant received first
    purged,     \* history: Files with rows whose objects a purge began to delete
    overtaken   \* history: Files replaced during an extraction of theirs

vars == <<upload, rev, file, stage, final, markdown, tx, purging, job,
          faults, sent, purged, overtaken>>
objects == <<stage, final, markdown>>
history == <<sent, purged, overtaken>>

NoFile == [state |-> "absent", current |-> None, count |-> 0, status |-> "none"]
NoRevision == [number |-> 0, key |-> None, hash |-> None, md |-> None,
               follows |-> None, source |-> None]
NoJob == [state |-> "none", mine |-> FALSE, tries |-> 0]
Idle == [pc |-> "idle", new |-> FALSE, current |-> None, count |-> 0,
         hash |-> None]

\* Browser uploads of text and of documents, a tool's snapshot, a copy of a
\* platform document, an agent's write, an edit, a restore, and no request.
Kinds == {"text", "document", "snapshot", "copy", "write", "edit", "restore", "unused"}

ASSUME FilesAssumption ==
    /\ IsFiniteSet(Id) /\ Id \subseteq Nat \ {None}
    /\ None \notin Content
    /\ MaxFaults \in Nat /\ MaxAttempts \in Nat \ {0}

ASSUME PlansAssumption == Plans \subseteq [Id -> Kinds]

Init ==
    /\ \E plan \in Plans :
          upload = [i \in Id |-> [kind |-> plan[i], state |-> "none", file |-> None,
                                  base |-> None, expired |-> FALSE]]
    /\ rev = [i \in Id |-> NoRevision]
    /\ file = [i \in Id |-> NoFile]
    /\ stage = [i \in Id |-> None]
    /\ final = [i \in Id |-> None]
    /\ markdown = {}
    /\ tx = [i \in Id |-> Idle]
    /\ purging = {}
    /\ job = [i \in Id |-> NoJob]
    /\ faults = 0
    /\ sent = [i \in Id |-> None]
    /\ purged = {}
    /\ overtaken = {}

----------------------------------------------------------------------------
(* Rows and locks                                                           *)

Row(i) == rev[i] # NoRevision
FileOf(i) == upload[i].file
RevisionsOf(f) == {i \in Id : Row(i) /\ FileOf(i) = f}
Live(f) == file[f].state = "live"

\* The i-th request comes after those before it.
Comes(i, k) ==
    /\ upload[i].kind = k /\ upload[i].state = "none"
    /\ \A j \in Id : j < i => upload[j].state # "none"

Running(i) == tx[i].pc \notin {"idle", "over"}

\* SELECT ... FOR UPDATE of the File: held by the transactions that read an
\* existing row, from their first step to their end.
LocksFile(i) == Running(i) /\ ~tx[i].new
Unlocked(f) == f \notin purging /\ \A i \in Id : LocksFile(i) => FileOf(i) # f

\* A new File's id is inserted and not committed: a second insert waits.
Inserting(f) == \E i \in Id : tx[i].new /\ tx[i].pc = "dropped" /\ FileOf(i) = f

Fault == faults < MaxFaults /\ faults' = faults + 1

\* What a transaction read of the File it will add a revision to.
Reads(f) == [Idle EXCEPT !.current = file[f].current, !.count = file[f].count,
                         !.new = (file[f].state = "absent")]

\* The category of a File never changes; the first request decides it.
IsDocument(f) == upload[f].kind \in {"document", "copy"}

Client(i) == upload[i].kind \in {"text", "document"}

\* An edit queues no extraction, also when it is of a document.
Ingests(i) == IsDocument(FileOf(i)) /\ upload[i].kind \in {"document", "copy", "restore"}

AddRevision(i, source, t) ==
    LET f == FileOf(i)
    IN  /\ rev' = [rev EXCEPT ![i] =
                      [number |-> t.count + 1, hash |-> t.hash, md |-> None,
                       key |-> IF source = None THEN i ELSE rev[source].key,
                       follows |-> t.current, source |-> source]]
        /\ file' = [file EXCEPT ![f] =
                       [state |-> "live", current |-> i, count |-> t.count + 1,
                        status |-> IF Ingests(i) THEN "pending" ELSE "ready"]]
        /\ job' = IF Ingests(i) THEN [job EXCEPT ![i].state = "queued"] ELSE job
        /\ overtaken' =
              IF \E j \in Id : FileOf(j) = f /\ job[j].state \in {"reading", "working", "written"}
              THEN overtaken \cup {f} ELSE overtaken

----------------------------------------------------------------------------
(* Uploads by the browser                                                   *)

\* A grant for a new File, or for a replacement of a live one.
GrantUpload(i, f) ==
    /\ Comes(i, "text") \/ Comes(i, "document")
    /\ f = i \/ (Live(f) /\ (IsDocument(f) <=> IsDocument(i)))
    /\ upload' = [upload EXCEPT ![i] = [@ EXCEPT !.state = "pending", !.file = f]]
    /\ UNCHANGED <<rev, file, objects, tx, purging, job, faults, history>>

\* The signed URL creates the temporary object and never overwrites it; it can
\* be used again once the object is gone.
Upload(i, c) ==
    /\ Client(i) /\ upload[i].state = "pending"
    /\ ~upload[i].expired
    /\ stage[i] = None
    /\ stage' = [stage EXCEPT ![i] = c]
    /\ sent' = IF sent[i] = None /\ final[i] = None THEN [sent EXCEPT ![i] = c] ELSE sent
    /\ UNCHANGED <<upload, rev, file, final, markdown, tx, purging, job, faults,
                   purged, overtaken>>

Expire(i) ==
    /\ upload[i].state = "pending" /\ ~upload[i].expired
    /\ upload' = [upload EXCEPT ![i].expired = TRUE]
    /\ UNCHANGED <<rev, file, objects, tx, purging, job, faults, history>>

\* The upload row is locked, then the File row; a tombstone is a conflict.
MayConfirm(i) ==
    /\ Client(i) /\ upload[i].state = "pending"
    /\ ~upload[i].expired
    /\ tx[i].pc = "idle"
    /\ Unlocked(FileOf(i))
    /\ file[FileOf(i)].state # "deleted"

\* The bytes are hashed where they are: at the temporary key, or at the durable
\* one when an earlier confirmation promoted them and was rolled back.
BeginConfirm(i) ==
    /\ MayConfirm(i)
    /\ \/ /\ stage[i] # None
          /\ tx' = [tx EXCEPT ![i] = [Reads(FileOf(i)) EXCEPT
                        !.pc = "checked", !.hash = stage[i]]]
       \/ /\ stage[i] = None /\ final[i] # None
          /\ tx' = [tx EXCEPT ![i] = [Reads(FileOf(i)) EXCEPT
                        !.pc = "promoted", !.hash = final[i]]]
    /\ UNCHANGED <<upload, rev, file, objects, purging, job, faults, history>>

BugAnyBytes(i) == ~tx[i].new
SameBytes(i) == ~tx[i].new /\ rev[tx[i].current].hash = tx[i].hash

\* The File already has these bytes: the grant is consumed, the temporary
\* object deleted, and only then does the request commit.
Deduplicate(i) ==
    /\ tx[i].pc = "checked" /\ SameBytes(i)
    /\ tx' = [tx EXCEPT ![i].pc = "deduplicated"]
    /\ stage' = [stage EXCEPT ![i] = None]
    /\ UNCHANGED <<upload, rev, file, final, markdown, purging, job, faults, history>>

\* Create-only promotion; bytes promoted before are adopted if they are the same.
Promote(i) ==
    /\ tx[i].pc = "checked" /\ ~SameBytes(i)
    /\ final[i] \in {None, tx[i].hash}
    /\ final' = [final EXCEPT ![i] = tx[i].hash]
    /\ tx' = [tx EXCEPT ![i].pc = "promoted"]
    /\ UNCHANGED <<upload, rev, file, stage, markdown, purging, job, faults, history>>

\* Rows are flushed and the temporary object deleted; deletion is best effort.
DropStage(i) ==
    /\ tx[i].pc = "promoted" /\ Client(i)
    /\ tx[i].new => file[FileOf(i)].state = "absent" /\ ~Inserting(FileOf(i))
    /\ tx' = [tx EXCEPT ![i].pc = "dropped"]
    /\ \/ stage' = [stage EXCEPT ![i] = None] /\ UNCHANGED faults
       \/ Fault /\ stage[i] # None /\ UNCHANGED stage
    /\ UNCHANGED <<upload, rev, file, final, markdown, purging, job, history>>

\* Other bytes were promoted under this grant, or the id of the new File was
\* inserted by another replacement of a purged one.
Refused(i) ==
    \/ tx[i].pc = "checked" /\ ~SameBytes(i) /\ final[i] \notin {None, tx[i].hash}
    \/ tx[i].pc = "promoted" /\ tx[i].new /\ file[FileOf(i)].state # "absent"

Refuse(i) ==
    /\ Refused(i)
    /\ tx' = [tx EXCEPT ![i] = Idle]
    /\ UNCHANGED <<upload, rev, file, objects, purging, job, faults, history>>

CommitConfirm(i) ==
    /\ tx[i].pc \in {"dropped", "deduplicated"}
    /\ \/ tx[i].pc = "dropped" /\ AddRevision(i, None, tx[i])
       \/ tx[i].pc = "deduplicated" /\ UNCHANGED <<rev, file, job, overtaken>>
    /\ upload' = [upload EXCEPT ![i].state = "consumed"]
    /\ tx' = [tx EXCEPT ![i] = Idle]
    /\ UNCHANGED <<objects, purging, faults, sent, purged>>

\* A confirmation repeated after its commit only clears the temporary object.
Replay(i) ==
    /\ Client(i) /\ upload[i].state = "consumed"
    /\ Live(FileOf(i)) /\ stage[i] # None
    /\ stage' = [stage EXCEPT ![i] = None]
    /\ UNCHANGED <<upload, rev, file, final, markdown, tx, purging, job, faults, history>>

----------------------------------------------------------------------------
(* Bytes the server writes: reservations and copies                         *)

\* The pending row commits before any object is written.  The id of a copy is
\* derived from the request, so a repeated one finds its row, or makes it anew
\* when the sweeper has removed it.
Reserve(i, k) ==
    /\ \/ Comes(i, k)
       \/ upload[i].kind = k /\ k = "copy" /\ upload[i].state = "swept"
    /\ upload' = [upload EXCEPT ![i] = [@ EXCEPT !.state = "pending", !.file = i,
                                                 !.expired = FALSE]]
    /\ UNCHANGED <<rev, file, objects, tx, purging, job, faults, history>>

\* The row is locked until the caller settles; one that is gone or consumed is
\* refused.  Only a copy comes back here after a failure.
BugConsumedToo(i) ==
    /\ upload[i].kind \in {"snapshot", "copy"}
    /\ upload[i].state \in {"pending", "consumed"}
MayWriteReserved(i) ==
    /\ upload[i].kind \in {"snapshot", "copy"}
    /\ upload[i].state = "pending"

LockReservation(i, c) ==
    /\ MayWriteReserved(i) /\ tx[i].pc = "idle"
    /\ sent[i] \in {None, c}        \* a copy's source revision is immutable
    /\ tx' = [tx EXCEPT ![i] = [Idle EXCEPT !.pc = "locked", !.new = TRUE,
                                            !.hash = c]]
    /\ sent' = [sent EXCEPT ![i] = c]
    /\ UNCHANGED <<upload, rev, file, objects, purging, job, faults, purged, overtaken>>

\* Create-only.  A copy adopts the bytes an earlier attempt left.
WriteReserved(i) ==
    /\ tx[i].pc = "locked" /\ upload[i].kind \in {"snapshot", "copy"}
    /\ final[i] \in {None, tx[i].hash}
    /\ final' = [final EXCEPT ![i] = tx[i].hash]
    /\ tx' = [tx EXCEPT ![i].pc = "stored"]
    /\ UNCHANGED <<upload, rev, file, stage, markdown, purging, job, faults, history>>

CommitReserved(i) ==
    /\ tx[i].pc = "stored" /\ upload[i].kind \in {"snapshot", "copy"}
    /\ AddRevision(i, None, tx[i])
    /\ upload' = [upload EXCEPT ![i].state = "consumed"]
    /\ tx' = [tx EXCEPT ![i] = Idle]
    /\ UNCHANGED <<objects, purging, faults, sent, purged>>

----------------------------------------------------------------------------
(* Edits and restores of a live File                                        *)

\* A person looks at the File and edits it, or restores one of its revisions; an
\* agent's tool writes to it.
Open(i, f) ==
    /\ \E k \in {"edit", "restore", "write"} : Comes(i, k)
    /\ Live(f)
    /\ upload[i].kind = "write" => ~IsDocument(f)
    /\ upload' = [upload EXCEPT ![i] = [@ EXCEPT !.state = "open", !.file = f,
                                                 !.base = file[f].current]]
    /\ UNCHANGED <<rev, file, objects, tx, purging, job, faults, history>>

Edits(i) == upload[i].kind \in {"edit", "write"}

\* The person's request names the revision it was made on; an agent's does not.
BugAnyBase(i) == Live(FileOf(i)) /\ Unlocked(FileOf(i))
Expected(i) ==
    /\ Live(FileOf(i)) /\ Unlocked(FileOf(i))
    /\ upload[i].kind # "write" => file[FileOf(i)].current = upload[i].base

BeginEdit(i, c) ==
    /\ upload[i].state = "open" /\ Edits(i) /\ Expected(i)
    /\ upload' = [upload EXCEPT ![i].state = "made"]
    /\ tx' = [tx EXCEPT ![i] = [Reads(FileOf(i)) EXCEPT !.pc = "locked", !.hash = c]]
    /\ UNCHANGED <<rev, file, objects, purging, job, faults, history>>

PutEdit(i) ==
    /\ tx[i].pc = "locked" /\ Edits(i)
    /\ final' = [final EXCEPT ![i] = tx[i].hash]
    /\ tx' = [tx EXCEPT ![i].pc = "stored"]
    /\ UNCHANGED <<upload, rev, file, stage, markdown, purging, job, faults, history>>

CommitEdit(i) ==
    /\ tx[i].pc = "stored" /\ Edits(i)
    /\ AddRevision(i, None, tx[i])
    /\ tx' = [tx EXCEPT ![i] = [Idle EXCEPT !.pc = "over"]]
    /\ UNCHANGED <<upload, objects, purging, faults, sent, purged>>

\* A restored revision shares the object of the one it restores.
Restore(i, source) ==
    /\ upload[i].state = "open" /\ upload[i].kind = "restore" /\ Expected(i)
    /\ source \in RevisionsOf(FileOf(i)) \ {file[FileOf(i)].current}
    /\ upload' = [upload EXCEPT ![i].state = "made"]
    /\ AddRevision(i, source, [Reads(FileOf(i)) EXCEPT !.hash = rev[source].hash])
    /\ UNCHANGED <<objects, tx, purging, faults, sent, purged>>

----------------------------------------------------------------------------
(* Failure of a transaction at any of its steps                             *)

\* Rolled back: the rows are as before, the objects are where they are.  Only
\* the interrupted put of an edit removes what it wrote.
Abort(i) ==
    /\ Running(i) /\ Fault
    /\ tx' = [tx EXCEPT ![i] = IF Client(i) \/ upload[i].kind = "copy" THEN Idle
                               ELSE [Idle EXCEPT !.pc = "over"]]
    /\ UNCHANGED <<upload, rev, file, objects, purging, job, history>>

----------------------------------------------------------------------------
(* Deletion, retention and the sweeper                                      *)

Delete(f) ==
    /\ Live(f) /\ Unlocked(f)
    /\ file' = [file EXCEPT ![f].state = "deleted"]
    /\ UNCHANGED <<upload, rev, objects, tx, purging, job, faults, history>>

Keys(f) == {rev[i].key : i \in RevisionsOf(f)}
MarkdownKeys(f) == {rev[i].md : i \in RevisionsOf(f)} \ {None}

\* purge_file by an administrator, of a live or deleted File, and the retention
\* sweeper, of a deleted one: under the row lock every distinct object is
\* deleted, best effort, and the rows go with the commit.
BeginPurge(f) ==
    /\ file[f].state # "absent" /\ Unlocked(f)
    /\ \/ /\ final' = [i \in Id |-> IF i \in Keys(f) THEN None ELSE final[i]]
          /\ UNCHANGED faults
       \/ Fault /\ UNCHANGED final
    /\ markdown' = markdown \ MarkdownKeys(f)
    /\ purging' = purging \cup {f}
    /\ purged' = purged \cup {f}
    /\ UNCHANGED <<upload, rev, file, stage, tx, job, sent, overtaken>>

CommitPurge(f) ==
    /\ f \in purging
    /\ purging' = purging \ {f}
    /\ file' = [file EXCEPT ![f] = NoFile]
    /\ rev' = [i \in Id |-> IF FileOf(i) = f THEN NoRevision ELSE rev[i]]
    /\ sent' = [i \in Id |-> IF FileOf(i) = f THEN None ELSE sent[i]]
    /\ purged' = purged \ {f}
    /\ UNCHANGED <<upload, objects, tx, job, faults, overtaken>>

AbortPurge(f) ==
    /\ f \in purging /\ Fault
    /\ purging' = purging \ {f}
    /\ UNCHANGED <<upload, rev, file, objects, tx, job, history>>

\* Skips a locked row.
BugIgnoresLock(i) == upload[i].state = "pending" /\ upload[i].expired
BugGrantsOnly(i) ==
    upload[i].state = "pending" /\ upload[i].expired /\ ~Running(i)
    /\ Client(i)
MaySweep(i) ==
    upload[i].state = "pending" /\ upload[i].expired /\ ~Running(i)

Swept(i) ==
    /\ stage' = [stage EXCEPT ![i] = None]
    /\ final' = IF Client(i) THEN final ELSE [final EXCEPT ![i] = None]

\* The row keeps its claim on the objects until they are deleted: the provider's
\* failure leaves both (no step), a rollback after the deletion leaves the row.
SweepUpload(i) ==
    /\ MaySweep(i) /\ Swept(i)
    /\ \/ upload' = [upload EXCEPT ![i].state = "swept"] /\ UNCHANGED faults
       \/ Fault /\ UNCHANGED upload
    /\ UNCHANGED <<rev, file, markdown, tx, purging, job, history>>

----------------------------------------------------------------------------
(* Extraction                                                               *)

Ends(i, how) == job' = [job EXCEPT ![i] = [@ EXCEPT !.state = how, !.mine = FALSE]]

\* The job of an attempt that failed runs again until its attempts are spent.
Retries(i) == Ends(i, IF job[i].tries < MaxAttempts THEN "queued" ELSE "dead")

\* Neither the revision nor the File is locked: whether the revision is current
\* is what this step reads.
ReadForExtract(i) ==
    /\ job[i].state = "queued"
    /\ \/ /\ Row(i) /\ Live(FileOf(i))
          /\ job' = [job EXCEPT ![i] = [state |-> "reading", tries |-> @.tries + 1,
                                        mine |-> file[FileOf(i)].current = i]]
       \/ /\ ~Row(i) \/ ~Live(FileOf(i))
          /\ Ends(i, "done")
    /\ UNCHANGED <<upload, rev, file, objects, tx, purging, faults, history>>

\* An UPDATE of a row a transaction holds waits for it, then applies to
\* whatever that left; a row that is gone fails the attempt.
BugAnyRevision(i, s) ==
    file' = IF file[FileOf(i)].state # "absent"
            THEN [file EXCEPT ![FileOf(i)].status = s] ELSE file
BugNeverReady(i, s) ==
    file' = IF job[i].mine /\ file[FileOf(i)].state # "absent" /\ s # "ready"
            THEN [file EXCEPT ![FileOf(i)].status = s] ELSE file
SetStatus(i, s) ==
    file' = IF job[i].mine /\ file[FileOf(i)].state # "absent"
            THEN [file EXCEPT ![FileOf(i)].status = s] ELSE file

\* A restored revision takes over the Markdown of its source, if that has any,
\* and is marked ready unless an earlier attempt has put the File in error.
CopiesMarkdown(i) == rev[i].source # None /\ rev[rev[i].source].md # None

CopyMarkdown(i) ==
    /\ rev' = [rev EXCEPT ![i].md = rev[rev[i].source].md]
    /\ IF file[FileOf(i)].status \in {"pending", "processing"}
       THEN SetStatus(i, "ready") ELSE UNCHANGED file
    /\ Ends(i, "done")

StatusAllowed(i) == job[i].mine => Unlocked(FileOf(i))

BeginConversion(i) ==
    /\ job[i].state = "reading" /\ StatusAllowed(i)
    /\ \/ /\ Row(i) /\ ~CopiesMarkdown(i)
          /\ SetStatus(i, "processing")
          /\ job' = [job EXCEPT ![i].state = "working"]
          /\ UNCHANGED rev
       \/ Row(i) /\ CopiesMarkdown(i) /\ CopyMarkdown(i)
       \/ ~Row(i) /\ Retries(i) /\ UNCHANGED <<rev, file>>
    /\ UNCHANGED <<upload, objects, tx, purging, faults, history>>

\* Reads the object, converts, and writes the Markdown object.
WriteMarkdown(i) ==
    /\ job[i].state = "working"
    /\ Row(i) => final[rev[i].key] # None
    /\ markdown' = markdown \cup {i}
    /\ job' = [job EXCEPT ![i].state = "written"]
    /\ UNCHANGED <<upload, rev, file, stage, final, tx, purging, faults, history>>

FinishExtract(i) ==
    /\ job[i].state = "written" /\ StatusAllowed(i)
    /\ \/ /\ Row(i)
          /\ rev' = [rev EXCEPT ![i].md = i]
          /\ SetStatus(i, "ready")
          /\ Ends(i, "done")
       \/ ~Row(i) /\ Retries(i) /\ UNCHANGED <<rev, file>>
    /\ UNCHANGED <<upload, objects, tx, purging, faults, history>>

\* The conversion raises, for what is in the document or because its object
\* is gone.
FailExtract(i) ==
    /\ job[i].state = "working" /\ StatusAllowed(i)
    /\ Fault \/ (Row(i) /\ final[rev[i].key] = None /\ UNCHANGED faults)
    /\ SetStatus(i, "error")
    /\ Retries(i)
    /\ UNCHANGED <<upload, rev, objects, tx, purging, history>>

\* A timeout, a lost lease or a crash is no Exception of the handler: the
\* attempt ends and the status stays.
CutExtract(i) ==
    /\ job[i].state \in {"reading", "working", "written"} /\ Fault
    /\ Retries(i)
    /\ UNCHANGED <<upload, rev, file, objects, tx, purging, history>>

----------------------------------------------------------------------------

Request(i) ==
    \/ \E f \in Id : GrantUpload(i, f) \/ Open(i, f)
    \/ Delete(i) \/ BeginPurge(i)
    \/ \E c \in Content : Upload(i, c) \/ LockReservation(i, c)
    \/ Expire(i) \/ BeginConfirm(i) \/ Replay(i)
    \/ Reserve(i, "snapshot") \/ Reserve(i, "copy")
    \/ \E c \in Content : BeginEdit(i, c)
    \/ \E source \in Id : Restore(i, source)

Progress(i) ==
    \/ Deduplicate(i) \/ Promote(i) \/ DropStage(i) \/ Refuse(i) \/ CommitConfirm(i)
    \/ WriteReserved(i) \/ CommitReserved(i) \/ PutEdit(i) \/ CommitEdit(i)
    \/ CommitPurge(i)

Extract(i) ==
    \/ ReadForExtract(i) \/ BeginConversion(i) \/ WriteMarkdown(i)
    \/ FinishExtract(i) \/ FailExtract(i)

Next ==
    \E i \in Id : \/ Request(i) \/ Progress(i) \/ Extract(i) \/ SweepUpload(i)
                  \/ Abort(i) \/ AbortPurge(i) \/ CutExtract(i)

Spec == Init /\ [][Next]_vars

\* A transaction ends, a job runs and the sweeper comes to every row.
\* Nobody has to ask for anything, and failures are finitely many.
FairSpec ==
    /\ Spec
    /\ \A i \in Id : WF_vars(Progress(i)) /\ WF_vars(SweepUpload(i))
    /\ WF_vars(\E i \in Id : Extract(i))

----------------------------------------------------------------------------
(* Properties                                                               *)

Hash == Content \cup {None}

UploadRecord ==
    [kind : Kinds, file : Id \cup {None}, base : Id \cup {None},
     state : {"none", "pending", "consumed", "swept", "open", "made"}, expired : BOOLEAN]
Count == 0 .. Cardinality(Id)
Revision == [number : Count, key : Id \cup {None}, hash : Hash, md : Id \cup {None},
             follows : Id \cup {None}, source : Id \cup {None}]
FileRecord == [state : {"absent", "live", "deleted"}, current : Id \cup {None}, count : Count,
               status : {"none", "pending", "processing", "ready", "error"}]
Transaction == [pc : {"idle", "over", "checked", "promoted", "dropped", "deduplicated",
                      "locked", "stored"},
                new : BOOLEAN, current : Id \cup {None}, count : Count, hash : Hash]
Job == [state : {"none", "queued", "reading", "working", "written", "done", "dead"},
        mine : BOOLEAN, tries : 0 .. MaxAttempts]

\* Shape of the state.
TypeOK ==
    /\ upload \in [Id -> UploadRecord] /\ tx \in [Id -> Transaction]
    /\ rev \in [Id -> Revision] /\ file \in [Id -> FileRecord] /\ job \in [Id -> Job]
    /\ stage \in [Id -> Hash] /\ final \in [Id -> Hash] /\ markdown \subseteq Id
    /\ purging \subseteq Id /\ purged \subseteq Id /\ overtaken \subseteq Id
    /\ faults \in 0 .. MaxFaults
    /\ sent \in [Id -> Hash]

\* Every committed revision can be read: its object holds the bytes it was
\* hashed from, and its Markdown exists, whoever rolled back, repeated, swept
\* or restored meanwhile.  Only a purge, which deletes before it commits, may
\* leave rows without objects.
BytesBehindRevisions ==
    \A i \in Id : Row(i) /\ FileOf(i) \notin purged =>
        /\ final[rev[i].key] = rev[i].hash
        /\ rev[i].md # None => rev[i].md \in markdown

\* A failed confirmation can be repeated: until the grant expires the bytes the
\* browser sent first are at the temporary key, at the durable one, or already a
\* revision of the File.
UploadRecoverable ==
    \A i \in Id :
        (/\ Client(i) /\ upload[i].state = "pending"
         /\ ~upload[i].expired
         /\ sent[i] # None /\ FileOf(i) \notin purged)
        => \/ sent[i] \in {stage[i], final[i]}
           \/ \E j \in RevisionsOf(FileOf(i)) : rev[j].hash = sent[i]

\* An object the server writes always has a row that will clean it up: an
\* unconsumed reservation, or the revision that took it over.  Only a purge
\* whose deletion failed lets go of one.
Owned(i) == upload[i].state = "pending" \/ Row(i)
ReservedOwned ==
    [][\A i \in Id : upload[i].kind \in {"snapshot", "copy"} /\ final'[i] # None
            => Owned(i)' \/ (final[i] # None /\ (~Owned(i) \/ FileOf(i) \in purging))]_vars

\* The revisions of a File are one chain without a gap or a fork, its head is
\* the current one, and what a person asked for follows the revision they saw.
Chained(f) ==
    /\ {rev[i].number : i \in RevisionsOf(f)} = 1 .. file[f].count
    /\ Cardinality(RevisionsOf(f)) = file[f].count
    /\ rev[file[f].current].number = file[f].count
    /\ \A i \in RevisionsOf(f) :
          /\ IF rev[i].number = 1 THEN rev[i].follows = None
             ELSE /\ rev[i].follows \in RevisionsOf(f)
                  /\ rev[rev[i].follows].number = rev[i].number - 1
          /\ upload[i].kind \in {"edit", "restore"} => rev[i].follows = upload[i].base

OneChain == \A f \in Id : file[f].state # "absent" => Chained(f)

\* The rows are of their types, and the revisions of every File form a chain.
ChainsKept == TypeOK /\ OneChain

\* A repeated copy never brings back a File that was purged: only the
\* confirmation of a replacement granted before the purge recreates it.
CopyStaysGone ==
    [][\A f \in Id :
            upload[f].state = "consumed" /\ file[f].state = "absent" /\ file'[f].state = "live"
            => Client(file'[f].current)]_vars

\* A reservation of the server cleans up what it wrote until it is used, and
\* is used once (copy_files, write_workspace_file, sweep_workspace_uploads).
ReservationsKept == ReservedOwned /\ CopyStaysGone

\* The status shown is the current revision's own: waiting has a job, ready
\* means extracted, an error is that of its own attempts, which outlasts only
\* the Markdown a restored revision takes over on a retry.  Files replaced while an extraction
\* was running are excepted: that one writes what it knew before it started.
Told(f) ==
    LET c == file[f].current
    IN  CASE file[f].status = "pending" -> job[c].state \in {"queued", "reading", "dead"}
          [] file[f].status = "processing" ->
                 job[c].state \in {"queued", "reading", "working", "written", "dead"}
          [] file[f].status = "error" ->
                 job[c].tries > 0 /\ (job[c].state = "done" => rev[c].source # None)
          [] file[f].status = "ready" -> ~Ingests(c) \/ rev[c].md # None

StatusTold == \A f \in Id : Live(f) /\ f \notin overtaken => Told(f)

\* Every grant and every reservation that expires is settled: consumed by a
\* request that was just in time, or swept with what it staged.
GrantsSettle ==
    \A i \in Id : upload[i].state = "pending" /\ upload[i].expired
                    ~> upload[i].state \in {"consumed", "swept"}

\* A File does not stay in processing, unless all attempts of its job were
\* used up by timeouts or crashes, or it was replaced during one.
ProcessingEnds ==
    \A f \in Id :
        Live(f) /\ file[f].status \in {"pending", "processing"}
            ~> \/ ~Live(f) \/ file[f].status \in {"ready", "error"}
               \/ job[file[f].current].state = "dead" \/ f \in overtaken

\* Uploads and their extraction come to an end.
FilesSettle == GrantsSettle /\ ProcessingEnds

=============================================================================
