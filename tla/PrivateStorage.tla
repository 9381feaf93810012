--------------------------- MODULE PrivateStorage ---------------------------
(***************************************************************************)
(* Snapshots of the candidate of one attempt (uploadSnapshot in            *)
(* response.service.ts, storage.service.ts, archive.service.ts): an object *)
(* in the storage, its row in private_files, its lifecycle record and its  *)
(* entry in attempt_logs are four writes without a transaction, and the    *)
(* number of the entry is read before it is written.                       *)
(***************************************************************************)
EXTENDS Integers, FiniteSets, Sequences, SequencesExt

CONSTANTS
    File,           \* uploads, each with the id its row would get
    Person,         \* who asks for files: the candidate, others, staff
    Candidate,      \* owner of the attempt
    Staff,          \* people with one of the three permissions
    System,         \* actor of what no person does
    Attempt,        \* id of the attempt
    Later,          \* of ARCHIVED, DELETED and PURGED, those told apart
    FromBrowser,    \* numbers of proctoring entries
    MaxLogs,        \* bound of the model on the entries of attempt_logs
    None

VARIABLES
    objects,        \* objects in the storage
    files,          \* rows of private_files
    lifecycle,      \* state of the files in data_lifecycle_records
    logs,           \* attempt_logs by timestamp: number and file of each entry
    audit,          \* audit_events: actor and resource
    upload          \* what each upload does next

ASSUME StorageAssumption == None \notin Later \cup {"ACTIVE"} /\ FromBrowser \subseteq Int

storageVars == <<objects, files, lifecycle, logs, audit, upload>>

-----------------------------------------------------------------------------
New == [pc |-> "new"]

StorageInit ==
    /\ objects = {} /\ files = {}
    /\ lifecycle = [f \in File |-> None]
    /\ logs = <<>>
    /\ audit = {}
    /\ upload = [f \in File |-> New]

\* AuditService.record swallows its errors.  Events that no query of the
\* deletion and export services finds are left out.
Record(actor, resource) ==
    audit' \in {audit, audit \cup ({<<actor, resource>>} \cap
                                 ({Candidate} \X (File \cup {Attempt, Candidate}) \cup Person \X {Attempt}))}

Steps(f, from, to) ==
    /\ upload[f].pc = from
    /\ upload' = [upload EXCEPT ![f].pc = to]

\* storePrivateFile, once the image is valid: the key is random.
PutObject(f) ==
    /\ Steps(f, "new", "row")
    /\ objects' = objects \cup {f}
    /\ UNCHANGED <<files, lifecycle, logs, audit>>

\* Mutant: the row comes before the object.
CreateRowFirst(f) ==
    /\ upload[f].pc \in {"new", "row"}
    /\ upload' = [upload EXCEPT ![f].pc = IF @ = "new" THEN "new" ELSE "register"]
    /\ files' = files \cup {f}
    /\ UNCHANGED <<objects, lifecycle, logs, audit>>

CreateRow(f) ==
    /\ Steps(f, "row", "register")
    /\ files' = files \cup {f}
    /\ UNCHANGED <<objects, lifecycle, logs, audit>>

\* registerActiveResource: an upsert, and an audit event.
RegisterActiveResource(f) ==
    /\ Steps(f, "register", "number")
    /\ lifecycle' = [lifecycle EXCEPT ![f] = "ACTIVE"]
    /\ Record(System, f)
    /\ UNCHANGED <<objects, files, logs>>

\* The number of the last entry, whatever kind of entry it is.
NextSequence == IF logs = <<>> THEN 1 ELSE Last(logs).sequence + 1

ReadSequence(f) ==
    /\ upload[f].pc = "number"
    /\ upload' = [upload EXCEPT ![f] = [pc |-> "log", sequence |-> NextSequence]]
    /\ UNCHANGED <<objects, files, lifecycle, logs, audit>>

\* The time of the entry is the database's; entries of the browser may be newer.
CreateLog(f) ==
    /\ upload[f].pc = "log"
    /\ Len(logs) < MaxLogs
    /\ \E i \in 1..Len(logs) + 1 :
        /\ \A k \in i..Len(logs) : logs[k].file = None
        /\ logs' = InsertAt(logs, i, [sequence |-> upload[f].sequence, file |-> f])
    /\ upload' = [upload EXCEPT ![f] = [pc |-> "done"]]
    /\ UNCHANGED <<objects, files, lifecycle, audit>>

\* A call fails, or the process dies; what was written stays.
FailUpload(f) ==
    /\ upload[f].pc \notin {"done", "failed"}
    /\ upload' = [upload EXCEPT ![f] = [pc |-> "failed"]]
    /\ UNCHANGED <<objects, files, lifecycle, logs, audit>>

\* Entries of the proctoring job, with the numbers and the times the browser
\* gave: they may be older or newer than what is there.
ProctoringLog(sequence) ==
    /\ Len(logs) < MaxLogs
    /\ \E i \in 1..Len(logs) + 1 :
        logs' = InsertAt(logs, i, [sequence |-> sequence, file |-> None])
    /\ UNCHANGED <<objects, files, lifecycle, audit, upload>>

-----------------------------------------------------------------------------
\* assertCanAccessFile: a candidate must own the file and its attempt.
MayRead(person) == person = Candidate \/ person \in Staff

\* getAuthorizedFile: the access is recorded before the object is fetched.
ReadFile(person, f) ==
    /\ f \in files
    /\ MayRead(person)
    /\ Record(person, f)
    /\ UNCHANGED <<objects, files, lifecycle, logs, upload>>

\* markArchived, markDeleted and markPurged, in any order: the state that
\* was there is not looked at, and neither the object nor its row is touched.
Transition(f, state) ==
    /\ lifecycle[f] # None
    /\ lifecycle' = [lifecycle EXCEPT ![f] = state]
    /\ Record(System, f)
    /\ UNCHANGED <<objects, files, logs, upload>>

StorageStep ==
    \/ \E f \in File :
        \/ PutObject(f) \/ CreateRow(f) \/ RegisterActiveResource(f)
        \/ ReadSequence(f) \/ CreateLog(f) \/ FailUpload(f)
        \/ \E p \in Person : ReadFile(p, f)
        \/ \E state \in Later : Transition(f, state)
    \/ \E n \in FromBrowser : ProctoringLog(n)

-----------------------------------------------------------------------------
(***************************************************************************)
(* Whatever fails between the four writes: an entry of the attempt names a *)
(* file that has a row and is governed by the retention of its kind, and a *)
(* file that has a row can be fetched.                                     *)
(***************************************************************************)
EvidenceExists ==
    /\ \A i \in DOMAIN logs : logs[i].file # None =>
        logs[i].file \in files /\ lifecycle[logs[i].file] # None
    /\ \A f \in File : lifecycle[f] # None => f \in files
    /\ files \subseteq objects
=============================================================================
