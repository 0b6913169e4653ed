------------------------------- MODULE Backup -------------------------------
(***************************************************************************)
(* Database backups (framework/backup): Backup into a file named after the *)
(* second it starts in, Restore from one of the listed files, and Upload,  *)
(* which streams a dump through a pipe to a disk (storage/local.go).  A    *)
(* dump is Size chunks and the trailer that closing the gzip writer adds.  *)
(* Failures of the dump command and of the disks, and a crash of the       *)
(* process, may come at any point.                                         *)
(***************************************************************************)
EXTENDS Naturals

CONSTANTS
  Backuper,  \* calls of Backup
  Size,      \* chunks of a dump
  MaxSecond  \* bound on the time

ASSUME BackupAssumption == Size \in Nat /\ MaxSecond \in Nat \ {0}

VARIABLES
  file,     \* second -> the file of that name
  job,      \* where each Backup is, and the second its file is named after
  clash,    \* reference: seconds in which a second Backup began on the same file
  restore,  \* the Restore that is running or has ended
  dump,     \* the dump goroutine of Upload
  pipe,     \* what the writer of the pipe waits to hand over, or its end
  put,      \* Put on the disk
  remote,   \* the object on the disk
  result,   \* what Upload returned
  second

backupVars == <<file, job, clash, restore, dump, pipe, put, remote, result, second>>

BackupSecond == 1..MaxSecond
Stream == [n : 0..Size, ended : BOOLEAN]
Begun == [n |-> 0, ended |-> FALSE]
Complete == [n |-> Size, ended |-> TRUE]
NoBackup == [pc |-> "idle", at |-> 1]

BackupTypeOK ==
  /\ file \in [BackupSecond -> [made : BOOLEAN, data : Stream]]
  /\ job \in [Backuper -> [pc : {"idle", "dumping", "failing", "returned", "failed", "cut"}, at : BackupSecond]]
  /\ clash \subseteq BackupSecond /\ second \in BackupSecond
  /\ restore \in [pc : {"idle", "running", "ok", "error"}, at : BackupSecond, n : 0..Size]
  /\ dump \in [pc : {"idle", "running", "closing", "done", "failed"}, n : 0..Size]
  /\ pipe \in {"empty", "chunk", "trailer", "eof", "error"}
  /\ put \in {"idle", "reading", "ok", "failed"} /\ remote \in Stream
  /\ result \in {"none", "nil", "error", "crash"}

BackupInit ==
  /\ file = [s \in BackupSecond |-> [made |-> FALSE, data |-> Begun]]
  /\ job = [b \in Backuper |-> NoBackup] /\ clash = {}
  /\ restore = [pc |-> "idle", at |-> 1, n |-> 0]
  /\ dump = [pc |-> "idle", n |-> 0] /\ pipe = "empty" /\ put = "idle"
  /\ remote = Begun /\ result = "none" /\ second = 1

---------------------------------------------------------------------------
(* Manager.Backup.                                                         *)

Local(A) == A /\ UNCHANGED <<restore, dump, pipe, put, remote, result, second>>

\* os.Create truncates a file of the same second.
BackupStart(b) ==
  /\ job[b].pc = "idle"
  /\ job' = [job EXCEPT ![b] = [pc |-> "dumping", at |-> second]]
  /\ file' = [file EXCEPT ![second] = [made |-> TRUE, data |-> Begun]]
  /\ clash' = IF \E c \in Backuper : job[c].pc # "idle" /\ job[c].at = second
              THEN clash \union {second} ELSE clash

BackupChunk(b) ==
  LET s == job[b].at IN
  /\ job[b].pc = "dumping" /\ file[s].data.n < Size
  /\ file' = [file EXCEPT ![s].data.n = @ + 1]
  /\ UNCHANGED <<job, clash>>

\* The command fails: the file is removed, or os.Remove fails, of which nothing
\* is said, and it stays, as that of an unsupported driver does.
BackupFails(b, removed) ==
  /\ job[b].pc = "dumping"
  /\ job' = [job EXCEPT ![b].pc = "failing"]
  /\ file' = [file EXCEPT ![job[b].at].made = @ /\ ~removed]
  /\ UNCHANGED clash

\* The deferred gz.Close ends what there is of the dump with a valid trailer,
\* for whoever has the file open or finds it in the list.
BackupCloses(b, ok) ==
  /\ job[b].pc = "failing"
  /\ job' = [job EXCEPT ![b].pc = IF ok THEN "failed" ELSE "cut"]
  /\ file' = [file EXCEPT ![job[b].at].data.ended = @ \/ ok]
  /\ UNCHANGED clash

\* Mutant of BackupEnds: the error of gz.Close is not looked at.
EndsAnyway(b, ok) ==
  LET s == job[b].at IN
  /\ job[b].pc = "dumping" /\ file[s].data.n = Size
  /\ job' = [job EXCEPT ![b].pc = "returned"]
  /\ file' = [file EXCEPT ![s].data.ended = @ \/ ok]
  /\ UNCHANGED clash

\* gz.Close writes the trailer; if it cannot, the file stays without it.
BackupEnds(b, ok) ==
  LET s == job[b].at IN
  /\ job[b].pc = "dumping" /\ file[s].data.n = Size
  /\ job' = [job EXCEPT ![b].pc = IF ok THEN "returned" ELSE "cut"]
  /\ file' = [file EXCEPT ![s].data.ended = @ \/ ok]
  /\ UNCHANGED clash

---------------------------------------------------------------------------
(* Manager.Restore: the dump is piped into the database's client while it  *)
(* is unpacked.                                                            *)

\* List: the files that are there, complete or not.
Listed == {s \in BackupSecond : file[s].made}

Reading(A) == A /\ UNCHANGED <<file, job, clash, dump, pipe, put, remote, result, second>>

RestoreStart(s) ==
  /\ restore.pc # "running" /\ s \in Listed
  /\ restore' = [pc |-> "running", at |-> s, n |-> 0]

RestoreChunk ==
  /\ restore.pc = "running" /\ restore.n < file[restore.at].data.n
  /\ restore' = [restore EXCEPT !.n = @ + 1]

\* At the end of the file; without a trailer the reader fails, and so does Run.
RestoreEnds ==
  /\ restore.pc = "running" /\ restore.n >= file[restore.at].data.n
  /\ restore' = [restore EXCEPT !.pc = IF file[restore.at].data.ended THEN "ok" ELSE "error"]

RestoreFails ==
  /\ restore.pc = "running"
  /\ restore' = [restore EXCEPT !.pc = "error"]

---------------------------------------------------------------------------
(* Upload.                                                                 *)

Remote(A) == A /\ UNCHANGED <<file, job, clash, restore, second>>

\* The goroutine is started, and Put creates the object.
UploadStart ==
  /\ put = "idle" /\ put' = "reading"
  /\ dump' = [dump EXCEPT !.pc = "running"] /\ remote' = Begun
  /\ UNCHANGED <<pipe, result>>

\* A write to the pipe waits until all of the one before is read.
UploadChunk ==
  /\ dump.pc = "running" /\ dump.n < Size /\ pipe = "empty"
  /\ dump' = [dump EXCEPT !.n = @ + 1] /\ pipe' = "chunk"
  /\ UNCHANGED <<put, remote, result>>

\* Mutant of UploadDumpFails: the pipe is closed without the error.
ClosesCleanly ==
  /\ dump.pc = "running" /\ pipe = "empty"
  /\ dump' = [dump EXCEPT !.pc = "failed"] /\ pipe' = "eof"
  /\ UNCHANGED <<put, remote, result>>

UploadDumpFails ==
  /\ dump.pc = "running" /\ pipe = "empty"
  /\ dump' = [dump EXCEPT !.pc = "failed"] /\ pipe' = "error"
  /\ UNCHANGED <<put, remote, result>>

\* gz.Close, then pw.Close.
UploadTrailer ==
  /\ dump.pc = "running" /\ dump.n = Size /\ pipe = "empty"
  /\ dump' = [dump EXCEPT !.pc = "closing"] /\ pipe' = "trailer"
  /\ UNCHANGED <<put, remote, result>>

UploadClose ==
  /\ dump.pc = "closing" /\ pipe = "empty"
  /\ dump' = [dump EXCEPT !.pc = "done"] /\ pipe' = "eof"
  /\ UNCHANGED <<put, remote, result>>

\* io.Copy in Put; what it has written stays when it fails, and the read end
\* of the pipe stays open.
PutReads ==
  /\ put = "reading" /\ pipe # "empty"
  /\ CASE pipe = "chunk" -> remote' = [remote EXCEPT !.n = @ + 1] /\ pipe' = "empty" /\ UNCHANGED put
       [] pipe = "trailer" -> remote' = [remote EXCEPT !.ended = TRUE] /\ pipe' = "empty" /\ UNCHANGED put
       [] pipe = "eof" -> put' = "ok" /\ UNCHANGED <<remote, pipe>>
       [] pipe = "error" -> put' = "failed" /\ UNCHANGED <<remote, pipe>>
  /\ UNCHANGED <<dump, result>>

PutFails ==
  /\ put = "reading" /\ put' = "failed"
  /\ UNCHANGED <<dump, pipe, remote, result>>

\* Put's error, else what the goroutine reports.
UploadReturn ==
  /\ result = "none"
  /\ put = "failed" \/ (put = "ok" /\ dump.pc \in {"done", "failed"})
  /\ result' = IF put = "ok" /\ dump.pc = "done" THEN "nil" ELSE "error"
  /\ UNCHANGED <<dump, pipe, put, remote>>

---------------------------------------------------------------------------
Tock ==
  /\ second < MaxSecond /\ second' = second + 1
  /\ UNCHANGED <<file, job, clash, restore, dump, pipe, put, remote, result>>

\* The process dies; the files stay as they are.
BackupCrash ==
  /\ job' = [b \in Backuper |-> IF job[b].pc \in {"dumping", "failing"}
                                THEN [job[b] EXCEPT !.pc = "cut"] ELSE job[b]]
  /\ restore' = IF restore.pc = "running" THEN [restore EXCEPT !.pc = "error"] ELSE restore
  /\ put' = IF put = "reading" THEN "failed" ELSE put
  /\ dump' = IF dump.pc \in {"running", "closing"} THEN [dump EXCEPT !.pc = "failed"] ELSE dump
  /\ result' = IF put # "idle" /\ result = "none" THEN "crash" ELSE result
  /\ UNCHANGED <<file, clash, pipe, remote, second>>

UploadStep == UploadChunk \/ UploadTrailer \/ UploadClose \/ PutReads \/ UploadReturn

BackupNext ==
  \/ \E b \in Backuper :
       \/ Local(BackupStart(b)) \/ Local(BackupChunk(b))
       \/ \E ok \in BOOLEAN :
            Local(BackupFails(b, ok)) \/ Local(BackupCloses(b, ok)) \/ Local(BackupEnds(b, ok))
  \/ \E s \in BackupSecond : Reading(RestoreStart(s))
  \/ Reading(RestoreChunk) \/ Reading(RestoreEnds) \/ Reading(RestoreFails)
  \/ Remote(UploadStart) \/ Remote(UploadChunk) \/ Remote(UploadDumpFails) \/ Remote(UploadTrailer)
  \/ Remote(UploadClose) \/ Remote(PutReads) \/ Remote(PutFails) \/ Remote(UploadReturn)
  \/ Tock \/ BackupCrash

\* The dump command makes progress, and the disk takes what it is given or fails.
BackupFairness == WF_backupVars(Remote(UploadStep))

BackupSpec == BackupInit /\ [][BackupNext]_backupVars /\ BackupFairness

---------------------------------------------------------------------------
\* The file of a Backup that failed and closed it all the same.
FailedDump(s) == \E b \in Backuper : job[b].pc = "failed" /\ job[b].at = s

\* A path that Backup returned is a complete dump; a Restore that reports
\* success has replayed a complete one, or what there was of a dump that failed
\* and whose file Backup closed with a trailer while Restore read it or could
\* not remove; one cut off without a trailer is never taken for complete
\* (backup.go 82, 98-109, 136-144).  Backups that begin in the same second share
\* a file and are excepted.
BackupRestores ==
  /\ \A b \in Backuper :
       job[b].pc = "returned" /\ job[b].at \notin clash =>
         file[job[b].at] = [made |-> TRUE, data |-> Complete]
  /\ restore.pc = "ok" /\ restore.at \notin clash => restore.n = Size \/ FailedDump(restore.at)

\* Whatever fails in whichever order, an object that Put reports stored is a
\* complete dump, and Upload returns nil only for such a one (backup.go 278-291).
UploadTruth ==
  (put = "ok" \/ result = "nil") => remote = Complete

\* Upload always returns; a dump goroutine whose Put has failed may be left
\* behind, blocked on the pipe (backup.go 288-290).
UploadReturns == put = "reading" ~> result # "none"

\* Backup and Upload report success of a complete dump only, and Restore of
\* one, or of a dump whose Backup failed (backup.go 82-144, 278-291).
DumpsComplete == BackupRestores /\ UploadTruth
=============================================================================
