----------------------------- MODULE LogRotator -----------------------------
(***************************************************************************)
(* pkg/telemetry/rotation.go: writers share one log file under a mutex;    *)
(* a full file is renamed after the second of the clock and a new one      *)
(* opened; a goroutine per rotated file compresses it and a cleaner        *)
(* removes files by age, both without the mutex.  The file system may      *)
(* refuse a rename, an open or a flush, and the process may be killed.     *)
(* Lines are numbers and all of one size.                                  *)
(***************************************************************************)
EXTENDS Integers, FiniteSetsExt

CONSTANTS
    MaxSize,    \* lines a file may hold
    MaxAge,     \* seconds a rotated file is kept
    MaxLines,   \* bound: lines written
    MaxSeconds  \* bound of the clock

ASSUME LogRotatorAssumption ==
    /\ MaxSize \in Nat \ {0}
    /\ MaxAge \in Nat \ {0}
    /\ MaxLines \in Nat
    /\ MaxSeconds \in Nat

Lines == 1..MaxLines
Seconds == 0..MaxSeconds

VARIABLES
    now,        \* the clock, in the seconds of the file names
    file,       \* LogRotator.file is open, nil, or the rotator is closed
    size,       \* LogRotator.currentSize
    active,     \* the lines in the current file
    rotated,    \* rotated[s]: what filename.s holds
    archive,    \* archive[s]: what filename.s.gz holds
    jobs,       \* the goroutines that compress, one per rotation
    rotations,  \* how many rotations there have been
    wrote,      \* wrote[l]: when Write took line l, or Never
    line,       \* the last line a writer came with
    cutoff,     \* of the cleaner's pass: older files go
    collided,   \* history: two rotations fell into one second
    unflushed   \* history: an archive was not closed after its original was removed

disk == <<active, rotated, archive>>
vars == <<now, file, size, disk, jobs, rotations, wrote, line, cutoff, collided, unflushed>>

Never == -1
NoFile == [there |-> FALSE, lines |-> {}, mtime |-> Never]
File(lines, mtime) == [there |-> TRUE, lines |-> lines, mtime |-> mtime]
NoJob == [pc |-> "none", stamp |-> 0, got |-> {}]

Taken == {l \in Lines : wrote[l] # Never}

(***************************************************************************)
(* Write, under the mutex, with rotateLocked where the file is full.       *)
(***************************************************************************)
Take ==
    /\ wrote' = [wrote EXCEPT ![line'] = now]
    /\ UNCHANGED <<now, cutoff, unflushed>>

WriteLine ==
    /\ file = "open" /\ size < MaxSize
    /\ active' = active \cup {line'}
    /\ size' = size + 1
    /\ Take
    /\ UNCHANGED <<file, rotated, archive, jobs, rotations, collided>>

\* An earlier rotation of the same second left its file, its archive or its goroutine.
Used(s) ==
    \/ rotated[s].there \/ archive[s].there
    \/ \E n \in DOMAIN jobs : jobs[n].pc # "none" /\ jobs[n].stamp = s

\* Rename the current file, which keeps its mtime, and start its compression; without
\* cfg.Compress the job never takes a step.
Rename ==
    /\ rotated' = [rotated EXCEPT ![now] = File(active, Max({wrote[l] : l \in active}))]
    /\ collided' = (collided \/ Used(now))
    /\ rotations' = rotations + 1
    /\ jobs' = [jobs EXCEPT ![rotations + 1] = [NoJob EXCEPT !.pc = "start", !.stamp = now]]

Rotate ==
    /\ file = "open" /\ size >= MaxSize
    /\ active' = {line'}
    /\ size' = 1
    /\ Rename
    /\ Take
    /\ UNCHANGED <<file, archive>>

\* The close or the rename fails: the old file is opened again, if it can be, and the
\* line refused.
RenameFails ==
    /\ file = "open" /\ size >= MaxSize
    /\ file' \in {"open", "nil"}
    /\ UNCHANGED <<now, size, disk, jobs, rotations, wrote, cutoff, collided, unflushed>>

\* The new file cannot be opened: the line is refused and the rotator has no file.
OpenFails ==
    /\ file = "open" /\ size >= MaxSize
    /\ file' = "nil"
    /\ active' = {}
    /\ Rename
    /\ UNCHANGED <<now, size, archive, wrote, cutoff, unflushed>>

\* Without a file Write returns ErrClosed.
Refuse ==
    /\ file # "open"
    /\ UNCHANGED <<now, file, size, disk, jobs, rotations, wrote, cutoff, collided, unflushed>>

Write ==
    /\ line < MaxLines
    /\ line' = line + 1
    /\ WriteLine \/ Rotate \/ RenameFails \/ OpenFails \/ Refuse

(***************************************************************************)
(* compressFile, without the mutex.  The deferred Close writes what gzip   *)
(* still buffers, after the original is removed.                           *)
(***************************************************************************)
Job(n, job) == jobs' = [jobs EXCEPT ![n] = job]

Open(n) ==
    /\ jobs[n].pc = "start"
    /\ LET src == rotated[jobs[n].stamp]
       IN Job(n, IF src.there THEN [jobs[n] EXCEPT !.pc = "opened", !.got = src.lines] ELSE NoJob)
    /\ UNCHANGED <<disk, unflushed>>

Create(n) ==
    /\ jobs[n].pc = "opened"
    /\ \/ /\ Job(n, [jobs[n] EXCEPT !.pc = "created"])
          /\ archive' = [archive EXCEPT ![jobs[n].stamp] = File({}, now)]
       \/ Job(n, NoJob) /\ UNCHANGED archive
    /\ UNCHANGED <<active, rotated, unflushed>>

\* Faulty variant: the original is removed whether or not the copy succeeded.
CopyFailsRemoves(n) ==
    /\ jobs[n].pc = "created"
    /\ Job(n, NoJob)
    /\ archive' = [archive EXCEPT ![jobs[n].stamp] = NoFile]
    /\ rotated' = [rotated EXCEPT ![jobs[n].stamp] = NoFile]
    /\ UNCHANGED <<active, unflushed>>

CopyFails(n) ==
    /\ jobs[n].pc = "created"
    /\ Job(n, NoJob)
    /\ archive' = [archive EXCEPT ![jobs[n].stamp] = NoFile]
    /\ UNCHANGED <<active, rotated, unflushed>>

RemoveOriginal(n) ==
    /\ jobs[n].pc = "created"
    /\ Job(n, [jobs[n] EXCEPT !.pc = "removed"])
    /\ rotated' = [rotated EXCEPT ![jobs[n].stamp] = NoFile]
    /\ UNCHANGED <<active, archive, unflushed>>

\* Two goroutines that write the same archive garble it.
Alone(n) ==
    \A m \in DOMAIN jobs : m # n /\ jobs[m].pc \in {"created", "removed"}
                              => jobs[m].stamp # jobs[n].stamp

CloseArchive(n) ==
    /\ jobs[n].pc = "removed"
    /\ Job(n, NoJob)
    /\ \/ /\ archive[jobs[n].stamp].there
          /\ archive' = [archive EXCEPT ![jobs[n].stamp] =
                            File(IF Alone(n) THEN jobs[n].got ELSE {}, now)]
          /\ UNCHANGED unflushed
       \/ ~archive[jobs[n].stamp].there /\ UNCHANGED <<archive, unflushed>>
       \/ unflushed' = TRUE /\ UNCHANGED archive
    /\ UNCHANGED <<active, rotated>>

Compress ==
    /\ \E n \in DOMAIN jobs :
        Open(n) \/ Create(n) \/ CopyFails(n) \/ RemoveOriginal(n) \/ CloseArchive(n)
    /\ UNCHANGED <<now, file, size, rotations, wrote, line, cutoff, collided>>

(***************************************************************************)
(* cleanupOldFiles: one cutoff for a pass that removes file after file.    *)
(***************************************************************************)
CleanUp ==
    /\ file # "closed"
    /\ cutoff' = now - MaxAge
    /\ UNCHANGED <<now, file, size, disk, jobs, rotations, wrote, line, collided, unflushed>>

\* Faulty variant: a file that is exactly as old as the limit goes too.
OldOrAlmost(f) == f.there /\ f.mtime <= cutoff

Old(f) == f.there /\ f.mtime < cutoff

RemoveOld ==
    /\ \E s \in Seconds :
        \/ Old(rotated[s]) /\ rotated' = [rotated EXCEPT ![s] = NoFile] /\ UNCHANGED archive
        \/ Old(archive[s]) /\ archive' = [archive EXCEPT ![s] = NoFile] /\ UNCHANGED rotated
    /\ UNCHANGED <<now, file, size, active, jobs, rotations, wrote, line, cutoff, collided, unflushed>>

Close ==
    /\ file # "closed"
    /\ file' = "closed"
    /\ UNCHANGED <<now, size, disk, jobs, rotations, wrote, line, cutoff, collided, unflushed>>

\* Faulty variant: the size of the file that is found is not asked.
RestartAtZero ==
    /\ file' \in {"open", "closed"}
    /\ size' = 0
    /\ unflushed' = (unflushed \/ \E n \in DOMAIN jobs : jobs[n].pc = "removed")
    /\ jobs' = [n \in DOMAIN jobs |-> NoJob]
    /\ cutoff' = 0 - MaxAge
    /\ UNCHANGED <<now, disk, rotations, wrote, line, collided>>

\* The process ends, its goroutines with it; NewLogRotator opens the file again, or cannot.
Restart ==
    /\ file' \in {"open", "closed"}
    /\ size' = Cardinality(active)
    /\ unflushed' = (unflushed \/ \E n \in DOMAIN jobs : jobs[n].pc = "removed")
    /\ jobs' = [n \in DOMAIN jobs |-> NoJob]
    /\ cutoff' = 0 - MaxAge
    /\ UNCHANGED <<now, disk, rotations, wrote, line, collided>>

Tick ==
    /\ now < MaxSeconds
    /\ now' = now + 1
    /\ UNCHANGED <<file, size, disk, jobs, rotations, wrote, line, cutoff, collided, unflushed>>

Init ==
    /\ now = 0
    /\ file = "open"
    /\ size = 0
    /\ active = {}
    /\ rotated = [s \in Seconds |-> NoFile]
    /\ archive = [s \in Seconds |-> NoFile]
    /\ jobs = [n \in Lines |-> NoJob]
    /\ rotations = 0
    /\ wrote = [l \in Lines |-> Never]
    /\ line = 0
    /\ cutoff = 0 - MaxAge
    /\ collided = FALSE
    /\ unflushed = FALSE

Next == Write \/ Compress \/ CleanUp \/ RemoveOld \/ Close \/ Restart \/ Tick

Spec == Init /\ [][Next]_vars

-----------------------------------------------------------------------------

FileType == [there : BOOLEAN, lines : SUBSET Lines, mtime : Seconds \cup {Never}]

TypeOK ==
    /\ now \in Seconds
    /\ file \in {"open", "nil", "closed"}
    /\ size \in 0..MaxSize
    /\ active \subseteq Lines
    /\ rotated \in [Seconds -> FileType]
    /\ archive \in [Seconds -> FileType]
    /\ jobs \in [Lines -> [pc : {"none", "start", "opened", "created", "removed"},
                           stamp : Seconds, got : SUBSET Lines]]
    /\ rotations \in 0..MaxLines
    /\ wrote \in [Lines -> Seconds \cup {Never}]
    /\ line \in 0..MaxLines
    /\ cutoff \in (0 - MaxAge)..MaxSeconds
    /\ collided \in BOOLEAN
    /\ unflushed \in BOOLEAN

\* Where a line can be read, now or once the goroutine that holds it is done.
Held ==
    active \cup (UNION {rotated[s].lines : s \in Seconds})
           \cup (UNION {archive[s].lines : s \in Seconds})
           \cup (UNION {jobs[n].got : n \in {m \in DOMAIN jobs : jobs[m].pc = "removed"}})

Lost == {l \in Taken : now - wrote[l] <= MaxAge} \ Held

(***************************************************************************)
(* Whatever writers, compressors, the cleaner, the file system and a       *)
(* killed process do, a line that Write took and that is not older than    *)
(* MaxAge is lost in two ways only: two rotations in one second, or an     *)
(* archive that was not flushed after its original was removed.            *)
(***************************************************************************)
LossHasACause == Lost = {} \/ collided \/ unflushed

\* No file outgrows the limit, whichever opens and renames failed and whenever it restarts.
FilesAreBounded ==
    /\ Cardinality(active) <= MaxSize
    /\ \A s \in Seconds : Cardinality(rotated[s].lines) <= MaxSize

(***************************************************************************)
(* Rotation under load loses nothing (specs/007, limit cases).  The names  *)
(* of rotated files tell seconds apart, and nothing finer.                 *)
(***************************************************************************)
NothingIsLost == Lost = {} \/ unflushed
=============================================================================
