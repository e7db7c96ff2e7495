------------------------------- MODULE Logger -------------------------------
(***************************************************************************)
(* The Logger of core/logging.py: one file per level, and in every process *)
(* a cache of the lines it has written, which suppresses a line that is    *)
(* there.  A line carries the second it is written in, so that equal lines *)
(* of one second are the duplicates.  (The cache holds hashes; two lines   *)
(* with one hash are taken to be equal.)                                   *)
(***************************************************************************)
EXTENDS Naturals

CONSTANTS
    LogProcs,       \* processes that write
    Levels,         \* the LogLevels in use
    Rank            \* Rank[l]: the place of l in the order clear_logs visits the files

ASSUME RankAssumption == Rank \in [Levels -> Nat]

VARIABLES
    onFile,         \* the lines in the files, with the process that wrote each
    logCache,       \* _log_cache of each process
    broken,         \* levels whose file cannot be opened now
    logged,         \* history: the lines of the calls that met no I/O error
    doubled,        \* history: lines that one process has put in a file that held them
    clears          \* history: who called clear_logs, and when

logVars == <<onFile, logCache, broken, logged, doubled, clears>>

\* A line is a record of level, text and second; nothing is assumed of the texts.
IsLine(l) == l.level \in Levels /\ l.at \in Nat

LogTypeOK ==
    /\ \A w \in onFile \cup logged \cup doubled : w.proc \in LogProcs /\ IsLine(w.line)
    /\ logCache = [p \in LogProcs |-> logCache[p]]
    /\ \A p \in LogProcs : \A l \in logCache[p] : IsLine(l)
    /\ broken \subseteq Levels
    /\ clears \subseteq [proc : LogProcs, at : Nat]

LogInit ==
    /\ onFile = {} /\ logged = {} /\ doubled = {} /\ clears = {}
    /\ logCache = [p \in LogProcs |-> {}]
    /\ broken = {}

By(p, lines) == {[proc |-> p, line |-> l] : l \in lines}

\* Of the lines a step logs, those that need writing and those that get written.
Fresh(p, lines) == lines \ logCache[p]
Written(p, lines) == {l \in Fresh(p, lines) : l.level \notin broken}

\* Variants: a line is remembered before it is written, or never.
RememberedBeforeWriting(p, lines) == logCache[p] \cup lines
RememberedNever(p, lines) == logCache[p]

\* A line is remembered once it is in its file.
Remembered(p, lines) == logCache[p] \cup Written(p, lines)

\* _write_log for each of the lines one step of process p logs.
Write(p, lines) ==
    /\ onFile' = onFile \cup By(p, Written(p, lines))
    /\ logCache' = [logCache EXCEPT ![p] = Remembered(p, lines)]
    /\ logged' = logged \cup By(p, {l \in lines : l \in logCache[p] \/ l.level \notin broken})
    /\ doubled' = doubled \cup (By(p, Written(p, lines)) \cap onFile)
    /\ UNCHANGED <<broken, clears>>

\* The files of the targets are emptied in turn, up to the first that fails.
Emptied(targets) ==
    {l \in targets : \A k \in targets \cap broken : Rank[l] < Rank[k]}

\* clear_logs at time t: the cache is cleared only when every file was emptied.
ClearLogs(p, targets, t) ==
    /\ onFile' = {w \in onFile : w.line.level \notin Emptied(targets)}
    /\ logCache' = IF targets \cap broken = {} THEN [logCache EXCEPT ![p] = {}] ELSE logCache
    /\ clears' = clears \cup {[proc |-> p, at |-> t]}
    /\ UNCHANGED <<broken, logged, doubled>>

\* The cache of a process that starts or ends.
Forgotten(p) == [logCache EXCEPT ![p] = {}]

\* A file becomes unwritable, or writable again.
Toggle(l) ==
    /\ broken' = IF l \in broken THEN broken \ {l} ELSE broken \cup {l}
    /\ UNCHANGED <<onFile, logCache, logged, doubled, clears>>

-----------------------------------------------------------------------------
(***************************************************************************)
(* No line is lost by the suppression of duplicates: whatever was logged   *)
(* without an I/O error is in its file, unless clear_logs was called in    *)
(* the second of the line or later.                                        *)
(***************************************************************************)
LogComplete ==
    \A w \in logged : w \in onFile \/ \E c \in clears : c.at >= w.line.at

(***************************************************************************)
(* A process puts a line twice in a file only when it called clear_logs    *)
(* within the second of the line (for another level: the cache is common   *)
(* to all of them).                                                        *)
(***************************************************************************)
LogDeduplicated ==
    \A w \in doubled : \E c \in clears : c.proc = w.proc /\ c.at = w.line.at
=============================================================================
