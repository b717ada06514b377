---------------------------- MODULE WriteAheadLog ----------------------------
(***************************************************************************)
(* WalWriter and WalReader of crates/state/src/wal_writer.rs: append hands *)
(* an entry to a channel and returns, a background task writes it through  *)
(* a BufWriter, files are rotated, and after a crash a new writer starts   *)
(* a new file.  An error of the task is logged, and the task goes on with  *)
(* the next entry.  An entry is two pieces, its length and its data; of a  *)
(* file the model keeps its entries and how many pieces have left the      *)
(* buffer.  That is what survives the end of the process.  It is not what  *)
(* survives the end of the machine: flush calls no fsync, in any mode.     *)
(* Names of files are times, so they sort in the order of their creation.  *)
(***************************************************************************)
EXTENDS Naturals, SequencesExt

CONSTANTS
    SyncModes,      \* the sync_mode of WalConfig to consider
    ChannelSize,    \* capacity of the channel
    FileSize,       \* max_file_size_mb, in entries
    MaxAppends,     \* bound on the appends of one run of the process
    MaxRestarts,    \* bound on the restarts
    MaxErrors       \* bound on the errors of the background task

ASSUME WalAssumption ==
    /\ SyncModes \subseteq {"full", "normal", "none"}
    /\ ChannelSize \in Nat \ {0} /\ FileSize \in Nat \ {0}
    /\ MaxAppends \in Nat /\ MaxRestarts \in Nat /\ MaxErrors \in Nat

VARIABLES
    syncMode,
    alive,      \* the process is running
    appends,    \* of each run of the process: the appends that have returned
    channel,
    bytes,      \* bytes_written, in entries
    written,    \* which piece the background task writes next
    files,      \* [entries, inFile], the open one last
    lost,       \* history: entries whose length or data could not be written
    unflushed   \* history: entries whose flush failed

errorVars == <<lost, unflushed>>
walVars == <<syncMode, alive, appends, channel, bytes, written, files, errorVars>>

CurrentRun == Len(appends)
CurrentFile == files[Len(files)]
NewFile == [entries |-> << >>, inFile |-> 0]

WalInit ==
    /\ syncMode \in SyncModes
    /\ alive = TRUE
    /\ appends = <<0>>
    /\ channel = << >>
    /\ bytes = 0
    /\ written = "none"
    /\ files = <<NewFile>>
    /\ lost = {} /\ unflushed = {}

(* append takes the next seq_num and waits for room in the channel.        *)
AppendEntry ==
    /\ alive
    /\ appends[CurrentRun] < MaxAppends /\ Len(channel) < ChannelSize
    /\ channel' = Append(channel, [run |-> CurrentRun, seq |-> appends[CurrentRun]])
    /\ appends' = [appends EXCEPT ![CurrentRun] = @ + 1]
    /\ UNCHANGED <<syncMode, alive, bytes, written, files, errorVars>>

-----------------------------------------------------------------------------
(* The background task.  The buffer is spilled whenever the next piece     *)
(* does not fit, which depends on the sizes; a piece larger than the       *)
(* buffer goes straight to the file.  An error may come after some pieces. *)
SpillTo(pieces) == files' = [files EXCEPT ![Len(files)].inFile = pieces]
SpillBefore(pieces) == \E spilled \in CurrentFile.inFile .. pieces : SpillTo(spilled)

WriteLength ==
    /\ alive /\ written = "none" /\ channel # << >>
    /\ written' = "length"
    /\ channel' = Tail(channel)
    /\ \E spilled \in {CurrentFile.inFile, 2 * Len(CurrentFile.entries)} :
        files' = [files EXCEPT ![Len(files)] =
                    [entries |-> Append(@.entries, Head(channel)), inFile |-> spilled]]
    /\ UNCHANGED <<syncMode, alive, appends, bytes, errorVars>>

ErrorAllowed == Cardinality(lost) + Cardinality(unflushed) < MaxErrors

(* serialize or the write of the length fails: nothing of the entry is     *)
(* written.                                                                *)
LengthFails ==
    /\ ErrorAllowed /\ alive /\ written = "none" /\ channel # << >>
    /\ channel' = Tail(channel)
    /\ lost' = lost \cup {Head(channel)}
    /\ SpillBefore(2 * Len(CurrentFile.entries))
    /\ UNCHANGED <<syncMode, alive, appends, bytes, written, unflushed>>

WriteData ==
    /\ alive /\ written = "length"
    /\ written' = "data"
    /\ bytes' = bytes + 1
    /\ \E spilled \in {CurrentFile.inFile, 2 * Len(CurrentFile.entries) - 1,
                       2 * Len(CurrentFile.entries)} : SpillTo(spilled)
    /\ UNCHANGED <<syncMode, alive, appends, channel, errorVars>>

EntryInHand == Last(CurrentFile.entries)

(* The length stays in the buffer or the file, and the next entry follows. *)
DataFails ==
    /\ ErrorAllowed /\ alive /\ written = "length"
    /\ written' = "none"
    /\ lost' = lost \cup {EntryInHand}
    /\ SpillBefore(2 * Len(CurrentFile.entries) - 1)
    /\ UNCHANGED <<syncMode, alive, appends, channel, bytes, unflushed>>

Flushed(file) == [file EXCEPT !.inFile = 2 * Len(file.entries)]
Flush == files' = [files EXCEPT ![Len(files)] = Flushed(@)]

(* bytes_written is not reset: from the first rotation on, every entry     *)
(* starts a new file.  If none can be opened, the old one is kept.         *)
Rotate ==
    /\ bytes >= FileSize
    /\ Flush \/ files' = Append([files EXCEPT ![Len(files)] = Flushed(@)], NewFile)

(* Mutant: full mode leaves the flush to the timer as well.                *)
MutantKeepFile == bytes < FileSize /\ UNCHANGED files

KeepFile ==
    /\ bytes < FileSize
    /\ IF syncMode = "full" THEN Flush ELSE UNCHANGED files

FinishEntry ==
    /\ alive /\ written = "data"
    /\ Rotate \/ KeepFile
    /\ written' = "none"
    /\ UNCHANGED <<syncMode, alive, appends, channel, bytes, errorVars>>

FlushFails ==
    /\ ErrorAllowed /\ alive /\ written = "data"
    /\ bytes >= FileSize \/ syncMode = "full"
    /\ written' = "none"
    /\ unflushed' = unflushed \cup {EntryInHand}
    /\ SpillBefore(2 * Len(CurrentFile.entries))
    /\ UNCHANGED <<syncMode, alive, appends, channel, bytes, lost>>

(* Mutant: the timer flushes in normal mode, as SyncMode has it.           *)
MutantTimerMode == syncMode = "normal"

TimerMode == syncMode = "full"

(* The timer of the task comes between two entries.  Its errors are not    *)
(* even logged: the next tick tries again.                                 *)
TimerFlushes ==
    /\ alive /\ written = "none" /\ TimerMode
    /\ Flush
    /\ UNCHANGED <<syncMode, alive, appends, channel, bytes, written, errorVars>>

TimerFails ==
    /\ alive /\ written = "none" /\ TimerMode
    /\ SpillBefore(2 * Len(CurrentFile.entries))
    /\ UNCHANGED <<syncMode, alive, appends, channel, bytes, written, errorVars>>

-----------------------------------------------------------------------------
(* The process is killed; or it ends, and dropping the BufWriter writes    *)
(* out what it holds.  No one drains the channel.                          *)
Die ==
    /\ alive
    /\ alive' = FALSE
    /\ channel' = << >>
    /\ bytes' = 0
    /\ written' = "none"
    /\ UNCHANGED <<syncMode, appends, errorVars>>

Crash == Die /\ UNCHANGED files

Leave ==
    /\ Die /\ written = "none"
    /\ Flush

(* A new writer counts from 0 again, in a file of its own.                 *)
Restart ==
    /\ ~alive /\ CurrentRun <= MaxRestarts
    /\ alive' = TRUE
    /\ appends' = Append(appends, 0)
    /\ files' = Append(files, NewFile)
    /\ UNCHANGED <<syncMode, channel, bytes, written, errorVars>>

Writer == WriteLength \/ LengthFails \/ WriteData \/ DataFails \/ FinishEntry \/ FlushFails

WalNext == AppendEntry \/ Writer \/ TimerFlushes \/ TimerFails \/ Crash \/ Leave \/ Restart

-----------------------------------------------------------------------------
Entry(i, j) == files[i].entries[j]

(* A length without its data makes the reader take what follows for the    *)
(* data: it ends there with an error, and no later file is read.           *)
Broken(i) == \E j \in DOMAIN files[i].entries : Entry(i, j) \in lost /\ 2 * j <= files[i].inFile + 1

(* What a reader finds in a file, and whether read_exact or deserialize    *)
(* fails in it.                                                            *)
Readable(i) ==
    {j \in DOMAIN files[i].entries :
        2 * j <= files[i].inFile /\ \A k \in 1 .. j : Entry(i, k) \notin lost}
Torn(i) == files[i].inFile % 2 = 1 \/ Broken(i)

(* The files up to the first torn one.                                     *)
FilesRead == {i \in DOMAIN files : \A j \in 1 .. i - 1 : ~Torn(j)}

(* Nothing is torn but, perhaps, the end of the last file.                 *)
AllIsRead == FilesRead = DOMAIN files /\ ~Broken(Len(files))

Replayed(run, seq) ==
    \E i \in FilesRead : \E j \in Readable(i) : Entry(i, j) = [run |-> run, seq |-> seq]

Earlier(d, e) == d.run < e.run \/ (d.run = e.run /\ d.seq < e.seq)

(* Whatever the crashes and the errors of the disk, a replay has no holes  *)
(* but the entries whose writing failed: of each run of the process it     *)
(* delivers the other appends from the first on, in their order and once,  *)
(* and the runs one after the other.  In full mode a crash costs a run no  *)
(* more than the entries in the channel, the one being written and those   *)
(* with an error, unless a torn file hides it.                             *)
ReplayFollowsAppends ==
    /\ \A i, k \in FilesRead : \A j \in Readable(i), l \in Readable(k) :
         i < k \/ (i = k /\ j < l) => Earlier(Entry(i, j), Entry(k, l))
    /\ \A i \in FilesRead : \A j \in Readable(i) :
         LET e == Entry(i, j)
         IN  /\ e \notin lost /\ e.seq < appends[e.run]
             /\ \A s \in 0 .. e.seq - 1 : Replayed(e.run, s) \/ [run |-> e.run, seq |-> s] \in lost
    /\ syncMode = "full" /\ AllIsRead =>
         \A run \in DOMAIN appends : \A s \in 0 .. appends[run] - 1 :
            s + ChannelSize + 1 < appends[run] =>
                Replayed(run, s) \/ [run |-> run, seq |-> s] \in lost \cup unflushed

(* In full mode an append is readable in the end, while the process runs   *)
(* and nothing torn hides it, unless its writing failed.  A flush that     *)
(* failed is made good by the timer, once the disk lets it.                *)
AppendsReachFile ==
    \A n \in 1 .. MaxAppends :
        (syncMode = "full" /\ alive /\ appends[CurrentRun] >= n) ~>
            \/ ~alive
            \/ ~AllIsRead
            \/ Replayed(CurrentRun, n - 1)
            \/ [run |-> CurrentRun, seq |-> n - 1] \in lost
=============================================================================
