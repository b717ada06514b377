------------------------ MODULE StateRecoveryProofs ------------------------
(***************************************************************************)
(* Proofs about the four components of StateRecovery.  Each section has an *)
(* inductive invariant of one component, the facts Init => Inv and         *)
(* Inv /\ [Next] => Inv', and that the invariant implies the property that *)
(* the run checks.  The last section carries the results over to           *)
(* RecoverySpec, where every step is a step of one component or leaves it  *)
(* alone.                                                                  *)
(***************************************************************************)
EXTENDS StateRecovery, SequenceTheorems, WellFoundedInduction, TLAPS

-----------------------------------------------------------------------------
(***************************************************************************)
(* The write-ahead log.  What was written is in the order of the appends   *)
(* and has no holes but the entries that are lost; the channel continues   *)
(* where the files end; a file is complete before the same run writes to   *)
(* the next one.                                                           *)
(***************************************************************************)
LogEntry == [run : Nat, seq : Nat]
LogFile == [entries : Seq(LogEntry), inFile : Nat]

WalTypeOK ==
    /\ syncMode \in {"full", "normal", "none"} /\ alive \in BOOLEAN
    /\ appends \in Seq(Nat) /\ Len(appends) > 0
    /\ channel \in Seq(LogEntry) /\ bytes \in Nat
    /\ written \in {"none", "length", "data"}
    /\ files \in Seq(LogFile) /\ Len(files) > 0

EntriesOf(i) == 1 .. Len(files[i].entries)
Files == 1 .. Len(files)

(* What has been written has the order of the appends, whether or not it   *)
(* has left the buffer.                                                    *)
WrittenInOrder ==
    \A i, k \in Files : \A j \in EntriesOf(i), l \in EntriesOf(k) :
        i < k \/ (i = k /\ j < l) => Earlier(Entry(i, j), Entry(k, l))

Written(run, seq) == \E i \in Files : \E j \in EntriesOf(i) : Entry(i, j) = [run |-> run, seq |-> seq]

InFile(run, seq) ==
    \E i \in Files : \E j \in EntriesOf(i) :
        2 * j <= files[i].inFile /\ Entry(i, j) = [run |-> run, seq |-> seq]

(* The errors of the background task.                                      *)
IsLost(run, seq) == [run |-> run, seq |-> seq] \in lost
IsUnflushed(run, seq) == [run |-> run, seq |-> seq] \in unflushed
ErrorsKept == lost \subseteq lost' /\ unflushed \subseteq unflushed'

Accounted(run, seq) == Written(run, seq) \/ IsLost(run, seq)
Safe(run, seq) == InFile(run, seq) \/ IsLost(run, seq) \/ IsUnflushed(run, seq)

WrittenWithoutHoles ==
    \A i \in Files : \A j \in EntriesOf(i) :
        LET e == Entry(i, j)
        IN  /\ e.run \in 1 .. CurrentRun /\ e.seq < appends[e.run]
            /\ \A s \in Nat : s < e.seq => Accounted(e.run, s)

(* The channel holds the appends of this run that are not written yet.     *)
ChannelInv ==
    /\ Len(channel) <= ChannelSize /\ (~alive => channel = << >>)
    /\ alive =>
        /\ Len(channel) <= appends[CurrentRun]
        /\ \A k \in 1 .. Len(channel) :
             channel[k] = [run |-> CurrentRun, seq |-> appends[CurrentRun] - Len(channel) + k - 1]
        /\ \A i \in Files : \A j \in EntriesOf(i) : Entry(i, j).run = CurrentRun =>
             Entry(i, j).seq < appends[CurrentRun] - Len(channel)
        /\ \A s \in Nat : s < appends[CurrentRun] - Len(channel) => Accounted(CurrentRun, s)

(* A file is complete before the same run writes to another one.           *)
FileComplete(i) == files[i].inFile = 2 * Len(files[i].entries)

FilesInv ==
    /\ \A i \in Files : files[i].inFile <= 2 * Len(files[i].entries)
    /\ written = "length" => CurrentFile.inFile + 2 <= 2 * Len(CurrentFile.entries)
    /\ ~alive => written = "none"
    /\ \A i, k \in Files : \A j \in EntriesOf(i), l \in EntriesOf(k) :
         i < k /\ Entry(i, j).run = Entry(k, l).run => FileComplete(i)
    /\ \A i \in Files : \A j \in EntriesOf(i) :
         i < Len(files) /\ Entry(i, j).run = CurrentRun /\ alive => FileComplete(i)

(* In full mode: how many of the last appends of a run need not be on disk.*)
Pending(run) ==
    IF alive /\ run = CurrentRun
    THEN Len(channel) + (IF written = "none" THEN 0 ELSE 1)
    ELSE ChannelSize + 1

FullInv ==
    syncMode = "full" =>
        \A run \in 1 .. CurrentRun : \A s \in Nat : s + Pending(run) < appends[run] => Safe(run, s)

(* The entry that is being written is the one the channel gave last.       *)
InHandInv ==
    written # "none" =>
        /\ Len(CurrentFile.entries) > 0
        /\ EntryInHand = [run |-> CurrentRun, seq |-> appends[CurrentRun] - Len(channel) - 1]

WalIInv ==
    /\ WalTypeOK /\ WrittenInOrder /\ WrittenWithoutHoles
    /\ ChannelInv /\ FilesInv /\ FullInv /\ InHandInv

-----------------------------------------------------------------------------
(* What the type invariant says of the places the proofs look at.          *)
LEMMA WalTypes ==
    ASSUME WalTypeOK
    PROVE  /\ CurrentRun \in Nat \ {0} /\ Len(files) \in Nat \ {0} /\ Len(channel) \in Nat
           /\ appends[CurrentRun] \in Nat
           /\ \A run \in 1 .. CurrentRun : appends[run] \in Nat
           /\ \A i \in Files : /\ files[i] \in LogFile /\ files[i].entries \in Seq(LogEntry)
                               /\ Len(files[i].entries) \in Nat /\ files[i].inFile \in Nat
           /\ \A i \in Files : \A j \in EntriesOf(i) :
                /\ Entry(i, j) \in LogEntry /\ Entry(i, j).run \in Nat /\ Entry(i, j).seq \in Nat
           /\ CurrentFile = files[Len(files)] /\ Len(files) \in Files
  <1>1. CurrentRun \in Nat \ {0} /\ Len(files) \in Nat \ {0} /\ Len(channel) \in Nat
    BY DEF WalTypeOK, CurrentRun
  <1>2. \A run \in 1 .. CurrentRun : appends[run] \in Nat
    BY ElementOfSeq DEF WalTypeOK, CurrentRun
  <1>3. \A i \in Files : files[i] \in LogFile
    BY ElementOfSeq DEF WalTypeOK, Files
  <1>4. \A i \in Files : /\ files[i].entries \in Seq(LogEntry)
                         /\ Len(files[i].entries) \in Nat /\ files[i].inFile \in Nat
    BY <1>3 DEF LogFile
  <1>5. \A i \in Files : \A j \in EntriesOf(i) : Entry(i, j) \in LogEntry
    BY <1>4, ElementOfSeq DEF EntriesOf, Entry
  <1>6. \A e \in LogEntry : e.run \in Nat /\ e.seq \in Nat
    BY DEF LogEntry
  <1>7. CurrentRun \in 1 .. CurrentRun /\ Len(files) \in Files
    BY <1>1 DEF Files
  <1> QED  BY <1>1, <1>2, <1>3, <1>4, <1>5, <1>6, <1>7 DEF CurrentFile

(* A step that writes no entry: it moves data to the disk and may open a   *)
(* file.                                                                   *)
SameEntries ==
    /\ files' \in Seq(LogFile)
    /\ Len(files') \in {Len(files), Len(files) + 1}
    /\ \A i \in Files : /\ files'[i].entries = files[i].entries
                        /\ files[i].inFile <= files'[i].inFile
                        /\ files'[i].inFile <= 2 * Len(files[i].entries)
    /\ Len(files') = Len(files) + 1 => files'[Len(files) + 1] = NewFile
    /\ ErrorsKept

(* Such a step leaves every entry where it is, and adds none.              *)
LEMMA EntriesKept ==
    ASSUME WalTypeOK, SameEntries
    PROVE  /\ \A i \in Files' : \A j \in EntriesOf(i)' :
                i \in Files /\ j \in EntriesOf(i) /\ Entry(i, j)' = Entry(i, j)
           /\ \A i \in Files : /\ i \in Files' /\ EntriesOf(i)' = EntriesOf(i)
                               /\ \A j \in EntriesOf(i) : Entry(i, j)' = Entry(i, j)
           /\ \A i \in Files' : files'[i].inFile <= 2 * Len(files'[i].entries)
  <1>1. Len(files) \in Nat \ {0}
    BY WalTypes
  <1>2. \A i \in Files' : i \in Files \/ (i = Len(files) + 1 /\ files'[i] = NewFile)
    BY <1>1 DEF SameEntries, Files
  <1>3. Len(NewFile.entries) = 0 /\ NewFile.inFile = 0
    BY EmptySeq DEF NewFile
  <1>4. \A i \in Files : /\ i \in Files' /\ EntriesOf(i)' = EntriesOf(i)
                        /\ \A j \in EntriesOf(i) : Entry(i, j)' = Entry(i, j)
    BY <1>1 DEF SameEntries, Files, EntriesOf, Entry
  <1>5. \A i \in Files' : i \notin Files => EntriesOf(i)' = {}
    BY <1>2, <1>3 DEF EntriesOf
  <1>6. \A i \in Files' : files'[i].inFile <= 2 * Len(files'[i].entries)
    <2>1. \A i \in Files : files'[i].inFile <= 2 * Len(files'[i].entries)
      BY DEF SameEntries
    <2>2. ASSUME NEW i \in Files', files'[i] = NewFile
          PROVE  files'[i].inFile <= 2 * Len(files'[i].entries)
      BY <2>2, <1>3
    <2> QED  BY <2>1, <2>2, <1>2
  <1> QED  BY <1>4, <1>5, <1>6

(* It keeps the order, and what is written or on disk stays so.            *)
LEMMA WrittenKept ==
    ASSUME WalTypeOK, SameEntries, WrittenInOrder
    PROVE  /\ WrittenInOrder'
           /\ \A run, seq : Accounted(run, seq) => Accounted(run, seq)'
           /\ \A run, seq : Safe(run, seq) => Safe(run, seq)'
  <1>1. WrittenInOrder'
    BY EntriesKept DEF WrittenInOrder
  <1>0. \A run, seq : /\ IsLost(run, seq) => IsLost(run, seq)'
                      /\ IsUnflushed(run, seq) => IsUnflushed(run, seq)'
    BY DEF SameEntries, ErrorsKept, IsLost, IsUnflushed
  <1>2. ASSUME NEW run, NEW seq, Written(run, seq) PROVE Written(run, seq)'
    BY <1>2, EntriesKept DEF Written
  <1>3. ASSUME NEW run, NEW seq, InFile(run, seq) PROVE InFile(run, seq)'
    <2>0. PICK i \in Files : \E j \in EntriesOf(i) :
            2 * j <= files[i].inFile /\ Entry(i, j) = [run |-> run, seq |-> seq]
      BY <1>3 DEF InFile
    <2>1. PICK j \in EntriesOf(i) :
            2 * j <= files[i].inFile /\ Entry(i, j) = [run |-> run, seq |-> seq]
      BY <2>0
    <2>2. files[i].inFile <= files'[i].inFile /\ files[i].inFile \in Nat /\ i \in Files'
      BY WalTypes, EntriesKept DEF SameEntries
    <2>3. files'[i].inFile \in Nat
      <3>1. files'[i] \in LogFile
        BY <2>2, ElementOfSeq DEF SameEntries, Files
      <3> QED  BY <3>1 DEF LogFile
    <2>4. j \in Nat
      BY WalTypes DEF EntriesOf
    <2>5. 2 * j <= files'[i].inFile
      BY <2>1, <2>2, <2>3, <2>4
    <2> QED  BY <2>1, <2>2, <2>5, EntriesKept DEF InFile
  <1>4. ASSUME NEW run, NEW seq, Accounted(run, seq) PROVE Accounted(run, seq)'
    BY <1>0, <1>2, <1>4 DEF Accounted
  <1>5. ASSUME NEW run, NEW seq, Safe(run, seq) PROVE Safe(run, seq)'
    BY <1>0, <1>3, <1>5 DEF Safe
  <1> QED  BY <1>1, <1>4, <1>5

(* The runs go on: no append is forgotten.                                 *)
MoreAppends ==
    /\ appends' \in Seq(Nat) /\ Len(appends) <= Len(appends')
    /\ \A run \in 1 .. CurrentRun : appends[run] <= appends'[run]

(* It makes no hole, whatever is appended meanwhile.                       *)
LEMMA NoHolesKept ==
    ASSUME WalTypeOK, SameEntries, WrittenInOrder, MoreAppends, WrittenWithoutHoles
    PROVE  WrittenWithoutHoles'
  <1> SUFFICES ASSUME NEW i \in Files', NEW j \in EntriesOf(i)'
               PROVE  (/\ Entry(i, j).run \in 1 .. CurrentRun
                       /\ Entry(i, j).seq < appends[Entry(i, j).run]
                       /\ \A s \in Nat : s < Entry(i, j).seq => Accounted(Entry(i, j).run, s))'
    BY DEF WrittenWithoutHoles
  <1>1. i \in Files /\ j \in EntriesOf(i) /\ Entry(i, j)' = Entry(i, j)
    BY EntriesKept
  <1>2. PICK e \in LogEntry : e = Entry(i, j)
    BY <1>1, WalTypes
  <1>3. /\ e.run \in 1 .. CurrentRun /\ e.seq < appends[e.run]
        /\ \A s \in Nat : s < e.seq => Accounted(e.run, s)
    BY <1>1, <1>2 DEF WrittenWithoutHoles
  <1>4. e.seq \in Nat /\ appends[e.run] \in Nat /\ CurrentRun \in Nat
    BY <1>3, WalTypes DEF LogEntry
  <1>5. CurrentRun' \in Nat /\ CurrentRun <= CurrentRun'
    BY DEF MoreAppends, CurrentRun
  <1>6. appends'[e.run] \in Nat /\ appends[e.run] <= appends'[e.run]
    <2>1. e.run \in 1 .. Len(appends')
      BY <1>3, <1>4, <1>5 DEF CurrentRun
    <2> QED  BY <1>3, <2>1, ElementOfSeq DEF MoreAppends
  <1>7. e.run \in 1 .. CurrentRun' /\ e.seq < appends'[e.run]
    BY <1>3, <1>4, <1>5, <1>6
  <1>8. \A s \in Nat : s < e.seq => Accounted(e.run, s)'
    BY <1>3, WrittenKept
  <1>9. Entry(i, j)' = e
    BY <1>1, <1>2
  <1> QED  BY <1>7, <1>8, <1>9

(* The part of FilesInv a step keeps that writes no entry.                 *)
LEMMA CompleteKept ==
    ASSUME WalTypeOK, SameEntries, NEW i \in Files, FileComplete(i)
    PROVE  i \in Files' /\ FileComplete(i)'
  <1>1. files[i].inFile \in Nat /\ Len(files[i].entries) \in Nat /\ i \in Files'
    BY WalTypes, EntriesKept
  <1>2. files'[i] \in LogFile
    BY <1>1, ElementOfSeq DEF SameEntries, Files
  <1>3. files'[i].inFile \in Nat
    BY <1>2 DEF LogFile
  <1>4. /\ files'[i].entries = files[i].entries /\ files[i].inFile <= files'[i].inFile
        /\ files'[i].inFile <= 2 * Len(files[i].entries)
    BY DEF SameEntries
  <1>5. files[i].inFile = 2 * Len(files[i].entries)
    BY DEF FileComplete
  <1>6. files'[i].inFile = 2 * Len(files[i].entries)
    BY <1>1, <1>3, <1>4, <1>5
  <1> QED  BY <1>1, <1>4, <1>6 DEF FileComplete

(* Nor does it make a file incomplete that had to be complete.             *)
LEMMA FilesKept ==
    ASSUME WalTypeOK, SameEntries, FilesInv
    PROVE  \A i, k \in Files' : \A j \in EntriesOf(i)', l \in EntriesOf(k)' :
             i < k /\ Entry(i, j)'.run = Entry(k, l)'.run => FileComplete(i)'
  BY EntriesKept, CompleteKept DEF FilesInv
-----------------------------------------------------------------------------
(* The first writer starts with an empty file.                             *)
LEMMA WalInitInv == WalInit => WalIInv
  <1> SUFFICES ASSUME WalInit PROVE WalIInv
    OBVIOUS
  <1>1. Len(<<NewFile>>) = 1 /\ <<NewFile>>[1] = NewFile /\ Len(<<0>>) = 1 /\ <<0>>[1] = 0
    OBVIOUS
  <1>2. NewFile \in LogFile /\ Len(NewFile.entries) = 0 /\ NewFile.inFile = 0 /\ Len(<< >>) = 0
    BY EmptySeq DEF NewFile, LogFile
  <1>3. <<NewFile>> \in Seq(LogFile) /\ <<0>> \in Seq(Nat) /\ << >> \in Seq(LogEntry)
    BY <1>2, EmptySeq
  <1>4. WalTypeOK
    BY <1>1, <1>2, <1>3, WalAssumption DEF WalInit, WalTypeOK
  <1>5. Files = {1} /\ EntriesOf(1) = {} /\ files[1] = NewFile /\ CurrentFile = NewFile
    BY <1>1, <1>2 DEF WalInit, Files, EntriesOf, CurrentFile
  <1>6. CurrentRun = 1 /\ appends[CurrentRun] = 0 /\ Len(channel) = 0
    BY <1>1, <1>2 DEF WalInit, CurrentRun
  <1>7. WrittenInOrder /\ WrittenWithoutHoles
    BY <1>5 DEF WrittenInOrder, WrittenWithoutHoles
  <1>8. ChannelInv
    BY <1>5, <1>6, WalAssumption DEF ChannelInv
  <1>9. FilesInv
    BY <1>5, <1>2 DEF FilesInv, WalInit
  <1>10. FullInv
    <2>1. \A s \in Nat : \A run \in 1 .. CurrentRun : ~(s + Pending(run) < appends[run])
      BY <1>6, <1>1 DEF Pending, WalInit
    <2> QED  BY <2>1 DEF FullInv
  <1>11. InHandInv
    BY DEF InHandInv, WalInit
  <1> QED  BY <1>4, <1>7, <1>8, <1>9, <1>10, <1>11 DEF WalIInv
-----------------------------------------------------------------------------
(* The simplest such step leaves the files alone.                          *)
LEMMA FilesUnchanged ==
    ASSUME WalTypeOK, FilesInv, UNCHANGED files, ErrorsKept
    PROVE  SameEntries
  <1>1. Len(files) \in Nat /\ files \in Seq(LogFile)
    BY WalTypes DEF WalTypeOK
  <1>2. \A i \in Files : files[i].inFile \in Nat
    BY WalTypes
  <1> QED  BY <1>1, <1>2 DEF FilesInv, SameEntries, Files

(* What full mode promises is kept when no more of a run is pending.       *)
LEMMA FullKept ==
    ASSUME WalTypeOK, SameEntries, WrittenInOrder, FullInv,
           syncMode' = syncMode, CurrentRun' = CurrentRun,
           \A run \in 1 .. CurrentRun : \A s \in Nat :
              s + Pending(run)' < appends'[run] => s + Pending(run) < appends[run]
    PROVE  FullInv'
  BY WrittenKept DEF FullInv

(* append: the channel continues where it ended.                           *)
LEMMA AppendStep ==
    ASSUME WalIInv, AppendEntry
    PROVE  WalIInv'
  <1>1. WalTypeOK /\ WrittenInOrder /\ WrittenWithoutHoles /\ ChannelInv /\ FilesInv /\ FullInv /\ InHandInv
    BY DEF WalIInv
  <1>c. PICK c \in Nat : c = CurrentRun
    BY <1>1, WalTypes
  <1>n. PICK n \in Nat : n = appends[c]
    BY <1>1, <1>c, WalTypes
  <1>m. PICK m \in Nat : m = Len(channel)
    BY <1>1, WalTypes
  <1> DEFINE new == [run |-> c, seq |-> n]
  <1>2. /\ alive /\ m < ChannelSize /\ channel' = Append(channel, new)
        /\ appends' = [appends EXCEPT ![c] = n + 1]
        /\ UNCHANGED <<syncMode, alive, bytes, written, files, errorVars>>
    BY <1>c, <1>n, <1>m DEF AppendEntry
  <1>3. SameEntries
    BY <1>1, <1>2, FilesUnchanged DEF ErrorsKept, errorVars
  <1>4. c \in Nat \ {0} /\ n \in Nat /\ m \in Nat /\ new \in LogEntry /\ ChannelSize \in Nat
    BY <1>1, <1>c, WalTypes, WalAssumption DEF LogEntry
  <1>5. /\ appends' \in Seq(Nat) /\ Len(appends') = Len(appends)
        /\ \A run \in 1 .. c : run # c => appends'[run] = appends[run]
        /\ appends'[c] = n + 1
    BY <1>1, <1>2, <1>4, <1>c DEF WalTypeOK, CurrentRun
  <1>6. /\ channel' \in Seq(LogEntry) /\ Len(channel') = m + 1 /\ channel'[m + 1] = new
        /\ \A k \in 1 .. m : channel'[k] = channel[k]
    BY <1>1, <1>2, <1>4, <1>m, AppendProperties DEF WalTypeOK
  <1>7. CurrentRun' = c
    BY <1>5, <1>c DEF CurrentRun
  <1>8. MoreAppends
    <2>1. \A run \in 1 .. c : appends[run] \in Nat
      BY <1>1, <1>c, WalTypes
    <2>2. \A run \in 1 .. c : appends[run] <= appends'[run]
      BY <1>4, <1>5, <1>n, <2>1
    <2>3. Len(appends) \in Nat
      BY <1>4, <1>c DEF CurrentRun
    <2> QED  BY <1>5, <1>c, <2>2, <2>3 DEF MoreAppends
  <1>9. WalTypeOK'
    BY <1>1, <1>2, <1>5, <1>6 DEF WalTypeOK
  <1>10. WrittenInOrder' /\ WrittenWithoutHoles'
    BY <1>1, <1>3, <1>8, WrittenKept, NoHolesKept
  <1>11. ChannelInv'
    <2> HIDE DEF new
    <2>1. /\ m <= n
          /\ \A k \in 1 .. m : channel[k] = [run |-> c, seq |-> n - m + k - 1]
          /\ \A i \in Files : \A j \in EntriesOf(i) : Entry(i, j).run = c =>
               Entry(i, j).seq < n - m
          /\ \A s \in Nat : s < n - m => Accounted(c, s)
      BY <1>1, <1>2, <1>c, <1>n, <1>m DEF ChannelInv
    <2>2. Len(channel') <= ChannelSize /\ Len(channel') <= n + 1
      BY <1>2, <1>4, <1>6, <2>1
    <2>3. new = [run |-> c, seq |-> (n + 1) - (m + 1) + (m + 1) - 1]
      BY <1>4 DEF new
    <2>4. \A k \in 1 .. m + 1 : channel'[k] = [run |-> c, seq |-> (n + 1) - (m + 1) + k - 1]
      <3>1. ASSUME NEW k \in 1 .. m
            PROVE  channel'[k] = [run |-> c, seq |-> (n + 1) - (m + 1) + k - 1]
        <4>1. n - m + k - 1 = (n + 1) - (m + 1) + k - 1
          BY <1>4
        <4> QED  BY <1>6, <2>1, <4>1
      <3>2. \A k \in 1 .. m + 1 : k \in 1 .. m \/ k = m + 1
        BY <1>4
      <3> QED  BY <1>6, <2>3, <3>1, <3>2
    <2>5. n - m = (n + 1) - (m + 1)
      BY <1>4
    <2>6. \A i \in Files' : \A j \in EntriesOf(i)' : Entry(i, j)'.run = c =>
               Entry(i, j)'.seq < (n + 1) - (m + 1)
      BY <1>1, <1>3, <2>1, <2>5, EntriesKept
    <2>7. \A s \in Nat : s < (n + 1) - (m + 1) => Accounted(c, s)'
      BY <1>1, <1>3, <2>1, <2>5, WrittenKept
    <2>8. appends'[CurrentRun'] = n + 1
      BY <1>5, <1>7
    <2> QED  BY <1>2, <1>6, <1>7, <2>2, <2>4, <2>6, <2>7, <2>8 DEF ChannelInv
  <1>12. FilesInv'
    <2>1. \A i, k \in Files' : \A j \in EntriesOf(i)', l \in EntriesOf(k)' :
             i < k /\ Entry(i, j)'.run = Entry(k, l)'.run => FileComplete(i)'
      BY <1>1, <1>3, FilesKept
    <2>2. \A i \in Files' : \A j \in EntriesOf(i)' :
             i < Len(files') /\ Entry(i, j)'.run = CurrentRun' /\ alive' => FileComplete(i)'
      BY <1>1, <1>2, <1>3, <1>7, <1>c, EntriesKept, CompleteKept DEF FilesInv
    <2>3. \A i \in Files' : files'[i].inFile <= 2 * Len(files'[i].entries)
      BY <1>1, <1>3, EntriesKept
    <2> QED  BY <1>1, <1>2, <2>1, <2>2, <2>3 DEF FilesInv, CurrentFile
  <1>13. FullInv'
    <2>1. ASSUME NEW run \in 1 .. c, NEW s \in Nat, s + Pending(run)' < appends'[run]
          PROVE  s + Pending(run) < appends[run]
      BY <2>1, <1>1, <1>2, <1>4, <1>5, <1>6, <1>7, <1>c, <1>n, <1>m DEF Pending, WalTypeOK
    <2> QED  BY <1>1, <1>2, <1>3, <1>7, <1>c, <2>1, FullKept
  <1>14. InHandInv'
    <2>1. CurrentFile' = CurrentFile /\ EntryInHand' = EntryInHand
      BY <1>2 DEF CurrentFile, EntryInHand
    <2>2. n - m - 1 = (n + 1) - (m + 1) - 1
      BY <1>4
    <2>3. appends'[CurrentRun'] = n + 1 /\ CurrentRun' = CurrentRun
      BY <1>5, <1>7, <1>c
    <2> HIDE DEF new
    <2> QED  BY <1>1, <1>2, <1>6, <1>c, <1>n, <1>m, <2>1, <2>2, <2>3 DEF InHandInv
  <1> QED  BY <1>9, <1>10, <1>11, <1>12, <1>13, <1>14 DEF WalIInv

(* A step without an append keeps the runs as they are.                    *)
LEMMA AppendsUnchanged ==
    ASSUME WalTypeOK, UNCHANGED appends
    PROVE  MoreAppends /\ CurrentRun' = CurrentRun
  <1>1. Len(appends) \in Nat /\ \A run \in 1 .. CurrentRun : appends[run] \in Nat
    BY WalTypes DEF CurrentRun
  <1> QED  BY <1>1 DEF MoreAppends, WalTypeOK, CurrentRun

(* A step of the background task that writes no entry.                     *)
LEMMA BackgroundKeeps ==
    ASSUME WalIInv, SameEntries, UNCHANGED <<syncMode, alive, appends, channel>>
    PROVE  /\ WrittenInOrder' /\ WrittenWithoutHoles' /\ ChannelInv' /\ CurrentRun' = CurrentRun
           /\ \A i, k \in Files' : \A j \in EntriesOf(i)', l \in EntriesOf(k)' :
                i < k /\ Entry(i, j)'.run = Entry(k, l)'.run => FileComplete(i)'
  <1>1. WalTypeOK /\ WrittenInOrder /\ WrittenWithoutHoles /\ ChannelInv /\ FilesInv
    BY DEF WalIInv
  <1>2. MoreAppends /\ CurrentRun' = CurrentRun
    BY <1>1, AppendsUnchanged
  <1>3. WrittenInOrder' /\ WrittenWithoutHoles'
    BY <1>1, <1>2, WrittenKept, NoHolesKept
  <1>c. PICK c : c = CurrentRun
    OBVIOUS
  <1>4. ChannelInv'
    <2>1. alive' => /\ \A i \in Files' : \A j \in EntriesOf(i)' : Entry(i, j)'.run = CurrentRun' =>
                         Entry(i, j)'.seq < appends'[CurrentRun'] - Len(channel')
      BY <1>1, <1>2, EntriesKept DEF ChannelInv
    <2>2. alive' => \A s \in Nat : s < appends'[CurrentRun'] - Len(channel') => Accounted(c, s)'
      BY <1>1, <1>2, <1>c, WrittenKept DEF ChannelInv
    <2> QED  BY <1>1, <1>2, <1>c, <2>1, <2>2 DEF ChannelInv
  <1> QED  BY <1>1, <1>2, <1>3, <1>4, FilesKept

(* The buffer is spilled, up to some piece.                                *)
LEMMA SpillKeeps ==
    ASSUME WalTypeOK, FilesInv, ErrorsKept, NEW pieces \in Nat,
           CurrentFile.inFile <= pieces, pieces <= 2 * Len(CurrentFile.entries), SpillTo(pieces)
    PROVE  SameEntries /\ Len(files') = Len(files) /\ CurrentFile'.entries = CurrentFile.entries
  <1>L. PICK last \in Nat \ {0} : last = Len(files) /\ last \in Files
    BY WalTypes
  <1>1. files' = [files EXCEPT ![last].inFile = pieces]
    BY <1>L DEF SpillTo
  <1>2. /\ CurrentFile = files[last] /\ files[last] \in LogFile
        /\ files[last].inFile \in Nat /\ Len(files[last].entries) \in Nat
    BY <1>L, WalTypes
  <1>3. files' \in Seq(LogFile) /\ Len(files') = Len(files)
    <2>1. [files[last] EXCEPT !.inFile = pieces] \in LogFile
      BY <1>2 DEF LogFile
    <2> QED  BY <1>1, <1>L, <2>1 DEF WalTypeOK, Files
  <1>4. \A i \in Files : i # last => files'[i] = files[i]
    BY <1>1, <1>L DEF WalTypeOK, Files
  <1>5. files'[last].entries = files[last].entries /\ files'[last].inFile = pieces
    BY <1>1, <1>L, <1>2 DEF WalTypeOK, Files, LogFile
  <1>6. \A i \in Files : files[i].inFile \in Nat /\ files[i].inFile <= 2 * Len(files[i].entries)
    BY WalTypes DEF FilesInv
  <1>7. \A i \in Files : i # last =>
           /\ files'[i].entries = files[i].entries
           /\ files[i].inFile <= files'[i].inFile
           /\ files'[i].inFile <= 2 * Len(files[i].entries)
    BY <1>4, <1>6
  <1>8. /\ files'[last].entries = files[last].entries
        /\ files[last].inFile <= files'[last].inFile
        /\ files'[last].inFile <= 2 * Len(files[last].entries)
    BY <1>2, <1>5
  <1>9. CurrentFile' = files'[last]
    BY <1>3, <1>L DEF CurrentFile
  <1> QED  BY <1>2, <1>3, <1>5, <1>7, <1>8, <1>9, <1>L DEF SameEntries

(* What a step of the task keeps that stays in its file and writes no      *)
(* entry.                                                                  *)
LEMMA SameFileKeeps ==
    ASSUME WalIInv, SameEntries, Len(files') = Len(files), alive,
           UNCHANGED <<syncMode, alive, appends, channel>>, bytes' \in Nat,
           \/ written' = "none"
           \/ written = "length" /\ written' = "data"
    PROVE  /\ WalTypeOK' /\ WrittenInOrder' /\ WrittenWithoutHoles' /\ ChannelInv' /\ FilesInv'
           /\ CurrentRun' = CurrentRun
  <1>1. WalTypeOK /\ FilesInv
    BY DEF WalIInv
  <1>2. WalTypeOK'
    BY <1>1 DEF WalTypeOK, SameEntries
  <1>3. CurrentRun' = CurrentRun
    BY BackgroundKeeps
  <1>4. \A i \in Files' : \A j \in EntriesOf(i)' :
           i < Len(files') /\ Entry(i, j)'.run = CurrentRun' /\ alive' => FileComplete(i)'
    BY <1>1, <1>3, EntriesKept, CompleteKept DEF FilesInv
  <1>5. \A i \in Files' : files'[i].inFile <= 2 * Len(files'[i].entries)
    BY <1>1, EntriesKept
  <1>6. FilesInv'
    BY <1>4, <1>5, BackgroundKeeps DEF FilesInv
  <1> QED  BY <1>2, <1>3, <1>6, BackgroundKeeps

(* The data of an entry is written.                                        *)
LEMMA WriteDataStep ==
    ASSUME WalIInv, WriteData
    PROVE  WalIInv'
  <1>1. WalTypeOK /\ WrittenInOrder /\ FilesInv /\ FullInv /\ InHandInv
    BY DEF WalIInv
  <1>2. PICK spilled \in {CurrentFile.inFile, 2 * Len(CurrentFile.entries) - 1,
                          2 * Len(CurrentFile.entries)} : SpillTo(spilled)
    BY DEF WriteData
  <1>3. /\ alive /\ written = "length" /\ written' = "data" /\ bytes' = bytes + 1
        /\ UNCHANGED <<syncMode, alive, appends, channel, lost, unflushed>>
    BY DEF WriteData, errorVars
  <1>4. PICK o \in Nat : o = CurrentFile.inFile
    BY <1>1, WalTypes
  <1>5. PICK l \in Nat : l = Len(CurrentFile.entries)
    BY <1>1, WalTypes
  <1>6. o + 2 <= 2 * l
    BY <1>1, <1>3, <1>4, <1>5 DEF FilesInv
  <1>7. spilled \in Nat /\ o <= spilled /\ spilled <= 2 * l
    <2>1. spilled = o \/ spilled = 2 * l - 1 \/ spilled = 2 * l
      BY <1>2, <1>4, <1>5
    <2> QED  BY <1>6, <2>1
  <1>8. ErrorsKept
    BY <1>3 DEF ErrorsKept
  <1>9. SameEntries /\ Len(files') = Len(files) /\ CurrentFile'.entries = CurrentFile.entries
    BY <1>1, <1>2, <1>4, <1>5, <1>7, <1>8, SpillKeeps
  <1>10. bytes' \in Nat
    BY <1>1, <1>3 DEF WalTypeOK
  <1>11. /\ WalTypeOK' /\ WrittenInOrder' /\ WrittenWithoutHoles' /\ ChannelInv' /\ FilesInv'
         /\ CurrentRun' = CurrentRun
    BY <1>3, <1>9, <1>10, SameFileKeeps
  <1>12. FullInv'
    <2>1. \A run : Pending(run)' = Pending(run)
      BY <1>3, <1>11 DEF Pending
    <2> QED  BY <1>1, <1>3, <1>9, <1>11, <2>1, FullKept
  <1>13. InHandInv'
    BY <1>1, <1>3, <1>9, <1>11 DEF InHandInv, EntryInHand, Last
  <1> QED  BY <1>11, <1>12, <1>13 DEF WalIInv

(* The task ends with an entry it could not write or flush, or the timer   *)
(* comes between two entries: no entry is forgotten without an error.      *)
LEMMA SpillStep ==
    ASSUME WalIInv, alive, SameEntries, Len(files') = Len(files), written' = "none",
           UNCHANGED <<syncMode, alive, appends, channel, bytes>>,
           written # "none" => EntryInHand \in lost' \cup unflushed'
    PROVE  WalIInv'
  <1>1. WalTypeOK /\ WrittenInOrder /\ FilesInv /\ FullInv /\ InHandInv
    BY DEF WalIInv
  <1>c. PICK c \in Nat \ {0} : c = CurrentRun
    BY <1>1, WalTypes
  <1>n. PICK n \in Nat : n = appends[c]
    BY <1>1, <1>c, WalTypes
  <1>m. PICK m \in Nat : m = Len(channel)
    BY <1>1, WalTypes
  <1>2. /\ WalTypeOK' /\ WrittenInOrder' /\ WrittenWithoutHoles' /\ ChannelInv' /\ FilesInv'
        /\ CurrentRun' = CurrentRun
    <2>1. bytes' \in Nat
      BY <1>1 DEF WalTypeOK
    <2> QED  BY <2>1, SameFileKeeps
  <1>3. FullInv'
    <2> SUFFICES ASSUME syncMode = "full", NEW run \in 1 .. c, NEW s \in Nat,
                        s + Pending(run)' < appends[run]
                 PROVE  Safe(run, s)'
      BY <1>2, <1>c DEF FullInv
    <2>1. CASE s + Pending(run) < appends[run]
      BY <1>1, <1>c, <2>1, WrittenKept DEF FullInv
    <2>2. CASE ~(s + Pending(run) < appends[run])
      <3>1. run = c /\ written # "none"
        BY <1>2, <1>c, <2>2 DEF Pending
      <3>2. Pending(run)' = m /\ Pending(run) = m + 1
        BY <1>2, <1>c, <1>m, <3>1 DEF Pending
      <3>3. s = n - m - 1
        BY <1>n, <2>2, <3>1, <3>2
      <3>4. EntryInHand = [run |-> run, seq |-> s]
        BY <1>1, <1>c, <1>n, <1>m, <3>1, <3>3 DEF InHandInv
      <3> QED  BY <3>1, <3>4 DEF Safe, IsLost, IsUnflushed
    <2> QED  BY <2>1, <2>2
  <1>4. InHandInv'
    BY DEF InHandInv
  <1> QED  BY <1>2, <1>3, <1>4 DEF WalIInv

(* The pieces an error or the timer may have spilled.                      *)
LEMMA SpilledBefore ==
    ASSUME WalTypeOK, FilesInv, ErrorsKept, NEW pieces \in Nat,
           pieces <= 2 * Len(CurrentFile.entries), SpillBefore(pieces)
    PROVE  SameEntries /\ Len(files') = Len(files)
  <1>1. PICK spilled \in CurrentFile.inFile .. pieces : SpillTo(spilled)
    BY DEF SpillBefore
  <1>2. CurrentFile.inFile \in Nat /\ Len(CurrentFile.entries) \in Nat
    BY WalTypes
  <1>3. /\ spilled \in Nat /\ CurrentFile.inFile <= spilled
        /\ spilled <= 2 * Len(CurrentFile.entries)
    BY <1>1, <1>2
  <1> QED  BY <1>1, <1>3, SpillKeeps

LEMMA ErrorSteps ==
    ASSUME WalIInv, DataFails \/ FlushFails \/ TimerFails
    PROVE  WalIInv'
  <1>1. WalTypeOK /\ FilesInv /\ InHandInv
    BY DEF WalIInv
  <1>2. PICK l \in Nat : l = Len(CurrentFile.entries)
    BY <1>1, WalTypes
  <1>3. ErrorsKept
    BY DEF DataFails, FlushFails, TimerFails, ErrorsKept, errorVars
  <1>4. CASE DataFails
    <2>1. l > 0
      BY <1>1, <1>2, <1>4 DEF DataFails, InHandInv
    <2>2. 2 * l - 1 \in Nat /\ 2 * l - 1 <= 2 * l
      BY <2>1
    <2>3. SpillBefore(2 * l - 1)
      BY <1>2, <1>4 DEF DataFails
    <2>4. SameEntries /\ Len(files') = Len(files)
      BY <1>1, <1>2, <1>3, <2>2, <2>3, SpilledBefore
    <2> QED  BY <1>4, <2>4, SpillStep DEF DataFails
  <1>5. CASE FlushFails \/ TimerFails
    <2>1. 2 * l \in Nat /\ 2 * l <= 2 * l /\ SpillBefore(2 * l)
      BY <1>2, <1>5 DEF FlushFails, TimerFails
    <2>2. SameEntries /\ Len(files') = Len(files)
      BY <1>1, <1>2, <1>3, <2>1, SpilledBefore
    <2> QED  BY <1>5, <2>2, SpillStep DEF FlushFails, TimerFails
  <1> QED  BY <1>4, <1>5

FlushedFiles == [files EXCEPT ![Len(files)] = Flushed(@)]

(* A flush moves all of the open file to the disk and nothing else.        *)
LEMMA FlushedFile ==
    ASSUME WalTypeOK, FilesInv
    PROVE  /\ FlushedFiles \in Seq(LogFile) /\ Len(FlushedFiles) = Len(files)
           /\ \A i \in Files : i # Len(files) => FlushedFiles[i] = files[i]
           /\ FlushedFiles[Len(files)].entries = files[Len(files)].entries
           /\ FlushedFiles[Len(files)].inFile = 2 * Len(files[Len(files)].entries)
           /\ \A i \in Files : /\ FlushedFiles[i].entries = files[i].entries
                               /\ files[i].inFile <= FlushedFiles[i].inFile
                               /\ FlushedFiles[i].inFile <= 2 * Len(files[i].entries)
  <1>L. PICK last \in Nat \ {0} : last = Len(files) /\ last \in Files
    BY WalTypes
  <1>1. /\ files[last] \in LogFile
        /\ files[last].inFile \in Nat /\ Len(files[last].entries) \in Nat
    BY <1>L, WalTypes
  <1>2. PICK f \in LogFile : f = Flushed(files[last])
    <2>1. Flushed(files[last]) \in LogFile
      BY <1>1 DEF Flushed, LogFile
    <2> QED  BY <2>1
  <1>3. f.entries = files[last].entries /\ f.inFile = 2 * Len(files[last].entries)
    BY <1>1, <1>2 DEF Flushed, LogFile
  <1>4. /\ FlushedFiles \in Seq(LogFile) /\ Len(FlushedFiles) = Len(files)
        /\ \A i \in Files : i # last => FlushedFiles[i] = files[i]
        /\ FlushedFiles[last] = f
    BY <1>2, <1>L DEF FlushedFiles, WalTypeOK, Files
  <1>5. \A i \in Files : files[i].inFile \in Nat /\ files[i].inFile <= 2 * Len(files[i].entries)
    BY WalTypes DEF FilesInv
  <1>6. \A i \in Files : i # last =>
           /\ FlushedFiles[i].entries = files[i].entries
           /\ files[i].inFile <= FlushedFiles[i].inFile
           /\ FlushedFiles[i].inFile <= 2 * Len(files[i].entries)
    BY <1>4, <1>5
  <1>7. /\ FlushedFiles[last].entries = files[last].entries
        /\ files[last].inFile <= FlushedFiles[last].inFile
        /\ FlushedFiles[last].inFile <= 2 * Len(files[last].entries)
    BY <1>1, <1>3, <1>4, <1>5, <1>L
  <1> QED  BY <1>3, <1>4, <1>6, <1>7, <1>L

(* A new file is a file.                                                   *)
LEMMA NewFileType == NewFile \in LogFile
  BY EmptySeq DEF NewFile, LogFile

(* However the files change: what rotation, flush and restart have in      *)
(* common.                                                                 *)
LEMMA OpenedFiles ==
    ASSUME WalTypeOK, FilesInv, NEW kept \in Seq(LogFile), Len(kept) = Len(files),
           \A i \in Files : /\ kept[i].entries = files[i].entries
                           /\ files[i].inFile <= kept[i].inFile
                           /\ kept[i].inFile <= 2 * Len(files[i].entries),
           files' = kept \/ files' = Append(kept, NewFile), ErrorsKept
    PROVE  SameEntries
  <1>L. PICK last \in Nat : last = Len(files)
    BY WalTypes
  <1>1. CASE files' = kept
    BY <1>1, <1>L DEF SameEntries
  <1>2. CASE files' = Append(kept, NewFile)
    <2>1. /\ files' \in Seq(LogFile) /\ Len(files') = last + 1
          /\ files'[last + 1] = NewFile /\ \A i \in 1 .. last : files'[i] = kept[i]
      BY <1>2, <1>L, NewFileType, AppendProperties
    <2> QED  BY <1>L, <2>1 DEF SameEntries, Files
  <1> QED  BY <1>1, <1>2

(* The task ends with an entry: it rotates, flushes or leaves the file.    *)
LEMMA FinishStep ==
    ASSUME WalIInv, FinishEntry
    PROVE  WalIInv'
  <1>1. WalTypeOK /\ WrittenInOrder /\ WrittenWithoutHoles /\ ChannelInv /\ FilesInv /\ FullInv /\ InHandInv
    BY DEF WalIInv
  <1>L. PICK last \in Nat \ {0} : last = Len(files) /\ last \in Files
    BY <1>1, WalTypes
  <1>2. /\ alive /\ written = "data" /\ written' = "none"
        /\ UNCHANGED <<syncMode, alive, appends, channel, bytes>> /\ ErrorsKept
    BY DEF FinishEntry, ErrorsKept, errorVars
  <1>3. \/ files' = Append(FlushedFiles, NewFile)
        \/ files' = FlushedFiles
        \/ syncMode # "full" /\ files' = files
    BY DEF FinishEntry, Rotate, KeepFile, Flush, FlushedFiles
  <1>4. SameEntries
    <2>1. CASE files' = files
      BY <1>1, <1>2, <2>1, FilesUnchanged
    <2>2. CASE files' = Append(FlushedFiles, NewFile) \/ files' = FlushedFiles
      <3>1. PICK kept \in Seq(LogFile) : kept = FlushedFiles
        BY <1>1, FlushedFile
      <3> QED  BY <1>1, <1>2, <2>2, <3>1, FlushedFile, OpenedFiles
    <2> QED  BY <1>3, <2>1, <2>2
  <1>5. files' # files \/ syncMode = "full" => FileComplete(last)'
    <2>1. CASE files' = Append(FlushedFiles, NewFile)
      <3>1. files'[last] = FlushedFiles[last]
        BY <1>1, <1>L, <2>1, FlushedFile, NewFileType, AppendProperties
      <3> QED  BY <1>1, <1>L, <3>1, FlushedFile DEF FileComplete
    <2>2. CASE files' = FlushedFiles
      BY <1>1, <1>L, <2>2, FlushedFile DEF FileComplete
    <2> QED  BY <1>3, <2>1, <2>2
  <1>6. WalTypeOK'
    <2>1. Len(files') > 0
      BY <1>4, <1>L DEF SameEntries
    <2> QED  BY <1>1, <1>2, <1>4, <2>1 DEF WalTypeOK, SameEntries
  <1>7. FilesInv'
    <2>1. ASSUME NEW i \in Files', NEW j \in EntriesOf(i)', i < Len(files'),
                 Entry(i, j)'.run = CurrentRun'
          PROVE  FileComplete(i)'
      <3>1. i \in Files /\ j \in EntriesOf(i) /\ Entry(i, j).run = CurrentRun
        BY <1>1, <1>2, <1>4, <2>1, BackgroundKeeps, EntriesKept
      <3>2. CASE i < last
        BY <1>1, <1>2, <1>4, <1>L, <3>1, <3>2, CompleteKept DEF FilesInv
      <3>3. CASE i = last
        BY <1>5, <1>L, <2>1, <3>3
      <3> QED  BY <1>L, <3>1, <3>2, <3>3 DEF Files
    <2>2. \A i \in Files' : files'[i].inFile <= 2 * Len(files'[i].entries)
      BY <1>1, <1>4, EntriesKept
    <2> QED  BY <1>2, <1>4, <2>1, <2>2, BackgroundKeeps DEF FilesInv
  <1>8. FullInv'
    <2> SUFFICES ASSUME syncMode = "full", NEW run \in 1 .. CurrentRun, NEW s \in Nat,
                        s + Pending(run)' < appends[run]
                 PROVE  Safe(run, s)'
      BY <1>2, <1>4, BackgroundKeeps DEF FullInv
    <2>0. CurrentRun' = CurrentRun
      BY <1>2, <1>4, BackgroundKeeps
    <2>1. CASE run # CurrentRun
      <3>1. Pending(run)' = Pending(run)
        BY <1>2, <2>0, <2>1 DEF Pending
      <3> QED  BY <1>1, <1>4, <3>1, WrittenKept DEF FullInv
    <2>2. CASE run = CurrentRun
      <3>1. Pending(run)' = Len(channel) /\ Len(channel) \in Nat /\ appends[run] \in Nat
        BY <1>1, <1>2, <2>0, <2>2, WalTypes DEF Pending
      <3>2. s < appends[run] - Len(channel)
        BY <3>1
      <3>3. CASE IsLost(run, s)
        BY <1>4, <3>3 DEF Safe, SameEntries, ErrorsKept, IsLost
      <3>4. CASE Written(run, s)
        <4>1. PICK i \in Files : \E j \in EntriesOf(i) : Entry(i, j) = [run |-> run, seq |-> s]
          BY <3>4 DEF Written
        <4>2. PICK j \in EntriesOf(i) : Entry(i, j) = [run |-> run, seq |-> s]
          BY <4>1
        <4>3. i \in Files' /\ j \in EntriesOf(i)' /\ Entry(i, j)' = [run |-> run, seq |-> s]
          BY <1>1, <1>4, <4>2, EntriesKept
        <4>4. FileComplete(i)'
          <5>1. CASE i < last
            BY <1>1, <1>2, <1>4, <1>L, <2>2, <4>2, <5>1, CompleteKept DEF FilesInv
          <5>2. CASE i = last
            BY <1>5, <5>2
          <5> QED  BY <1>L, <5>1, <5>2 DEF Files
        <4>5. 2 * j <= files'[i].inFile
          <5>1. Len(files'[i].entries) \in Nat /\ j \in 1 .. Len(files'[i].entries)
            BY <1>1, <1>4, WalTypes, <4>2 DEF SameEntries, EntriesOf
          <5> QED  BY <4>4, <5>1 DEF FileComplete
        <4> QED  BY <4>3, <4>5 DEF InFile, Safe
      <3> QED  BY <1>1, <1>2, <2>2, <3>2, <3>3, <3>4 DEF ChannelInv, Accounted
    <2> QED  BY <2>1, <2>2
  <1>9. InHandInv'
    BY <1>2 DEF InHandInv
  <1> QED  BY <1>2, <1>4, <1>6, <1>7, <1>8, <1>9, BackgroundKeeps DEF WalIInv

(* The timer finds the open file and flushes it.                           *)
LEMMA TimerStep ==
    ASSUME WalIInv, TimerFlushes
    PROVE  WalIInv'
  <1>1. WalTypeOK /\ FilesInv
    BY DEF WalIInv
  <1>2. files' = FlushedFiles /\ ErrorsKept
    BY DEF TimerFlushes, Flush, FlushedFiles, ErrorsKept, errorVars
  <1>3. PICK kept \in Seq(LogFile) : kept = FlushedFiles
    BY <1>1, FlushedFile
  <1>4. SameEntries
    BY <1>1, <1>2, <1>3, FlushedFile, OpenedFiles
  <1>5. Len(files') = Len(files)
    BY <1>1, <1>2, FlushedFile
  <1> QED  BY <1>4, <1>5, SpillStep DEF TimerFlushes

(* The process dies: what the channel held is lost, no more than that.     *)
LEMMA DieStep ==
    ASSUME WalIInv, Crash \/ Leave
    PROVE  WalIInv'
  <1>1. WalTypeOK /\ WrittenInOrder /\ WrittenWithoutHoles /\ ChannelInv /\ FilesInv /\ FullInv /\ InHandInv
    BY DEF WalIInv
  <1>2. /\ alive /\ alive' = FALSE /\ channel' = << >> /\ bytes' = 0 /\ written' = "none"
        /\ UNCHANGED <<syncMode, appends>> /\ ErrorsKept
    BY DEF Crash, Leave, Die, ErrorsKept, errorVars
  <1>3. files' = files \/ files' = FlushedFiles
    BY DEF Crash, Leave, Flush, FlushedFiles
  <1>4. SameEntries
    <2>1. CASE files' = files
      BY <1>1, <1>2, <2>1, FilesUnchanged
    <2>2. CASE files' = FlushedFiles
      <3>1. PICK kept \in Seq(LogFile) : kept = FlushedFiles
        BY <1>1, FlushedFile
      <3> QED  BY <1>1, <1>2, <2>2, <3>1, FlushedFile, OpenedFiles
    <2> QED  BY <1>3, <2>1, <2>2
  <1>5. MoreAppends /\ CurrentRun' = CurrentRun
    BY <1>1, <1>2, AppendsUnchanged
  <1>6. channel' \in Seq(LogEntry) /\ Len(channel') = 0
    BY <1>2, EmptySeq
  <1>7. WalTypeOK'
    <2>1. Len(files') > 0
      BY <1>1, <1>4, WalTypes DEF SameEntries
    <2>2. alive' \in BOOLEAN
      BY <1>2
    <2> QED  BY <1>1, <1>2, <1>4, <1>6, <2>1, <2>2 DEF WalTypeOK, SameEntries
  <1>8. WrittenInOrder' /\ WrittenWithoutHoles'
    BY <1>1, <1>4, <1>5, WrittenKept, NoHolesKept
  <1>9. ChannelInv'
    BY <1>2, <1>6, WalAssumption DEF ChannelInv
  <1>10. FilesInv'
    BY <1>1, <1>2, <1>4, FilesKept, EntriesKept DEF FilesInv
  <1>11. FullInv'
    <2>1. ASSUME NEW run \in 1 .. CurrentRun, NEW s \in Nat, s + Pending(run)' < appends'[run]
          PROVE  s + Pending(run) < appends[run]
      <3>1. Pending(run)' = ChannelSize + 1 /\ appends'[run] = appends[run]
        BY <1>2 DEF Pending
      <3>2. Pending(run) \in Nat /\ Pending(run) <= ChannelSize + 1
        BY <1>1, WalTypes, WalAssumption DEF Pending, ChannelInv
      <3>3. appends[run] \in Nat
        BY <1>1, WalTypes
      <3> QED  BY <2>1, <3>1, <3>2, <3>3, WalAssumption
    <2> QED  BY <1>1, <1>2, <1>4, <1>5, <2>1, FullKept
  <1>12. InHandInv'
    BY <1>2 DEF InHandInv
  <1> QED  BY <1>7, <1>8, <1>9, <1>10, <1>11, <1>12 DEF WalIInv

(* A new writer begins a new run in a new file.                            *)
LEMMA RestartStep ==
    ASSUME WalIInv, Restart
    PROVE  WalIInv'
  <1>1. WalTypeOK /\ WrittenInOrder /\ WrittenWithoutHoles /\ ChannelInv /\ FilesInv /\ FullInv /\ InHandInv
    BY DEF WalIInv
  <1>2. /\ ~alive /\ alive' = TRUE /\ appends' = Append(appends, 0)
        /\ files' = Append(files, NewFile)
        /\ UNCHANGED <<syncMode, channel, bytes, written>> /\ ErrorsKept
    BY DEF Restart, ErrorsKept, errorVars
  <1>c. PICK c \in Nat \ {0} : c = CurrentRun
    BY <1>1, WalTypes
  <1>3. SameEntries
    <2>1. \A i \in Files : files[i].inFile \in Nat /\ files[i].inFile <= 2 * Len(files[i].entries)
      BY <1>1, WalTypes DEF FilesInv
    <2>2. PICK kept \in Seq(LogFile) : kept = files
      BY <1>1 DEF WalTypeOK
    <2>3. \A i \in Files : /\ kept[i].entries = files[i].entries
                          /\ files[i].inFile <= kept[i].inFile
                          /\ kept[i].inFile <= 2 * Len(files[i].entries)
      BY <2>1, <2>2
    <2> QED  BY <1>1, <1>2, <2>2, <2>3, OpenedFiles
  <1>4. /\ appends' \in Seq(Nat) /\ Len(appends') = c + 1 /\ appends'[c + 1] = 0
        /\ \A run \in 1 .. c : appends'[run] = appends[run]
    BY <1>1, <1>2, <1>c, AppendProperties DEF WalTypeOK, CurrentRun
  <1>5. CurrentRun' = c + 1
    BY <1>4 DEF CurrentRun
  <1>6. MoreAppends
    <2>1. \A run \in 1 .. c : appends[run] \in Nat
      BY <1>1, <1>c, WalTypes
    <2>2. Len(appends) <= Len(appends')
      BY <1>4, <1>c DEF CurrentRun
    <2> QED  BY <1>4, <1>c, <2>1, <2>2 DEF MoreAppends
  <1>7. WalTypeOK'
    <2>1. Len(files') > 0
      BY <1>1, <1>3, WalTypes DEF SameEntries
    <2>2. alive' \in BOOLEAN
      BY <1>2
    <2> QED  BY <1>1, <1>2, <1>3, <1>4, <2>1, <2>2 DEF WalTypeOK, SameEntries
  <1>8. WrittenInOrder' /\ WrittenWithoutHoles'
    BY <1>1, <1>3, <1>6, WrittenKept, NoHolesKept
  <1>9. \A i \in Files' : \A j \in EntriesOf(i)' : Entry(i, j)'.run # CurrentRun'
    <2>1. \A i \in Files : \A j \in EntriesOf(i) : Entry(i, j).run \in 1 .. c
      BY <1>1, <1>c DEF WrittenWithoutHoles
    <2> QED  BY <1>1, <1>3, <1>5, <2>1, EntriesKept
  <1>10. ChannelInv'
    <2>1. channel' = << >> /\ Len(channel') = 0
      BY <1>1, <1>2, EmptySeq DEF ChannelInv
    <2>2. appends'[CurrentRun'] = 0
      BY <1>4, <1>5
    <2>3. ChannelSize \in Nat /\ Len(channel') <= ChannelSize
      BY <2>1, WalAssumption
    <2>4. alive'
      BY <1>2
    <2> QED  BY <1>9, <2>1, <2>2, <2>3, <2>4 DEF ChannelInv
  <1>11. FilesInv'
    <2>1. written' = "none"
      BY <1>1, <1>2 DEF FilesInv
    <2> QED  BY <1>1, <1>3, <1>9, <2>1, FilesKept, EntriesKept DEF FilesInv
  <1>12. FullInv'
    <2> SUFFICES ASSUME syncMode = "full", NEW run \in 1 .. c + 1, NEW s \in Nat,
                        s + Pending(run)' < appends'[run]
                 PROVE  Safe(run, s)'
      BY <1>2, <1>5 DEF FullInv
    <2>1. Pending(run)' \in Nat
      <3>1. Len(channel) \in Nat /\ ChannelSize \in Nat
        BY <1>1, WalTypes, WalAssumption
      <3> QED  BY <1>2, <3>1 DEF Pending
    <2>2. run # c + 1
      BY <1>4, <2>1
    <2>3. run \in 1 .. c
      BY <2>2, <1>c
    <2>4. Pending(run)' = ChannelSize + 1 /\ Pending(run) = ChannelSize + 1
      BY <1>2, <1>5, <2>2 DEF Pending
    <2>5. s + Pending(run) < appends[run]
      BY <1>4, <2>3, <2>4
    <2>6. Safe(run, s)
      BY <1>1, <1>c, <2>3, <2>5 DEF FullInv
    <2> QED  BY <1>1, <1>3, <2>6, WrittenKept
  <1>13. InHandInv'
    BY <1>1, <1>2 DEF InHandInv, FilesInv
  <1> QED  BY <1>7, <1>8, <1>10, <1>11, <1>12, <1>13 DEF WalIInv

(* The head of the channel becomes the last entry of the open file.        *)
LEMMA LengthStep ==
    ASSUME WalIInv, WriteLength
    PROVE  WalIInv'
  <1>1. WalTypeOK /\ WrittenInOrder /\ WrittenWithoutHoles /\ ChannelInv /\ FilesInv /\ FullInv /\ InHandInv
    BY DEF WalIInv
  <1>L. PICK last \in Nat \ {0} : last = Len(files) /\ last \in Files
    BY <1>1, WalTypes
  <1>c. PICK c \in Nat \ {0} : c = CurrentRun
    BY <1>1, WalTypes
  <1>n. PICK n \in Nat : n = appends[c]
    BY <1>1, <1>c, WalTypes
  <1>m. PICK m \in Nat : m = Len(channel)
    BY <1>1, WalTypes
  <1>E. PICK old \in Seq(LogEntry) : old = files[last].entries
    BY <1>1, <1>L, WalTypes
  <1>e. PICK e \in LogEntry : e = Head(channel)
    BY <1>1, HeadTailProperties DEF WriteLength, WalTypeOK
  <1>2. PICK spilled \in {files[last].inFile, 2 * Len(old)} :
          files' = [files EXCEPT ![last] = [entries |-> Append(old, e), inFile |-> spilled]]
    BY <1>L, <1>E, <1>e DEF WriteLength, CurrentFile
  <1>3. /\ alive /\ written = "none" /\ channel # << >> /\ written' = "length"
        /\ channel' = Tail(channel) /\ UNCHANGED <<syncMode, alive, appends, bytes>>
        /\ UNCHANGED <<lost, unflushed>>
    BY DEF WriteLength, errorVars
  <1>4. m > 0 /\ m <= n /\ e = [run |-> c, seq |-> n - m] /\ n - m \in Nat
    <2>1. m > 0 /\ Head(channel) = channel[1]
      BY <1>1, <1>3, <1>m DEF WalTypeOK
    <2>2. m <= n /\ channel[1] = [run |-> c, seq |-> n - m + 1 - 1]
      BY <1>1, <1>3, <1>c, <1>n, <1>m, <2>1 DEF ChannelInv
    <2>3. n - m \in Nat /\ n - m + 1 - 1 = n - m
      BY <2>2
    <2> QED  BY <1>e, <2>1, <2>2, <2>3
  <1>5. PICK size \in Nat : size = Len(old)
    OBVIOUS
  <1>6. spilled \in Nat /\ files[last].inFile <= spilled /\ spilled <= 2 * size
    <2>1. files[last].inFile \in Nat
      BY <1>1, <1>L, WalTypes
    <2>2. files[last].inFile <= 2 * size
      BY <1>1, <1>5, <1>E, <1>L DEF FilesInv
    <2>3. spilled = files[last].inFile \/ spilled = 2 * size
      BY <1>2, <1>5
    <2> QED  BY <2>1, <2>2, <2>3
  <1>7. PICK grown \in LogFile : grown = [entries |-> Append(old, e), inFile |-> spilled]
    <2>1. Append(old, e) \in Seq(LogEntry)
      BY AppendProperties
    <2> QED  BY <1>6, <2>1 DEF LogFile
  <1>8. /\ Len(grown.entries) = size + 1 /\ grown.entries[size + 1] = e /\ grown.inFile = spilled
        /\ \A j \in 1 .. size : grown.entries[j] = old[j]
    BY <1>5, <1>7, AppendProperties
  <1>9. /\ files' \in Seq(LogFile) /\ Len(files') = last /\ files'[last] = grown
        /\ \A i \in Files : i # last => files'[i] = files[i]
    BY <1>1, <1>2, <1>7, <1>L DEF WalTypeOK, Files
  <1>10. /\ Files' = Files
         /\ \A i \in Files : i # last =>
              EntriesOf(i)' = EntriesOf(i) /\ \A j \in EntriesOf(i) : Entry(i, j)' = Entry(i, j)
    BY <1>9, <1>L DEF Files, EntriesOf, Entry
  <1>11. /\ EntriesOf(last) = 1 .. size /\ EntriesOf(last)' = 1 .. size + 1
         /\ \A j \in 1 .. size : Entry(last, j)' = Entry(last, j)
         /\ Entry(last, size + 1)' = e
    BY <1>5, <1>8, <1>9, <1>E DEF EntriesOf, Entry
  <1> DEFINE Old(i, j) == i \in Files /\ j \in EntriesOf(i) /\ Entry(i, j)' = Entry(i, j)
             New(i, j) == i = last /\ j = size + 1 /\ Entry(i, j)' = e
  <1>12. \A i \in Files' : \A j \in EntriesOf(i)' : Old(i, j) \/ New(i, j)
    <2>1. \A j \in 1 .. size + 1 : j \in 1 .. size \/ j = size + 1
      OBVIOUS
    <2> QED  BY <1>10, <1>11, <2>1
  <1>13. \A i \in Files : \A j \in EntriesOf(i) :
            i \in Files' /\ j \in EntriesOf(i)' /\ Entry(i, j)' = Entry(i, j)
    <2>1. \A j \in 1 .. size : j \in 1 .. size + 1
      OBVIOUS
    <2> QED  BY <1>10, <1>11, <2>1
  <1>14. \A run, s : Accounted(run, s) => Accounted(run, s)'
    BY <1>3, <1>13 DEF Accounted, Written, IsLost
  <1>15. Accounted(c, n - m)'
    <2>1. last \in Files' /\ size + 1 \in EntriesOf(last)'
      BY <1>10, <1>11, <1>L
    <2> QED  BY <1>4, <1>11, <2>1 DEF Accounted, Written
  <1>16. CurrentRun' = c
    BY <1>3, <1>c DEF CurrentRun
  <1>17. PICK rest \in Seq(LogEntry) : /\ rest = Tail(channel) /\ Len(rest) = m - 1
                                     /\ \A k \in 1 .. m - 1 : rest[k] = channel[k + 1]
    <2>1. channel \in Seq(LogEntry) /\ channel # << >>
      BY <1>1, <1>3 DEF WalTypeOK
    <2>2. /\ Tail(channel) \in Seq(LogEntry) /\ Len(Tail(channel)) = Len(channel) - 1
          /\ \A k \in 1 .. Len(Tail(channel)) : Tail(channel)[k] = channel[k + 1]
      BY <2>1, HeadTailProperties
    <2>3. Len(Tail(channel)) = m - 1
      BY <1>m, <2>2
    <2> QED  BY <2>2, <2>3
  <1>18. WalTypeOK'
    BY <1>1, <1>3, <1>9, <1>17 DEF WalTypeOK
  <1>19. WrittenInOrder'
    <2> SUFFICES ASSUME NEW i \in Files', NEW k \in Files',
                        NEW j \in EntriesOf(i)', NEW l \in EntriesOf(k)',
                        i < k \/ (i = k /\ j < l)
                 PROVE  Earlier(Entry(i, j), Entry(k, l))'
      BY DEF WrittenInOrder
    <2>1. CASE Old(i, j) /\ Old(k, l)
      BY <1>1, <2>1 DEF WrittenInOrder, Earlier
    <2>2. CASE Old(i, j) /\ New(k, l)
      <3>1. PICK d \in LogEntry : d = Entry(i, j)
        BY <1>1, <2>2, WalTypes
      <3>2. d.run \in 1 .. c /\ (d.run = c => d.seq < n - m)
        BY <1>1, <1>3, <1>c, <1>n, <1>m, <2>2, <3>1 DEF ChannelInv, WrittenWithoutHoles
      <3>3. Entry(i, j)' = d /\ Entry(k, l)' = e
        BY <2>2, <3>1
      <3>4. Earlier(d, e)
        BY <1>4, <3>2 DEF Earlier
      <3> QED  BY <3>3, <3>4 DEF Earlier
    <2>3. CASE New(i, j)
      <3>1. k \in 1 .. last /\ (k = last => l \in 1 .. size + 1)
        BY <1>10, <1>11, <1>L DEF Files
      <3> QED  BY <2>3, <3>1
    <2> QED  BY <1>12, <2>1, <2>2, <2>3
  <1>20. WrittenWithoutHoles'
    <2> SUFFICES ASSUME NEW i \in Files', NEW j \in EntriesOf(i)'
                 PROVE  (/\ Entry(i, j).run \in 1 .. CurrentRun
                         /\ Entry(i, j).seq < appends[Entry(i, j).run]
                         /\ \A s \in Nat : s < Entry(i, j).seq => Accounted(Entry(i, j).run, s))'
      BY DEF WrittenWithoutHoles
    <2>1. CASE Old(i, j)
      <3>1. PICK d \in LogEntry : d = Entry(i, j)
        BY <1>1, <2>1, WalTypes
      <3>2. /\ d.run \in 1 .. c /\ d.seq < appends[d.run]
            /\ \A s \in Nat : s < d.seq => Accounted(d.run, s)
        BY <1>1, <1>c, <2>1, <3>1 DEF WrittenWithoutHoles
      <3>3. Entry(i, j)' = d /\ \A s \in Nat : s < d.seq => Accounted(d.run, s)'
        BY <1>14, <2>1, <3>1, <3>2
      <3> QED  BY <1>3, <1>16, <3>2, <3>3
    <2>2. CASE New(i, j)
      <3>1. c \in 1 .. c /\ n - m < n
        BY <1>4
      <3>2. \A s \in Nat : s < n - m => Accounted(c, s)'
        BY <1>1, <1>3, <1>14, <1>c, <1>n, <1>m DEF ChannelInv
      <3>3. e.run = c /\ e.seq = n - m
        BY <1>4
      <3>4. e.run \in 1 .. CurrentRun' /\ e.seq < appends'[e.run]
        BY <1>3, <1>16, <1>n, <3>1, <3>3
      <3>5. \A s \in Nat : s < e.seq => Accounted(e.run, s)'
        BY <3>2, <3>3
      <3> QED  BY <2>2, <3>4, <3>5
    <2> QED  BY <1>12, <2>1, <2>2
  <1>21. ChannelInv'
    <2>1. /\ \A k \in 1 .. m : channel[k] = [run |-> c, seq |-> n - m + k - 1]
          /\ \A i \in Files : \A j \in EntriesOf(i) : Entry(i, j).run = c =>
               Entry(i, j).seq < n - m
          /\ \A s \in Nat : s < n - m => Accounted(c, s)
          /\ m <= ChannelSize
      BY <1>1, <1>3, <1>c, <1>n, <1>m DEF ChannelInv
    <2>2. m - 1 <= ChannelSize /\ m - 1 <= n
      BY <1>4, <2>1, WalAssumption
    <2>3. ASSUME NEW k \in 1 .. m - 1
          PROVE  rest[k] = [run |-> c, seq |-> n - (m - 1) + k - 1]
      <3>1. k + 1 \in 1 .. m /\ n - m + (k + 1) - 1 = n - (m - 1) + k - 1
        BY <1>4
      <3> QED  BY <1>17, <2>1, <3>1
    <2>4. ASSUME NEW i \in Files', NEW j \in EntriesOf(i)', Entry(i, j)'.run = c
          PROVE  Entry(i, j)'.seq < n - (m - 1)
      <3>1. CASE Old(i, j)
        <4>1. Entry(i, j).seq < n - m /\ Entry(i, j).seq \in Nat
          BY <1>1, <2>1, <2>4, <3>1, WalTypes
        <4> QED  BY <3>1, <4>1
      <3>2. CASE New(i, j)
        BY <1>4, <3>2
      <3> QED  BY <1>12, <3>1, <3>2
    <2>5. ASSUME NEW s \in Nat, s < n - (m - 1)
          PROVE  Accounted(c, s)'
      <3>1. s < n - m \/ s = n - m
        BY <2>5
      <3> QED  BY <1>14, <1>15, <2>1, <3>1
    <2>6. appends'[CurrentRun'] = n /\ channel' = rest
      BY <1>3, <1>16, <1>17, <1>n
    <2> QED  BY <1>3, <1>16, <1>17, <2>2, <2>3, <2>4, <2>5, <2>6 DEF ChannelInv
  <1>22. FilesInv'
    <2>1. \A i \in Files' : files'[i].inFile <= 2 * Len(files'[i].entries)
      <3>1. \A i \in Files : i # last => files'[i].inFile <= 2 * Len(files'[i].entries)
        BY <1>1, <1>9 DEF FilesInv
      <3>2. files'[last].inFile <= 2 * Len(files'[last].entries)
        BY <1>6, <1>8, <1>9
      <3> QED  BY <1>10, <3>1, <3>2
    <2>2. CurrentFile'.inFile + 2 <= 2 * Len(CurrentFile'.entries)
      <3>1. CurrentFile' = grown
        BY <1>9 DEF CurrentFile
      <3>2. spilled + 2 <= 2 * (size + 1)
        BY <1>6
      <3> QED  BY <1>8, <3>1, <3>2
    <2>3. \A i \in Files : i < last => (FileComplete(i) => FileComplete(i)')
      <3>1. \A i \in Files : i < last => i # last
        BY <1>L DEF Files
      <3> QED  BY <1>9, <3>1 DEF FileComplete
    <2>4. \A i \in Files' : i \in 1 .. last
      BY <1>10, <1>L DEF Files
    <2>5. ASSUME NEW i \in Files', NEW k \in Files',
                 NEW j \in EntriesOf(i)', NEW l \in EntriesOf(k)',
                 i < k, Entry(i, j)'.run = Entry(k, l)'.run
          PROVE  FileComplete(i)'
      <3>1. Old(i, j) /\ i < last
        BY <1>12, <1>L, <2>4, <2>5
      <3>2. CASE Old(k, l)
        BY <1>1, <2>3, <2>5, <3>1, <3>2 DEF FilesInv
      <3>3. CASE New(k, l)
        <4>1. Entry(i, j).run = c
          BY <1>4, <2>5, <3>1, <3>3
        <4> QED  BY <1>1, <1>3, <1>L, <1>c, <2>3, <3>1, <4>1 DEF FilesInv
      <3> QED  BY <1>12, <3>2, <3>3
    <2>6. ASSUME NEW i \in Files', NEW j \in EntriesOf(i)', i < last, Entry(i, j)'.run = c
          PROVE  FileComplete(i)'
      <3>1. Old(i, j)
        BY <1>12, <2>6
      <3> QED  BY <1>1, <1>3, <1>L, <1>c, <2>3, <2>6, <3>1 DEF FilesInv
    <2> HIDE DEF Old, New
    <2> QED  BY <1>3, <1>9, <1>16, <2>1, <2>2, <2>5, <2>6 DEF FilesInv
  <1>23. FullInv'
    <2> SUFFICES ASSUME syncMode = "full", NEW run \in 1 .. c, NEW s \in Nat,
                        s + Pending(run)' < appends[run]
                 PROVE  Safe(run, s)'
      BY <1>3, <1>16 DEF FullInv
    <2>1. Pending(run)' = Pending(run)
      <3>1. Len(channel') = m - 1
        BY <1>3, <1>17
      <3> QED  BY <1>3, <1>16, <1>c, <1>m, <1>4, <3>1 DEF Pending
    <2>2. Safe(run, s)
      BY <1>1, <1>c, <2>1 DEF FullInv
    <2>3. CASE IsLost(run, s) \/ IsUnflushed(run, s)
      BY <1>3, <2>3 DEF Safe, IsLost, IsUnflushed
    <2>4. CASE InFile(run, s)
      <3>1. PICK i \in Files : \E j \in EntriesOf(i) :
              2 * j <= files[i].inFile /\ Entry(i, j) = [run |-> run, seq |-> s]
        BY <2>4 DEF InFile
      <3>2. PICK j \in EntriesOf(i) :
              2 * j <= files[i].inFile /\ Entry(i, j) = [run |-> run, seq |-> s]
        BY <3>1
      <3>3. 2 * j <= files'[i].inFile
        <4>1. CASE i = last
          <5>1. j \in Nat /\ files[last].inFile \in Nat /\ files'[last].inFile = spilled
            BY <1>1, <1>5, <1>8, <1>9, <1>11, <1>L, <4>1, WalTypes
          <5> QED  BY <1>6, <3>2, <4>1, <5>1
        <4>2. CASE i # last
          BY <1>9, <3>2, <4>2
        <4> QED  BY <4>1, <4>2
      <3> QED  BY <1>13, <3>2, <3>3 DEF InFile, Safe
    <2> QED  BY <2>2, <2>3, <2>4 DEF Safe
  <1>24. InHandInv'
    <2>1. CurrentFile' = grown
      BY <1>9 DEF CurrentFile
    <2>2. EntryInHand' = e /\ Len(CurrentFile'.entries) > 0
      BY <1>8, <2>1 DEF EntryInHand, Last
    <2>3. appends'[CurrentRun'] = n /\ Len(channel') = m - 1 /\ n - m = n - (m - 1) - 1
      BY <1>3, <1>4, <1>16, <1>17, <1>n
    <2> QED  BY <1>4, <1>16, <2>2, <2>3 DEF InHandInv
  <1> QED  BY <1>18, <1>19, <1>20, <1>21, <1>22, <1>23, <1>24 DEF WalIInv

(* The head of the channel is lost.                                        *)
LEMMA LengthFailsStep ==
    ASSUME WalIInv, LengthFails
    PROVE  WalIInv'
  <1>1. WalTypeOK /\ WrittenInOrder /\ WrittenWithoutHoles /\ ChannelInv /\ FilesInv /\ FullInv /\ InHandInv
    BY DEF WalIInv
  <1>c. PICK c \in Nat \ {0} : c = CurrentRun
    BY <1>1, WalTypes
  <1>n. PICK n \in Nat : n = appends[c]
    BY <1>1, <1>c, WalTypes
  <1>m. PICK m \in Nat : m = Len(channel)
    BY <1>1, WalTypes
  <1>2. /\ alive /\ written = "none" /\ channel # << >> /\ channel' = Tail(channel)
        /\ lost' = lost \cup {Head(channel)} /\ ErrorsKept
        /\ UNCHANGED <<syncMode, alive, appends, bytes, written, unflushed>>
    BY DEF LengthFails, ErrorsKept
  <1>3. SameEntries /\ Len(files') = Len(files)
    <2>1. PICK pieces \in Nat : pieces = 2 * Len(CurrentFile.entries)
      BY <1>1, WalTypes
    <2>2. SpillBefore(pieces) /\ pieces <= 2 * Len(CurrentFile.entries)
      BY <2>1 DEF LengthFails
    <2> QED  BY <1>1, <1>2, <2>2, SpilledBefore
  <1>4. m > 0 /\ m <= n /\ Head(channel) = [run |-> c, seq |-> n - m] /\ n - m \in Nat
    <2>1. m > 0 /\ Head(channel) = channel[1]
      BY <1>1, <1>2, <1>m DEF WalTypeOK
    <2>2. m <= n /\ channel[1] = [run |-> c, seq |-> n - m + 1 - 1]
      BY <1>1, <1>2, <1>c, <1>n, <1>m, <2>1 DEF ChannelInv
    <2>3. n - m \in Nat /\ n - m + 1 - 1 = n - m
      BY <2>2
    <2> QED  BY <2>1, <2>2, <2>3
  <1>5. PICK rest \in Seq(LogEntry) : /\ rest = Tail(channel) /\ Len(rest) = m - 1
                                    /\ \A k \in 1 .. m - 1 : rest[k] = channel[k + 1]
    <2>1. channel \in Seq(LogEntry) /\ channel # << >>
      BY <1>1, <1>2 DEF WalTypeOK
    <2>2. /\ Tail(channel) \in Seq(LogEntry) /\ Len(Tail(channel)) = Len(channel) - 1
          /\ \A k \in 1 .. Len(Tail(channel)) : Tail(channel)[k] = channel[k + 1]
      BY <2>1, HeadTailProperties
    <2>3. Len(Tail(channel)) = m - 1
      BY <1>m, <2>2
    <2> QED  BY <2>2, <2>3
  <1>6. MoreAppends /\ CurrentRun' = c
    BY <1>1, <1>2, <1>c, AppendsUnchanged
  <1>7. WrittenInOrder' /\ WrittenWithoutHoles'
    BY <1>1, <1>3, <1>6, WrittenKept, NoHolesKept
  <1>8. WalTypeOK'
    BY <1>1, <1>2, <1>3, <1>5 DEF WalTypeOK, SameEntries
  <1>9. ChannelInv'
    <2>1. /\ \A k \in 1 .. m : channel[k] = [run |-> c, seq |-> n - m + k - 1]
          /\ \A i \in Files : \A j \in EntriesOf(i) : Entry(i, j).run = c =>
               Entry(i, j).seq < n - m
          /\ \A s \in Nat : s < n - m => Accounted(c, s)
          /\ m <= ChannelSize
      BY <1>1, <1>2, <1>c, <1>n, <1>m DEF ChannelInv
    <2>2. m - 1 <= ChannelSize /\ m - 1 <= n
      BY <1>4, <2>1, WalAssumption
    <2>3. ASSUME NEW k \in 1 .. m - 1
          PROVE  rest[k] = [run |-> c, seq |-> n - (m - 1) + k - 1]
      <3>1. k + 1 \in 1 .. m /\ n - m + (k + 1) - 1 = n - (m - 1) + k - 1
        BY <1>4
      <3> QED  BY <1>5, <2>1, <3>1
    <2>4. ASSUME NEW i \in Files', NEW j \in EntriesOf(i)', Entry(i, j)'.run = c
          PROVE  Entry(i, j)'.seq < n - (m - 1)
      <3>1. i \in Files /\ j \in EntriesOf(i) /\ Entry(i, j)' = Entry(i, j)
        BY <1>1, <1>3, EntriesKept
      <3>2. Entry(i, j).seq < n - m /\ Entry(i, j).seq \in Nat
        BY <1>1, <2>1, <2>4, <3>1, WalTypes
      <3> QED  BY <3>1, <3>2
    <2>5. ASSUME NEW s \in Nat, s < n - (m - 1)
          PROVE  Accounted(c, s)'
      <3>1. s < n - m \/ s = n - m
        BY <2>5
      <3>2. CASE s = n - m
        BY <1>2, <1>4, <3>2 DEF Accounted, IsLost
      <3>3. CASE s < n - m
        BY <1>1, <1>3, <2>1, <3>3, WrittenKept
      <3> QED  BY <3>1, <3>2, <3>3
    <2>6. appends'[CurrentRun'] = n /\ channel' = rest
      BY <1>2, <1>5, <1>6, <1>c, <1>n
    <2> QED  BY <1>2, <1>5, <1>6, <2>2, <2>3, <2>4, <2>5, <2>6 DEF ChannelInv
  <1>10. FilesInv'
    <2>1. \A i \in Files' : \A j \in EntriesOf(i)' :
             i < Len(files') /\ Entry(i, j)'.run = CurrentRun' /\ alive' => FileComplete(i)'
      BY <1>1, <1>2, <1>3, <1>6, <1>c, EntriesKept, CompleteKept DEF FilesInv
    <2>2. \A i \in Files' : files'[i].inFile <= 2 * Len(files'[i].entries)
      BY <1>1, <1>3, EntriesKept
    <2> QED  BY <1>1, <1>2, <1>3, <2>1, <2>2, FilesKept DEF FilesInv
  <1>11. FullInv'
    <2> SUFFICES ASSUME syncMode = "full", NEW run \in 1 .. c, NEW s \in Nat,
                        s + Pending(run)' < appends[run]
                 PROVE  Safe(run, s)'
      BY <1>2, <1>6 DEF FullInv
    <2>1. CASE run # c
      <3>1. Pending(run)' = Pending(run)
        BY <1>2, <1>6, <1>c, <2>1 DEF Pending
      <3> QED  BY <1>1, <1>3, <1>c, <3>1, WrittenKept DEF FullInv
    <2>2. CASE run = c
      <3>1. Pending(run) = m /\ Pending(run)' = m - 1
        BY <1>2, <1>5, <1>6, <1>c, <1>m, <1>4, <2>2 DEF Pending
      <3>2. s + m < n \/ s = n - m
        BY <1>4, <1>n, <2>2, <3>1
      <3>3. CASE s + m < n
        BY <1>1, <1>3, <1>c, <1>n, <2>2, <3>1, <3>3, WrittenKept DEF FullInv
      <3>4. CASE s = n - m
        BY <1>2, <1>4, <2>2, <3>4 DEF Safe, IsLost
      <3> QED  BY <3>2, <3>3, <3>4
    <2> QED  BY <2>1, <2>2
  <1>12. InHandInv'
    BY <1>2 DEF InHandInv
  <1> QED  BY <1>7, <1>8, <1>9, <1>10, <1>11, <1>12 DEF WalIInv

(* Every step of the log keeps the invariant.                              *)
LEMMA WalStep ==
    ASSUME WalIInv, [WalNext]_walVars
    PROVE  WalIInv'
  <1>1. CASE AppendEntry
    BY <1>1, AppendStep
  <1>2. CASE WriteLength
    BY <1>2, LengthStep
  <1>3. CASE WriteData
    BY <1>3, WriteDataStep
  <1>4. CASE FinishEntry
    BY <1>4, FinishStep
  <1>5. CASE Crash \/ Leave
    BY <1>5, DieStep
  <1>6. CASE Restart
    BY <1>6, RestartStep
  <1>8. CASE LengthFails
    BY <1>8, LengthFailsStep
  <1>9. CASE DataFails \/ FlushFails \/ TimerFails
    BY <1>9, ErrorSteps
  <1>10. CASE TimerFlushes
    BY <1>10, TimerStep
  <1>7. CASE UNCHANGED walVars
    <2>1. UNCHANGED <<syncMode, alive, appends, channel, bytes, written, files, lost, unflushed>>
      BY <1>7 DEF walVars, errorVars
    <2>2. WalTypeOK /\ FilesInv /\ SameEntries /\ WrittenInOrder /\ FullInv /\ InHandInv
      BY <2>1, FilesUnchanged DEF WalIInv, ErrorsKept
    <2>3. WalTypeOK'
      BY <2>1, <2>2 DEF WalTypeOK
    <2>4. FilesInv'
      <3>1. /\ Files' = Files /\ CurrentFile' = CurrentFile /\ CurrentRun' = CurrentRun
            /\ \A i : EntriesOf(i)' = EntriesOf(i) /\ FileComplete(i)' = FileComplete(i)
            /\ \A i, j : Entry(i, j)' = Entry(i, j)
        BY <2>1 DEF Files, EntriesOf, Entry, FileComplete, CurrentFile, CurrentRun
      <3> QED  BY <2>1, <2>2, <3>1 DEF FilesInv
    <2>5. FullInv'
      <3>1. CurrentRun' = CurrentRun /\ \A run : Pending(run)' = Pending(run)
        BY <2>1 DEF Pending, CurrentRun
      <3> QED  BY <2>1, <2>2, <3>1, FullKept
    <2>6. InHandInv'
      BY <2>1, <2>2 DEF InHandInv, EntryInHand, CurrentFile, CurrentRun
    <2> QED  BY <2>1, <2>2, <2>3, <2>4, <2>5, <2>6, BackgroundKeeps DEF WalIInv
  <1> QED  BY <1>1, <1>2, <1>3, <1>4, <1>5, <1>6, <1>7, <1>8, <1>9, <1>10 DEF WalNext, Writer

(* A reader that stops at a torn file sees no hole.                        *)
LEMMA WalReplays ==
    ASSUME WalIInv
    PROVE  ReplayFollowsAppends
  <1>1. WalTypeOK /\ WrittenInOrder /\ WrittenWithoutHoles /\ ChannelInv /\ FilesInv /\ FullInv /\ InHandInv
    BY DEF WalIInv
  <1>2. DOMAIN files = Files /\ DOMAIN appends = 1 .. CurrentRun
    BY <1>1 DEF WalTypeOK, Files, CurrentRun
  <1>3. \A i \in Files : DOMAIN files[i].entries = EntriesOf(i)
    BY <1>1, WalTypes DEF EntriesOf
  <1>4. FilesRead \subseteq Files
    BY <1>2 DEF FilesRead
  <1>5. \A i \in Files : Readable(i) =
           {j \in EntriesOf(i) : 2 * j <= files[i].inFile /\ \A k \in 1 .. j : Entry(i, k) \notin lost}
    BY <1>3 DEF Readable
  <1>b. \A i \in Files : \A j, k \in EntriesOf(i) :
           ~Broken(i) /\ 2 * j <= files[i].inFile /\ k <= j => Entry(i, k) \notin lost
    <2>1. \A i \in Files : files[i].inFile \in Nat /\ \A j \in EntriesOf(i) : j \in Nat
      BY <1>1, WalTypes DEF EntriesOf
    <2>2. \A i \in Files : \A j, k \in EntriesOf(i) :
             2 * j <= files[i].inFile /\ k <= j => 2 * k <= files[i].inFile + 1
      BY <2>1
    <2> QED  BY <1>3, <2>2 DEF Broken
  <1>6. \A i, k \in FilesRead : \A j \in Readable(i), l \in Readable(k) :
           i < k \/ (i = k /\ j < l) => Earlier(Entry(i, j), Entry(k, l))
    BY <1>1, <1>4, <1>5 DEF WrittenInOrder
  <1>7. ASSUME NEW i \in FilesRead, NEW j \in Readable(i), NEW s \in Nat, s < Entry(i, j).seq
        PROVE  Replayed(Entry(i, j).run, s) \/ [run |-> Entry(i, j).run, seq |-> s] \in lost
    <2>1. i \in Files /\ j \in EntriesOf(i) /\ 2 * j <= files[i].inFile
      BY <1>4, <1>5
    <2>12. \A k \in 1 .. j : Entry(i, k) \notin lost
      BY <1>4, <1>5
    <2>2. PICK e \in LogEntry : e = Entry(i, j)
      BY <1>1, <2>1, WalTypes
    <2>0. Accounted(e.run, s)
      BY <1>1, <1>7, <2>1, <2>2 DEF WrittenWithoutHoles
    <2> SUFFICES ASSUME Written(e.run, s) PROVE Replayed(e.run, s)
      BY <2>0, <2>2 DEF Accounted, IsLost
    <2>3. Written(e.run, s)
      OBVIOUS
    <2>4. PICK k \in Files : \E l \in EntriesOf(k) : Entry(k, l) = [run |-> e.run, seq |-> s]
      BY <2>3 DEF Written
    <2>5. PICK l \in EntriesOf(k) : Entry(k, l) = [run |-> e.run, seq |-> s]
      BY <2>4
    <2>6. i \in Nat /\ k \in Nat /\ j \in Nat /\ l \in Nat /\ e.run \in Nat /\ e.seq \in Nat
      <3>1. Len(files) \in Nat /\ Len(files[i].entries) \in Nat /\ Len(files[k].entries) \in Nat
        BY <1>1, <2>1, WalTypes
      <3>2. e.run \in Nat /\ e.seq \in Nat
        BY DEF LogEntry
      <3> QED  BY <2>1, <3>1, <3>2 DEF Files, EntriesOf
    <2>7. ~Earlier(Entry(i, j), Entry(k, l)) /\ Entry(i, j) # Entry(k, l)
      BY <1>7, <2>2, <2>5, <2>6 DEF Earlier
    <2>8. k < i \/ (k = i /\ l < j)
      <3>1. ~(i < k \/ (i = k /\ j < l))
        BY <1>1, <2>1, <2>7 DEF WrittenInOrder
      <3>2. ~(i = k /\ j = l)
        BY <2>7
      <3> QED  BY <2>6, <3>1, <3>2
    <2>9. k \in FilesRead
      <3>1. \A m \in 1 .. k - 1 : m \in 1 .. i - 1
        BY <2>6, <2>8
      <3> QED  BY <1>2, <3>1 DEF FilesRead
    <2>10. 2 * l <= files[k].inFile
      <3>1. CASE k < i
        <4>1. FileComplete(k)
          BY <1>1, <2>1, <2>2, <2>5, <3>1 DEF FilesInv
        <4>2. l \in 1 .. Len(files[k].entries) /\ Len(files[k].entries) \in Nat
          BY <1>1, WalTypes DEF EntriesOf
        <4> QED  BY <4>1, <4>2 DEF FileComplete
      <3>2. CASE k = i /\ l < j
        <4>1. files[i].inFile \in Nat
          BY <1>1, <2>1, WalTypes
        <4> QED  BY <2>1, <2>6, <3>2, <4>1
      <3> QED  BY <2>8, <3>1, <3>2
    <2>11. \A m \in 1 .. l : Entry(k, m) \notin lost
      <3>1. CASE k < i
        <4>1. ~Broken(k)
          <5>1. k \in 1 .. i - 1
            BY <1>1, <2>6, <3>1, WalTypes DEF Files
          <5> QED  BY <5>1 DEF FilesRead, Torn
        <4>2. \A m \in 1 .. l : m \in EntriesOf(k) /\ m <= l
          BY <1>1, <2>6, WalTypes DEF EntriesOf
        <4> QED  BY <1>b, <2>10, <4>1, <4>2
      <3>2. CASE k = i /\ l < j
        <4>1. \A m \in 1 .. l : m \in 1 .. j
          BY <2>6, <3>2
        <4> QED  BY <2>12, <3>2, <4>1
      <3> QED  BY <2>8, <3>1, <3>2
    <2> QED  BY <1>5, <2>5, <2>9, <2>10, <2>11 DEF Replayed
  <1>8. ASSUME NEW i \in FilesRead, NEW j \in Readable(i)
        PROVE  LET e == Entry(i, j)
               IN  /\ e \notin lost /\ e.seq < appends[e.run]
                   /\ \A s \in 0 .. e.seq - 1 :
                        Replayed(e.run, s) \/ [run |-> e.run, seq |-> s] \in lost
    <2>1. i \in Files /\ j \in EntriesOf(i) /\ Entry(i, j) \notin lost
      <3>1. i \in Files /\ j \in EntriesOf(i) /\ \A k \in 1 .. j : Entry(i, k) \notin lost
        BY <1>4, <1>5
      <3>2. j \in 1 .. j
        BY <3>1, <1>1, WalTypes DEF EntriesOf
      <3> QED  BY <3>1, <3>2
    <2>2. Entry(i, j).seq < appends[Entry(i, j).run] /\ Entry(i, j).seq \in Nat
      BY <1>1, <2>1, WalTypes DEF WrittenWithoutHoles
    <2>3. \A s \in 0 .. Entry(i, j).seq - 1 : s \in Nat /\ s < Entry(i, j).seq
      BY <2>2
    <2> QED  BY <1>7, <2>1, <2>2, <2>3
  <1>9. ASSUME syncMode = "full", AllIsRead,
               NEW run \in DOMAIN appends, NEW s \in 0 .. appends[run] - 1,
               s + ChannelSize + 1 < appends[run]
        PROVE  Replayed(run, s) \/ [run |-> run, seq |-> s] \in lost \cup unflushed
    <2>1. appends[run] \in Nat /\ run \in 1 .. CurrentRun /\ s \in Nat
      BY <1>1, <1>2, WalTypes
    <2>2. Pending(run) \in Nat /\ Pending(run) <= ChannelSize + 1
      BY <1>1, WalTypes, WalAssumption DEF Pending, ChannelInv
    <2>3. Safe(run, s)
      <3>1. s + Pending(run) < appends[run]
        BY <1>9, <2>1, <2>2, WalAssumption
      <3> QED  BY <1>1, <1>9, <2>1, <3>1 DEF FullInv
    <2>4. \A i \in Files : ~Broken(i) /\ i \in FilesRead
      <3>1. FilesRead = Files /\ ~Broken(Len(files)) /\ Len(files) \in Files
        BY <1>1, <1>2, <1>9, WalTypes DEF AllIsRead
      <3>2. \A i \in Files : i = Len(files) \/ i \in 1 .. Len(files) - 1
        BY <1>1, WalTypes DEF Files
      <3> QED  BY <3>1, <3>2 DEF FilesRead, Torn
    <2>5. CASE InFile(run, s)
      <3>1. PICK i \in Files : \E j \in EntriesOf(i) :
              2 * j <= files[i].inFile /\ Entry(i, j) = [run |-> run, seq |-> s]
        BY <2>5 DEF InFile
      <3>2. PICK j \in EntriesOf(i) :
              2 * j <= files[i].inFile /\ Entry(i, j) = [run |-> run, seq |-> s]
        BY <3>1
      <3>3. \A k \in 1 .. j : k \in EntriesOf(i) /\ k <= j
        BY <1>1, WalTypes DEF EntriesOf
      <3>4. \A k \in 1 .. j : Entry(i, k) \notin lost
        BY <1>b, <2>4, <3>2, <3>3
      <3> QED  BY <1>5, <2>4, <3>2, <3>4 DEF Replayed
    <2> QED  BY <2>3, <2>5 DEF Safe, IsLost, IsUnflushed
  <1> QED  BY <1>6, <1>8, <1>9 DEF ReplayFollowsAppends

-----------------------------------------------------------------------------
(***************************************************************************)
(* The order store and the recovery daemon.  An order that is live is in   *)
(* the store as active, and each order a call has to settle is settled,    *)
(* still to come, the one being asked about, or one for which a step of    *)
(* the call failed.                                                        *)
(***************************************************************************)
Statuses == Active \cup Ended \cup {Absent}

StoreTypeOK ==
    /\ status \in [Orders -> Statuses] /\ store \in [Orders -> Statuses]
    /\ venue \in [Orders -> Exchanges]
    /\ trading \in BOOLEAN
    /\ call \in {"idle", "recover", "shutdown"}
    /\ toVisit \subseteq Clients /\ todo \subseteq Orders
    /\ expected \subseteq Orders /\ missed \subseteq Orders
    /\ asking \in [order : Orders, answer : Active \cup Ended \cup {"error"}] \cup {Nothing}

(* An answer that ends an order is still true when it is handled.          *)
AnswersHold ==
    asking # Nothing /\ IsSettled(asking.answer) => status[asking.order] \in Ended

Asked(o) == asking # Nothing /\ asking.order = o

(* What is left to do for an order that the call has to settle.            *)
ToRecover(o) ==
    /\ status[o] \in Ended
    /\ \/ o \in todo
       \/ Asked(o) /\ asking.answer \in Ended \cup {"error"}
       \/ AutoCancelOrphans => store[o] \notin ListedAsOpen

ToShutDown(o) ==
    /\ status[o] \in ListedAsOpen \cup Ended
    /\ \/ status[o] \in Ended
       \/ /\ store[o] \in ListedAsOpen
          /\ \/ venue[o] \in toVisit \/ o \in todo
             \/ Asked(o) /\ asking.answer = "error"

ExpectedInv ==
    \A o \in expected \ missed :
        /\ call = "recover" => ToRecover(o)
        /\ call = "shutdown" => ToShutDown(o)

StoreIInv == StoreTypeOK /\ LiveIsKept /\ AnswersHold /\ ExpectedInv

-----------------------------------------------------------------------------
(* The store starts empty.                                                 *)
LEMMA StoreInitInv == StoreInit => StoreIInv
  BY StoreAssumption
  DEF StoreInit, StoreIInv, StoreTypeOK, LiveIsKept, AnswersHold, ExpectedInv, Statuses,
      Active, ListedAsOpen, Ended

(* Every step of the store, the exchange and the daemon keeps it.          *)
LEMMA StoreStep == StoreIInv /\ [StoreNext]_storeVars => StoreIInv'
  <1> SUFFICES ASSUME StoreIInv, [StoreNext]_storeVars PROVE StoreIInv'
    OBVIOUS
  <1> USE StoreAssumption
          DEF StoreIInv, StoreTypeOK, LiveIsKept, AnswersHold, ExpectedInv, Statuses, Active,
              ListedAsOpen, Ended, Asked, ToRecover, ToShutDown, daemonVars, IsSettled
  <1>1. ASSUME NEW o \in Orders, PutNewOrder(o) PROVE StoreIInv'
    BY <1>1 DEF PutNewOrder
  <1>2. ASSUME NEW o \in Orders, ExchangeOpens(o) PROVE StoreIInv'
    BY <1>2 DEF ExchangeOpens
  <1>3. ASSUME NEW o \in Orders, ExchangeMoves(o) PROVE StoreIInv'
    BY <1>3 DEF ExchangeMoves
  <1>4. ASSUME NEW o \in Orders, PutReport(o) PROVE StoreIInv'
    BY <1>4 DEF PutReport
  <1>5. ASSUME NEW o \in Orders, AskStatus(o) PROVE StoreIInv'
    BY <1>5 DEF AskStatus, Ask, Nothing
  <1>6. ASSUME NEW o \in Orders, AskCancel(o) PROVE StoreIInv'
    BY <1>6 DEF AskCancel, Ask, Nothing
  <1>7. CASE ProcessDies
    BY <1>7 DEF ProcessDies
  <1>8. CASE TradingResumes
    BY <1>8 DEF TradingResumes
  <1>9. CASE BeginRecovery
    BY <1>9 DEF BeginRecovery, Begin, OpenOrders
  <1>10. CASE BeginShutdown
    BY <1>10 DEF BeginShutdown, Begin, OpenOrders
  <1>11. ASSUME NEW x \in Clients, CancelAllOrders(x) PROVE StoreIInv'
    BY <1>11 DEF CancelAllOrders, OpenOrders
  <1>12. CASE HandleAnswer
    <2>1. /\ asking # Nothing /\ asking' = Nothing /\ asking.order \in Orders
          /\ UNCHANGED <<status, venue, trading, call, toVisit, todo, expected>>
      BY <1>12 DEF HandleAnswer, Nothing
    <2>2. /\ store' \in [Orders -> Statuses]
          /\ \A o \in Orders : store'[o] = store[o] \/ (store'[o] = Absent /\ status[o] \in Ended)
      BY <1>12 DEF HandleAnswer
    <2>3. /\ missed' \subseteq Orders /\ missed \subseteq missed'
          /\ asking.answer = "error" => asking.order \in missed'
          /\ \/ asking.order \in missed' \/ store'[asking.order] = Absent
             \/ ~(IsSettled(asking.answer) /\ Deletes)
      BY <1>12, <2>1 DEF HandleAnswer
    <2>4. StoreTypeOK' /\ LiveIsKept' /\ AnswersHold'
      BY <2>1, <2>2, <2>3
    <2>5. ExpectedInv'
      BY <2>1, <2>2, <2>3 DEF Deletes
    <2> QED  BY <2>4, <2>5
  <1>13. CASE EndCall
    BY <1>13 DEF EndCall
  <1>14. CASE UNCHANGED storeVars
    BY <1>14 DEF storeVars
  <1> QED
    BY <1>1, <1>2, <1>3, <1>4, <1>5, <1>6, <1>7, <1>8, <1>9, <1>10, <1>11, <1>12, <1>13, <1>14
    DEF StoreNext

-----------------------------------------------------------------------------
(***************************************************************************)
(* The position rebuilder.  With fills listed oldest first, what has been  *)
(* fetched is exactly what the history has below the offset.               *)
(***************************************************************************)
ExchangeFill == [side : {1, -1}, price : FillPrices, quantity : FillSizes,
                 commission : Commissions, id : Nat]

RebuildTypeOK ==
    /\ history \in Seq(ExchangeFill) /\ allFills \in Seq(ExchangeFill)
    /\ atStart \in Seq(ExchangeFill)
    /\ offset \in Nat

(* The fills before the offset that were there at the start have been      *)
(* fetched, each fill once: its id is its place in the history.            *)
RebuildInv ==
    /\ \A i \in 1 .. Len(history) : history[i].id = i - 1
    /\ Len(atStart) <= Len(history)
    /\ \A i \in 1 .. Len(atStart) : atStart[i] = history[i]
    /\ ~newestFirst =>
        /\ \A i \in 1 .. Len(allFills) : allFills[i].id < offset
        /\ \A i, j \in 1 .. Len(allFills) : i < j => allFills[i].id < allFills[j].id
        /\ rebuilder # "idle" => \A i \in 1 .. Len(atStart) :
              i <= offset => \E j \in 1 .. Len(allFills) : allFills[j] = history[i]
    /\ rebuilder = "idle" => offset = 0 /\ allFills = << >>
    /\ rebuilder = "done" => Len(atStart) <= offset \/ Reach <= offset
    /\ \E pages \in Nat : offset = BatchSize * pages

RebuildIInv == RebuildTypeOK /\ RebuildInv

(* While nothing is traded, what was fetched is the listing up to the      *)
(* offset, or all of it.                                                   *)
QuietInv ==
    rebuilder # "idle" /\ history = atStart =>
        /\ Len(allFills) = IF offset <= Len(history) THEN offset ELSE Len(history)
        /\ \A i \in 1 .. Len(allFills) : allFills[i] = Listed[i]

-----------------------------------------------------------------------------
(* The smaller of two numbers.                                             *)
LEMMA Smaller ==
    ASSUME NEW a \in Int, NEW b \in Int
    PROVE  Min({a, b}) = IF a <= b THEN a ELSE b
  BY DEF Min

(* What follows the first p places of a sequence, up to place m.           *)
LEMMA Slice ==
    ASSUME NEW S, NEW s \in Seq(S), NEW p \in Nat, NEW m \in Nat, m <= Len(s), p <= m
    PROVE  /\ SubSeq(s, p + 1, m) \in Seq(S)
           /\ Len(SubSeq(s, p + 1, m)) = m - p
           /\ \A k \in 1 .. m - p : SubSeq(s, p + 1, m)[k] = s[p + k]
  <1> DEFINE f == p + 1
             r == SubSeq(s, f, m)
  <1>1. f \in Int /\ m \in Int /\ \A i \in f .. m : s[i] \in S
    BY ElementOfSeq
  <1>2. /\ r \in Seq(S) /\ Len(r) = IF f <= m THEN m - f + 1 ELSE 0
        /\ \A i \in 1 .. m - f + 1 : r[i] = s[f + i - 1]
    <2> HIDE DEF f
    <2> QED  BY <1>1, SubSeqProperties
  <1> HIDE DEF r
  <1>3. r \in Seq(S) /\ Len(r) = m - p /\ \A k \in 1 .. m - p : r[k] = s[p + k]
    <2>1. m - f + 1 = m - p /\ \A k \in 1 .. m - p : f + k - 1 = p + k
      OBVIOUS
    <2>2. f <= m \/ m - p = 0
      OBVIOUS
    <2>3. f <= m => Len(r) = m - p
      BY <1>2, <2>1
    <2>4. ~(f <= m) => Len(r) = 0
      BY <1>2
    <2> HIDE DEF f
    <2> QED  BY <1>2, <2>1, <2>2, <2>3, <2>4
  <1> QED  BY <1>3 DEF r

(* A page is the part of the listing from the offset on, as far as there   *)
(* is one.                                                                 *)
LEMMA PageIsNext ==
    ASSUME RebuildTypeOK
    PROVE  /\ Page \in Seq(ExchangeFill)
           /\ Len(Page) <= BatchSize
           /\ Page = << >> => Len(history) <= offset
           /\ Page # << >> =>
                offset + Len(Page) =
                    IF offset + BatchSize <= Len(history) THEN offset + BatchSize ELSE Len(history)
           /\ \A k \in 1 .. Len(Page) : Page[k] = Listed[offset + k] /\ offset + k \in 1 .. Len(history)
           /\ \A i \in 1 .. Len(history) :
                 offset < i /\ i <= offset + BatchSize => i - offset \in 1 .. Len(Page)
  <1> DEFINE n == Len(history)
             m == Min({offset + BatchSize, n})
  <1>1. n \in Nat /\ offset \in Nat /\ BatchSize \in Nat \ {0}
    BY RebuilderAssumption DEF RebuildTypeOK
  <1>2. m = IF offset + BatchSize <= n THEN offset + BatchSize ELSE n
    BY <1>1, Smaller
  <1>3. Listed \in Seq(ExchangeFill) /\ Len(Listed) = n
    BY DEF RebuildTypeOK, Listed, Reverse
  <1>5. Page = SubSeq(Listed, offset + 1, m)
    BY DEF Page
  <1>7. n = Len(history)
    OBVIOUS
  <1> HIDE DEF n, m
  <1>9. m \in Nat /\ m <= n
    BY <1>1, <1>2
  <1>10. CASE offset <= m
    <2> DEFINE r == SubSeq(Listed, offset + 1, m)
    <2>1. /\ r \in Seq(ExchangeFill)
          /\ Len(r) = m - offset
          /\ \A k \in 1 .. m - offset : r[k] = Listed[offset + k]
      <3>1. m <= Len(Listed) /\ offset \in Nat /\ m \in Nat /\ offset <= m
        BY <1>1, <1>3, <1>9, <1>10
      <3> QED  BY <1>3, <3>1, Slice
    <2>p. Page = r
      BY <1>5
    <2> HIDE DEF r
    <2>2. Len(Page) <= BatchSize
      BY <1>1, <1>2, <1>9, <1>10, <2>1, <2>p
    <2>3. Page = << >> => n <= offset
      <3>1. Page = << >> => Len(Page) = 0
        BY EmptySeq
      <3> QED  BY <1>1, <1>2, <1>9, <2>1, <2>p, <3>1
    <2>4. \A k \in 1 .. Len(Page) : Page[k] = Listed[offset + k] /\ offset + k \in 1 .. n
      BY <1>1, <1>9, <1>10, <2>1, <2>p
    <2>5. \A i \in 1 .. n : offset < i /\ i <= offset + BatchSize => i - offset \in 1 .. Len(Page)
      BY <1>1, <1>2, <1>9, <2>1, <2>p
    <2>6. offset + Len(Page) = m
      BY <1>1, <1>9, <2>1, <2>p
    <2> QED  BY <1>2, <1>7, <2>1, <2>p, <2>2, <2>3, <2>4, <2>5, <2>6
  <1>11. CASE m < offset
    <2>1. Page = << >>
      <3> DEFINE f == offset + 1
      <3>1. m < f /\ f \in Int /\ m \in Int
        BY <1>1, <1>9, <1>11
      <3> HIDE DEF f
      <3>2. SubSeq(Listed, f, m) = << >>
        BY <3>1, SubSeqEmpty
      <3> QED  BY <1>5, <3>2 DEF f
    <2>2. Page \in Seq(ExchangeFill) /\ Len(Page) = 0
      BY <2>1, EmptySeq
    <2>3. n <= offset
      BY <1>1, <1>2, <1>9, <1>11
    <2> QED  BY <1>1, <1>7, <2>2, <2>3
  <1> QED  BY <1>1, <1>9, <1>10, <1>11

(* The ids of fills are numbers.                                           *)
LEMMA FillIds ==
    ASSUME NEW s \in Seq(ExchangeFill), NEW i \in 1 .. Len(s)
    PROVE  s[i].id \in Nat
  <1>1. s[i] \in ExchangeFill
    BY ElementOfSeq
  <1> QED  BY <1>1 DEF ExchangeFill

(* The next offset is a multiple of the page size again.                   *)
LEMMA NextOffset ==
    ASSUME NEW pages \in Nat
    PROVE  /\ BatchSize * pages + BatchSize = BatchSize * (pages + 1)
           /\ BatchSize * pages > BatchSize * PageLimit => Reach <= BatchSize * pages
  <1>1. BatchSize \in Nat \ {0} /\ PageLimit \in Nat
    BY RebuilderAssumption
  <1>2. BatchSize * pages + BatchSize = BatchSize * (pages + 1)
    BY <1>1
  <1>3. CASE pages <= PageLimit
    BY <1>1, <1>2, <1>3
  <1>4. CASE PageLimit + 1 <= pages
    BY <1>1, <1>2, <1>4 DEF Reach
  <1> QED  BY <1>1, <1>2, <1>3, <1>4

(* The rebuilder starts with nothing fetched.                              *)
LEMMA RebuildInitInv == RebuildInit => RebuildIInv
  <1> SUFFICES ASSUME RebuildInit PROVE RebuildIInv
    OBVIOUS
  <1>1. /\ history = << >> /\ allFills = << >> /\ atStart = << >> /\ offset = 0
        /\ rebuilder = "idle"
    BY DEF RebuildInit
  <1>2. /\ history \in Seq(ExchangeFill) /\ allFills \in Seq(ExchangeFill)
        /\ atStart \in Seq(ExchangeFill)
        /\ Len(history) = 0 /\ Len(allFills) = 0 /\ Len(atStart) = 0
    BY <1>1, EmptySeq
  <1>3. BatchSize * 0 = 0 /\ 0 \in Nat
    BY RebuilderAssumption
  <1> QED  BY <1>1, <1>2, <1>3 DEF RebuildIInv, RebuildTypeOK, RebuildInv

(* Every step of the exchange and the rebuilder keeps it.                  *)
LEMMA RebuildStep == RebuildIInv /\ [RebuildNext]_rebuildVars => RebuildIInv'
  <1> SUFFICES ASSUME RebuildIInv, [RebuildNext]_rebuildVars PROVE RebuildIInv'
    OBVIOUS
  <1>t. /\ RebuildTypeOK /\ RebuildInv
        /\ Len(history) \in Nat /\ Len(allFills) \in Nat /\ Len(atStart) \in Nat
    BY DEF RebuildIInv, RebuildTypeOK
  <1>1. CASE ExchangeFills
    <2>1. PICK side \in {1, -1}, price \in FillPrices, quantity \in FillSizes,
              commission \in Commissions :
            history' = Append(history, [side |-> side, price |-> price, quantity |-> quantity,
                                        commission |-> commission, id |-> Len(history)])
      BY <1>1 DEF ExchangeFills
    <2> DEFINE f == [side |-> side, price |-> price, quantity |-> quantity,
                   commission |-> commission, id |-> Len(history)]
    <2>2. f \in ExchangeFill /\ f.id = Len(history)
      BY <1>t DEF ExchangeFill
    <2>3. history' = Append(history, f)
      BY <2>1
    <2> HIDE DEF f
    <2>4. /\ history' \in Seq(ExchangeFill) /\ Len(history') = Len(history) + 1
          /\ history'[Len(history) + 1] = f
          /\ \A i \in 1 .. Len(history) : history'[i] = history[i]
      BY <2>2, <2>3, <1>t DEF RebuildTypeOK
    <2>5. UNCHANGED <<newestFirst, rebuilder, offset, allFills, atStart>>
      BY <1>1 DEF ExchangeFills
    <2>6. \A i \in 1 .. Len(history') : i \in 1 .. Len(history) \/ i = Len(history) + 1
      BY <1>t, <2>4
    <2>7. \A i \in 1 .. Len(history') : history'[i].id = i - 1
      <3>1. \A i \in 1 .. Len(history) : history[i].id = i - 1
        BY <1>t DEF RebuildInv
      <3>2. \A i \in 1 .. Len(history) : history'[i].id = i - 1
        BY <2>4, <3>1
      <3>3. history'[Len(history) + 1].id = (Len(history) + 1) - 1
        BY <1>t, <2>2, <2>4
      <3> QED  BY <2>6, <3>2, <3>3
    <2>8. \A i \in 1 .. Len(atStart) : i \in 1 .. Len(history)
      BY <1>t DEF RebuildInv
    <2> QED
      BY <1>t, <2>4, <2>5, <2>7, <2>8 DEF RebuildIInv, RebuildTypeOK, RebuildInv
  <1>2. CASE StartRebuild
    BY <1>t, <1>2, EmptySeq DEF StartRebuild, RebuildIInv, RebuildTypeOK, RebuildInv
  <1>3. CASE FetchPage
    <2>1. CASE Page = << >>
      <3>1. /\ rebuilder = "fetching" /\ rebuilder' = "done"
            /\ UNCHANGED <<offset, allFills, history, newestFirst, atStart>>
        BY <1>3, <2>1 DEF FetchPage
      <3>2. Len(history) <= offset
        BY <1>t, <2>1, PageIsNext
      <3> QED  BY <1>t, <3>1, <3>2 DEF RebuildIInv, RebuildTypeOK, RebuildInv
    <2>2. CASE Page # << >>
      <3>1. /\ rebuilder = "fetching" /\ rebuilder' \in {"fetching", "done"}
            /\ rebuilder' = "done" => offset' > BatchSize * PageLimit
            /\ allFills' = allFills \o Page /\ offset' = offset + BatchSize
            /\ UNCHANGED <<history, newestFirst, atStart>>
        BY <1>3, <2>2 DEF FetchPage
      <3>2. Page \in Seq(ExchangeFill) /\ Len(Page) \in Nat /\ Len(Page) <= BatchSize
        BY <1>t, PageIsNext
      <3>3. /\ allFills' \in Seq(ExchangeFill) /\ Len(allFills') = Len(allFills) + Len(Page)
            /\ \A i \in 1 .. Len(allFills) : allFills'[i] = allFills[i]
            /\ \A k \in 1 .. Len(Page) : allFills'[Len(allFills) + k] = Page[k]
        BY <1>t, <3>1, <3>2 DEF RebuildTypeOK
      <3>4. offset \in Nat /\ BatchSize \in Nat /\ offset' \in Nat
        BY <1>t, <3>1, RebuilderAssumption DEF RebuildTypeOK
      <3>5. RebuildTypeOK'
        BY <1>t, <3>1, <3>3, <3>4 DEF RebuildTypeOK
      <3>6. ASSUME ~newestFirst
            PROVE  /\ \A i \in 1 .. Len(allFills') : allFills'[i].id < offset'
                   /\ \A i, j \in 1 .. Len(allFills') : i < j => allFills'[i].id < allFills'[j].id
                   /\ \A i \in 1 .. Len(atStart) :
                        i <= offset' => \E j \in 1 .. Len(allFills') : allFills'[j] = history[i]
        <4> DEFINE n == Len(allFills)
                   m == Len(Page)
        <4>1. /\ \A k \in 1 .. m : Page[k] = history[offset + k] /\ offset + k \in 1 .. Len(history)
              /\ \A i \in 1 .. Len(history) :
                    offset < i /\ i <= offset + BatchSize => i - offset \in 1 .. m
          BY <1>t, <3>6, PageIsNext DEF Listed
        <4>2. n \in Nat /\ m \in Nat /\ m <= BatchSize /\ Len(allFills') = n + m
          BY <1>t, <3>2, <3>3
        <4>3. \A k \in 1 .. m : allFills'[n + k] = history[offset + k]
                                 /\ allFills'[n + k].id = offset + k - 1
          BY <1>t, <3>3, <4>1 DEF RebuildInv
        <4>4. \A i \in 1 .. n : allFills'[i] = allFills[i] /\ allFills[i].id < offset
                                 /\ allFills[i].id \in Nat
          <5>1. allFills \in Seq(ExchangeFill)
            BY <1>t DEF RebuildTypeOK
          <5> QED  BY <1>t, <3>3, <3>6, <5>1, FillIds DEF RebuildInv
        <4>5. \A i \in 1 .. n + m : i \in 1 .. n \/ (i - n \in 1 .. m /\ n + (i - n) = i)
          BY <4>2
        <4>7. \A i, j \in 1 .. n : i < j => allFills[i].id < allFills[j].id
          BY <1>t, <3>6 DEF RebuildInv
        <4>8. \A i \in 1 .. Len(atStart) : i <= offset => \E j \in 1 .. n : allFills[j] = history[i]
          BY <1>t, <3>1, <3>6 DEF RebuildInv
        <4>9. \A i \in 1 .. Len(atStart) : i \in 1 .. Len(history)
          BY <1>t DEF RebuildInv
        <4> HIDE DEF n, m
        <4>10. \A i \in 1 .. n + m : allFills'[i].id < offset'
          <5> SUFFICES ASSUME NEW i \in 1 .. n + m PROVE allFills'[i].id < offset'
            OBVIOUS
          <5>1. CASE i \in 1 .. n
            <6>1. offset' = offset + BatchSize
              BY <3>1
            <6>2. allFills'[i] = allFills[i] /\ allFills[i].id < offset /\ allFills[i].id \in Nat
              BY <4>4, <5>1
            <6> QED  BY <3>4, <6>1, <6>2
          <5>2. CASE i \notin 1 .. n
            <6>1. i - n \in 1 .. m /\ n + (i - n) = i
              BY <4>5, <5>2
            <6>2. allFills'[i].id = offset + (i - n) - 1
              BY <4>3, <6>1
            <6> QED  BY <3>1, <3>4, <4>2, <6>1, <6>2
          <5> QED  BY <5>1, <5>2
        <4>11. \A i, j \in 1 .. n + m : i < j => allFills'[i].id < allFills'[j].id
          <5> SUFFICES ASSUME NEW i \in 1 .. n + m, NEW j \in 1 .. n + m, i < j
                       PROVE  allFills'[i].id < allFills'[j].id
            OBVIOUS
          <5>1. CASE j \in 1 .. n
            <6>1. i \in 1 .. n  BY <4>2, <5>1
            <6> QED  BY <4>4, <4>7, <5>1, <6>1
          <5>2. CASE j \notin 1 .. n
            <6>1. j - n \in 1 .. m /\ n + (j - n) = j
              BY <4>5, <5>2
            <6>2. allFills'[j].id = offset + (j - n) - 1
              BY <4>3, <6>1
            <6>3. CASE i \in 1 .. n
              BY <3>4, <4>2, <4>4, <6>1, <6>2, <6>3
            <6>4. CASE i \notin 1 .. n
              <7>1. i - n \in 1 .. m /\ n + (i - n) = i
                BY <4>5, <6>4
              <7>2. allFills'[i].id = offset + (i - n) - 1
                BY <4>3, <7>1
              <7> QED  BY <3>4, <4>2, <6>1, <6>2, <7>1, <7>2
            <6> QED  BY <6>3, <6>4
          <5> QED  BY <5>1, <5>2
        <4>12. ASSUME NEW i \in 1 .. Len(atStart), i <= offset'
               PROVE  \E j \in 1 .. n + m : allFills'[j] = history[i]
          <5>1. CASE i <= offset
            <6>1. PICK j \in 1 .. n : allFills[j] = history[i]
              BY <4>8, <5>1
            <6>2. j \in 1 .. n + m
              BY <4>2
            <6> QED  BY <4>4, <6>1, <6>2
          <5>2. CASE offset < i
            <6>1. i - offset \in 1 .. m /\ offset + (i - offset) = i
              BY <3>1, <3>4, <4>1, <4>9, <4>12, <5>2 DEF m
            <6>2. allFills'[n + (i - offset)] = history[i] /\ n + (i - offset) \in 1 .. n + m
              BY <4>2, <4>3, <6>1
            <6> QED  BY <6>2
          <5> QED  BY <3>4, <5>1, <5>2, <1>t
        <4> QED  BY <4>2, <4>10, <4>11, <4>12
      <3>7. /\ \E pages \in Nat : offset' = BatchSize * pages
            /\ rebuilder' = "done" => Reach <= offset'
        <4>1. PICK pages \in Nat : offset = BatchSize * pages
          BY <1>t DEF RebuildInv
        <4> DEFINE q == pages + 1
        <4>2. q \in Nat /\ offset' = BatchSize * q
          BY <3>1, <4>1, NextOffset
        <4> HIDE DEF q
        <4>3. rebuilder' = "done" => Reach <= offset'
          BY <3>1, <4>2, NextOffset
        <4> QED  BY <4>2, <4>3
      <3>8. RebuildInv'
        BY <1>t, <3>1, <3>6, <3>7 DEF RebuildInv
      <3> QED  BY <3>5, <3>8 DEF RebuildIInv
    <2> QED  BY <2>1, <2>2
  <1>4. CASE FetchFails
    <2>1. /\ allFills' = << >> /\ atStart' = << >> /\ offset' = 0 /\ rebuilder' = "idle"
          /\ UNCHANGED <<history, newestFirst>>
      BY <1>4 DEF FetchFails
    <2>2. /\ allFills' \in Seq(ExchangeFill) /\ atStart' \in Seq(ExchangeFill)
          /\ Len(allFills') = 0 /\ Len(atStart') = 0
      BY <2>1, EmptySeq
    <2>3. offset' = BatchSize * 0 /\ 0 \in Nat
      BY <2>1, RebuilderAssumption
    <2> QED  BY <1>t, <2>1, <2>2, <2>3 DEF RebuildIInv, RebuildTypeOK, RebuildInv
  <1>5. CASE UNCHANGED rebuildVars
    BY <1>t, <1>5 DEF rebuildVars, RebuildIInv, RebuildTypeOK, RebuildInv
  <1> QED  BY <1>1, <1>2, <1>3, <1>4, <1>5 DEF RebuildNext

(* While nothing is traded, each page continues the one before.            *)
LEMMA QuietStep == RebuildIInv /\ QuietInv /\ [RebuildNext]_rebuildVars => QuietInv'
  <1> SUFFICES ASSUME RebuildIInv, QuietInv, [RebuildNext]_rebuildVars PROVE QuietInv'
    OBVIOUS
  <1>t. /\ RebuildTypeOK /\ RebuildInv /\ history \in Seq(ExchangeFill)
        /\ Len(history) \in Nat /\ Len(allFills) \in Nat /\ Len(atStart) \in Nat
        /\ Len(atStart) <= Len(history)
        /\ offset \in Nat /\ BatchSize \in Nat \ {0}
    <2>1. RebuildTypeOK /\ RebuildInv
      BY DEF RebuildIInv
    <2>2. /\ history \in Seq(ExchangeFill) /\ allFills \in Seq(ExchangeFill)
          /\ atStart \in Seq(ExchangeFill) /\ offset \in Nat
      BY <2>1 DEF RebuildTypeOK
    <2>3. Len(atStart) <= Len(history)
      BY <2>1 DEF RebuildInv
    <2> QED  BY <2>1, <2>2, <2>3, RebuilderAssumption
  <1>1. CASE ExchangeFills
    <2>1. PICK f \in ExchangeFill : history' = Append(history, f)
      <3>1. PICK side \in {1, -1}, price \in FillPrices, quantity \in FillSizes,
                commission \in Commissions :
              history' = Append(history, [side |-> side, price |-> price, quantity |-> quantity,
                                          commission |-> commission, id |-> Len(history)])
        BY <1>1 DEF ExchangeFills
      <3> QED  BY <1>t, <3>1 DEF ExchangeFill
    <2>2. Len(history') = Len(history) + 1
      BY <1>t, <2>1, AppendProperties
    <2>3. atStart' = atStart
      BY <1>1 DEF ExchangeFills
    <2>4. history' # atStart'
      BY <1>t, <2>2, <2>3
    <2> QED  BY <2>4 DEF QuietInv
  <1>2. CASE StartRebuild
    <2>1. /\ offset' = 0 /\ allFills' = << >> /\ history' = history
      BY <1>t, <1>2 DEF StartRebuild, RebuildInv
    <2>2. Len(allFills') = 0 /\ \A i \in 1 .. Len(allFills') : FALSE
      BY <2>1, EmptySeq
    <2> QED  BY <1>t, <2>1, <2>2 DEF QuietInv
  <1>3. CASE FetchPage
    <2>0. /\ rebuilder = "fetching" /\ rebuilder # "idle"
          /\ UNCHANGED <<history, newestFirst, atStart>>
      BY <1>3 DEF FetchPage
    <2>l. Listed' = Listed
      BY <2>0 DEF Listed
    <2>1. CASE Page = << >>
      <3>1. UNCHANGED <<offset, allFills>>
        BY <1>3, <2>1 DEF FetchPage
      <3> QED  BY <2>0, <2>l, <3>1 DEF QuietInv
    <2>2. CASE Page # << >>
      <3>1. allFills' = allFills \o Page /\ offset' = offset + BatchSize
        BY <1>3, <2>2 DEF FetchPage
      <3>2. /\ Page \in Seq(ExchangeFill) /\ Len(Page) \in Nat
            /\ offset + Len(Page) = IF offset' <= Len(history) THEN offset' ELSE Len(history)
            /\ \A k \in 1 .. Len(Page) : Page[k] = Listed[offset + k] /\ offset + k \in 1 .. Len(history)
        BY <1>t, <2>2, <3>1, PageIsNext
      <3>3. /\ Len(allFills') = Len(allFills) + Len(Page)
            /\ \A i \in 1 .. Len(allFills) : allFills'[i] = allFills[i]
            /\ \A k \in 1 .. Len(Page) : allFills'[Len(allFills) + k] = Page[k]
        BY <1>t, <3>1, <3>2 DEF RebuildTypeOK
      <3>4. SUFFICES ASSUME history = atStart
                     PROVE  /\ Len(allFills') = IF offset' <= Len(history) THEN offset' ELSE Len(history)
                            /\ \A i \in 1 .. Len(allFills') : allFills'[i] = Listed[i]
        BY <2>0, <2>l DEF QuietInv
      <3>5. /\ Len(allFills) = IF offset <= Len(history) THEN offset ELSE Len(history)
            /\ \A i \in 1 .. Len(allFills) : allFills[i] = Listed[i]
        BY <2>0, <3>4 DEF QuietInv
      <3>6. Len(Page) # 0
        BY <2>2, <3>2, EmptySeq
      <3>7. offset + 1 \in 1 .. Len(history)
        <4>1. 1 \in 1 .. Len(Page)
          BY <3>2, <3>6
        <4> QED  BY <3>2, <4>1
      <3>8. Len(allFills) = offset
        BY <1>t, <3>5, <3>7
      <3>9. \A i \in 1 .. Len(allFills') :
               i \in 1 .. offset \/ (i - offset \in 1 .. Len(Page) /\ offset + (i - offset) = i)
        BY <1>t, <3>2, <3>3, <3>8
      <3>10. \A i \in 1 .. Len(allFills') : allFills'[i] = Listed[i]
        <4> SUFFICES ASSUME NEW i \in 1 .. Len(allFills') PROVE allFills'[i] = Listed[i]
          OBVIOUS
        <4>1. CASE i \in 1 .. offset
          BY <3>3, <3>5, <3>8, <4>1
        <4>2. CASE i - offset \in 1 .. Len(Page) /\ offset + (i - offset) = i
          <5>1. allFills'[offset + (i - offset)] = Page[i - offset]
            BY <3>3, <3>8, <4>2
          <5>2. Page[i - offset] = Listed[offset + (i - offset)]
            BY <3>2, <4>2
          <5> QED  BY <4>2, <5>1, <5>2
        <4> QED  BY <3>9, <4>1, <4>2
      <3> QED  BY <3>2, <3>3, <3>8, <3>10
    <2> QED  BY <2>1, <2>2
  <1>4. CASE FetchFails
    BY <1>4 DEF FetchFails, QuietInv
  <1>5. CASE UNCHANGED rebuildVars
    BY <1>5 DEF rebuildVars, QuietInv, Listed
  <1> QED  BY <1>1, <1>2, <1>3, <1>4, <1>5 DEF RebuildNext

(* When the loop has ended, the history is covered.                        *)
LEMMA RebuildCovers == RebuildIInv => HistoryIsCovered
  <1> SUFFICES ASSUME RebuildIInv, rebuilder = "done", ~newestFirst
               PROVE  /\ IsInjective(allFills)
                      /\ Len(atStart) <= Reach => ToSet(atStart) \subseteq ToSet(allFills)
    BY DEF HistoryIsCovered
  <1>t. /\ allFills \in Seq(ExchangeFill) /\ atStart \in Seq(ExchangeFill) /\ offset \in Nat
        /\ Len(allFills) \in Nat /\ Len(atStart) \in Nat
        /\ DOMAIN allFills = 1 .. Len(allFills) /\ DOMAIN atStart = 1 .. Len(atStart)
        /\ RebuildInv /\ Reach \in Nat
    BY RebuilderAssumption DEF RebuildIInv, RebuildTypeOK, Reach
  <1>1. \A i \in 1 .. Len(allFills) : allFills[i].id \in Nat
    BY <1>t, FillIds
  <1>2. \A i, j \in 1 .. Len(allFills) : i < j => allFills[i].id < allFills[j].id
    BY DEF RebuildIInv, RebuildInv
  <1>3. IsInjective(allFills)
    BY <1>t, <1>1, <1>2 DEF IsInjective
  <1>4. ASSUME Len(atStart) <= Reach, NEW i \in 1 .. Len(atStart)
        PROVE  \E j \in 1 .. Len(allFills) : allFills[j] = atStart[i]
    <2>1. atStart[i] = history[i]
      BY <1>t DEF RebuildInv
    <2>2. Len(atStart) <= offset \/ Reach <= offset
      BY <1>t DEF RebuildInv
    <2>3. i <= offset
      BY <1>t, <1>4, <2>2
    <2> QED  BY <1>t, <2>1, <2>3 DEF RebuildInv
  <1>5. Len(atStart) <= Reach => ToSet(atStart) \subseteq ToSet(allFills)
    BY <1>t, <1>4 DEF ToSet
  <1> QED  BY <1>3, <1>5

-----------------------------------------------------------------------------
(***************************************************************************)
(* A value that changes step by step.  The recursive functions of the      *)
(* rebuilder are of this kind; that there is one needs induction.          *)
(***************************************************************************)
(* A set of numbers has a least one: what takes induction below takes it   *)
(* from here, as the least number for which a claim fails.                 *)
LEMMA LeastNumber ==
    ASSUME NEW T \in SUBSET Nat, T # {}
    PROVE  \E m \in T : \A y \in T : m <= y
  <1> DEFINE R == {ss \in Nat \X Nat : ss[1] < ss[2]}
  <1>1. IsWellFoundedOn(R, Nat)
    BY NatLessThanWellFounded DEF OpToRel
  <1>2. PICK m \in T : \A y \in T : ~(<<y, m>> \in R)
    <2> HIDE DEF R
    <2> QED  BY <1>1, WFMin
  <1>3. ASSUME NEW y \in T PROVE m <= y
    <2>1. <<y, m>> \in Nat \X Nat
      OBVIOUS
    <2>2. ~(y < m)
      BY <1>2, <2>1
    <2> QED  BY <2>2
  <1> QED  BY <1>3

Course(value, start, step, len) ==
    value = [n \in 0 .. len |-> IF n = 0 THEN start ELSE step[n][value[n - 1]]]

LEMMA CourseExists ==
    ASSUME NEW start, NEW step
    PROVE  \A len \in Nat : \E value : Course(value, start, step, len)
  <1> DEFINE Missing == {len \in Nat : ~ \E value : Course(value, start, step, len)}
  <1> SUFFICES ASSUME Missing # {} PROVE FALSE
    OBVIOUS
  <1>1. PICK n \in Missing : \A y \in Missing : n <= y
    <2>1. Missing \in SUBSET Nat
      OBVIOUS
    <2> HIDE DEF Missing
    <2> QED  BY <2>1, LeastNumber
  <1>2. n \in Nat /\ ~ \E value : Course(value, start, step, n)
    OBVIOUS
  <1>3. n # 0
    <2>1. Course([k \in 0 .. 0 |-> start], start, step, 0)
      BY DEF Course
    <2> QED  BY <1>2, <2>1
  <1>4. n - 1 \in Nat /\ n - 1 \notin Missing
    BY <1>1, <1>2, <1>3
  <1>5. PICK value : Course(value, start, step, n - 1)
    BY <1>4
  <1> DEFINE next(k, x) == IF k = 0 THEN start ELSE step[k][x]
             longer == [k \in 0 .. n |-> IF k = n THEN next(n, value[n - 1]) ELSE value[k]]
  <1> HIDE DEF Missing
  <1>6. \A k \in 0 .. (n - 1) : value[k] = next(k, value[k - 1])
    BY <1>5 DEF Course
  <1>7. \A k \in 0 .. n : longer[k] = next(k, longer[k - 1])
    <2> SUFFICES ASSUME NEW k \in 0 .. n
                 PROVE  longer[k] = next(k, longer[k - 1])
      OBVIOUS
    <2>1. CASE k = n
      <3>1. n - 1 \in 0 .. n /\ n - 1 # n
        BY <1>2, <1>3
      <3>2. longer[n - 1] = value[n - 1]
        BY <3>1
      <3>3. longer[n] = next(n, value[n - 1])
        BY <1>2
      <3> QED  BY <2>1, <3>2, <3>3
    <2>2. CASE k # n
      <3>1. longer[k] = value[k] /\ k \in 0 .. (n - 1)
        BY <1>2, <2>2
      <3>2. k # 0 => k - 1 \in 0 .. n /\ k - 1 # n
        BY <1>2, <2>2
      <3>3. k # 0 => longer[k - 1] = value[k - 1]
        BY <3>2
      <3> QED  BY <1>6, <3>1, <3>3
    <2> QED  BY <2>1, <2>2
  <1>8. longer = [k \in 0 .. n |-> longer[k]]
    OBVIOUS
  <1> HIDE DEF longer
  <1>9. Course(longer, start, step, n)
    BY <1>7, <1>8 DEF Course
  <1> QED  BY <1>2, <1>9

(* It stays in a set that no step leaves.                                  *)
LEMMA CourseStays ==
    ASSUME NEW A, NEW start \in A, NEW len \in Nat,
           NEW step \in [1 .. len -> [A -> A]], NEW value, Course(value, start, step, len)
    PROVE  value \in [0 .. len -> A]
  <1> DEFINE Out == {n \in 0 .. len : value[n] \notin A}
  <1>1. \A n \in 0 .. len : value[n] = IF n = 0 THEN start ELSE step[n][value[n - 1]]
    BY DEF Course
  <1>2. Out = {}
    <2> SUFFICES ASSUME Out # {} PROVE FALSE
      OBVIOUS
    <2>1. PICK n \in Out : \A y \in Out : n <= y
      <3>1. Out \in SUBSET Nat
        OBVIOUS
      <3> HIDE DEF Out
      <3> QED  BY <3>1, LeastNumber
    <2>2. n # 0
      BY <1>1
    <2>3. n - 1 \in 0 .. len /\ n - 1 \notin Out /\ n \in 1 .. len
      BY <2>1, <2>2
    <2>4. value[n - 1] \in A
      BY <2>3
    <2>5. step[n][value[n - 1]] \in A
      BY <2>3, <2>4
    <2>6. value[n] = step[n][value[n - 1]]
      BY <1>1, <2>2, <2>3
    <2> QED  BY <2>5, <2>6
  <1>3. \A n \in 0 .. len : value[n] \in A
    BY <1>2
  <1> QED  BY <1>3 DEF Course

(* The sums of numbers, from the first to each.                            *)
Sums(sum, number, len) ==
    sum = [n \in 0 .. len |-> IF n = 0 THEN 0 ELSE sum[n - 1] + number[n]]

LEMMA SumsExist ==
    ASSUME NEW len \in Nat, NEW number \in [1 .. len -> Int]
    PROVE  \E sum \in [0 .. len -> Int] : Sums(sum, number, len)
  <1> DEFINE step == [n \in 1 .. len |-> [x \in Int |-> x + number[n]]]
  <1>1. step \in [1 .. len -> [Int -> Int]]
    OBVIOUS
  <1>2. \A n \in 1 .. len, x \in Int : step[n][x] = x + number[n]
    OBVIOUS
  <1> HIDE DEF step
  <1>3. PICK sum : Course(sum, 0, step, len)
    BY CourseExists
  <1>4. sum \in [0 .. len -> Int]
    <2> DEFINE zero == 0
    <2>1. zero \in Int /\ Course(sum, zero, step, len)
      BY <1>3
    <2> HIDE DEF zero
    <2> QED  BY <1>1, <2>1, CourseStays
  <1>5. \A n \in 0 .. len : n = 0 \/ (n \in 1 .. len /\ sum[n - 1] \in Int)
    BY <1>4
  <1>6. \A n \in 0 .. len : sum[n] = IF n = 0 THEN 0 ELSE sum[n - 1] + number[n]
    BY <1>2, <1>3, <1>5 DEF Course
  <1>7. Sums(sum, number, len)
    BY <1>4, <1>6 DEF Sums
  <1> QED  BY <1>4, <1>7

(* They are numbers, all of them.                                          *)
LEMMA SumsAreNumbers ==
    ASSUME NEW len \in Nat, NEW number \in [1 .. len -> Int], NEW sum, Sums(sum, number, len)
    PROVE  sum \in [0 .. len -> Int]
  <1> DEFINE Out == {n \in 0 .. len : sum[n] \notin Int}
  <1>1. \A n \in 0 .. len : sum[n] = IF n = 0 THEN 0 ELSE sum[n - 1] + number[n]
    BY DEF Sums
  <1>2. Out = {}
    <2> SUFFICES ASSUME Out # {} PROVE FALSE
      OBVIOUS
    <2>1. PICK n \in Out : \A y \in Out : n <= y
      <3>1. Out \in SUBSET Nat
        OBVIOUS
      <3> HIDE DEF Out
      <3> QED  BY <3>1, LeastNumber
    <2>2. n # 0
      BY <1>1
    <2>3. n - 1 \in 0 .. len /\ n - 1 \notin Out /\ n \in 1 .. len
      BY <2>1, <2>2
    <2>4. sum[n - 1] \in Int /\ number[n] \in Int
      BY <2>3
    <2>5. sum[n] = sum[n - 1] + number[n]
      BY <1>1, <2>2, <2>3
    <2> QED  BY <2>4, <2>5
  <1>3. \A n \in 0 .. len : sum[n] \in Int
    BY <1>2
  <1> QED  BY <1>3 DEF Sums

(* Numbers added from the last to the first come to the same sum.          *)
Turns(turned, number, len) ==
    /\ number \in [1 .. len -> Int]
    /\ turned = [n \in 1 .. len |-> number[(len - n) + 1]]

LEMMA TurnedSums ==
    ASSUME NEW len \in Nat, NEW number, NEW turned, Turns(turned, number, len),
           NEW sum, Sums(sum, number, len), NEW back, Sums(back, turned, len)
    PROVE  back[len] = sum[len]
  <1> DEFINE Off == {n \in 0 .. len : back[n] # sum[len] - sum[len - n]}
  <1>0. \A n \in 1 .. len : turned[n] = number[(len - n) + 1]
    BY DEF Turns
  <1>a. \A n \in 1 .. len : (len - n) + 1 \in 1 .. len
    OBVIOUS
  <1>b. number \in [1 .. len -> Int] /\ turned \in [1 .. len -> Int]
    BY <1>a DEF Turns
  <1>c. sum \in [0 .. len -> Int] /\ back \in [0 .. len -> Int]
    BY <1>b, SumsAreNumbers
  <1>1. \A n \in 1 .. len : sum[n] = sum[n - 1] + number[n] /\ back[n] = back[n - 1] + turned[n]
    BY DEF Sums
  <1>2. sum[0] = 0 /\ back[0] = 0
    BY DEF Sums
  <1>3. Off = {}
    <2> SUFFICES ASSUME Off # {} PROVE FALSE
      OBVIOUS
    <2>1. PICK n \in Off : \A y \in Off : n <= y
      <3>1. Off \in SUBSET Nat
        OBVIOUS
      <3> HIDE DEF Off
      <3> QED  BY <3>1, LeastNumber
    <2>2. n # 0
      BY <1>2, <1>c
    <2>3. /\ n - 1 \in 0 .. len /\ n - 1 \notin Off /\ n \in 1 .. len
          /\ (len - n) + 1 \in 1 .. len /\ len - n \in 0 .. len
      BY <2>1, <2>2
    <2> DEFINE k == (len - n) + 1
    <2>4. back[n - 1] = sum[len] - sum[len - (n - 1)]
      BY <2>3
    <2>5. len - (n - 1) = k /\ k - 1 = len - n
      BY <2>3
    <2>6. back[n] = back[n - 1] + number[k] /\ sum[k] = sum[len - n] + number[k]
      BY <1>0, <1>1, <2>3, <2>5
    <2>7. number[k] \in Int /\ sum[len] \in Int /\ sum[len - n] \in Int
      BY <1>b, <1>c, <2>3
    <2>8. back[n - 1] = sum[len] - sum[k]
      BY <2>4, <2>5
    <2>9. back[n] = sum[len] - sum[len - n]
      <3> DEFINE all == sum[len]
                 rest == sum[len - n]
                 this == number[k]
      <3>1. back[n] = (all - (rest + this)) + this
        BY <2>6, <2>8
      <3>2. all \in Int /\ rest \in Int /\ this \in Int
        BY <2>7
      <3> HIDE DEF all, rest, this
      <3>3. back[n] = all - rest
        BY <3>1, <3>2
      <3> QED  BY <3>3 DEF all, rest
    <2> QED  BY <2>9
  <1>4. len \in 0 .. len /\ len - len = 0
    OBVIOUS
  <1>5. back[len] = sum[len] - sum[0]
    BY <1>3, <1>4
  <1>6. sum[len] \in Int
    BY <1>c, <1>4
  <1> QED  BY <1>2, <1>5, <1>6
(***************************************************************************)
(* What the fills amount to.  First, how one fill changes a position.      *)
(***************************************************************************)
(* A position that can be: it is flat exactly if its quantity is zero, and *)
(* no amount of money has been divided by zero.                            *)
Fractions == [n : Int, d : Nat \ {0}]
Positions == [side : {1, 0, -1}, quantity : Nat, average : Fractions, realized : Fractions]
Sound(p) == p \in Positions /\ (p.side = 0 <=> p.quantity = 0)

(* The money that went into a position, apart from what is realized, is    *)
(* what it holds at the average price.                                     *)
Held(p) == p.side * p.quantity
Balanced(p, cash) ==
    p.realized.n * p.average.d - p.average.n * Held(p) * p.realized.d
        = cash * (p.realized.d * p.average.d)

(* The identities behind the cases of ApplyFill, in whole numbers: adding, *)
(* reducing, and closing or flipping.                                      *)
LEMMA AddingBalances ==
    ASSUME NEW rn \in Int, NEW rd \in Int, NEW an \in Int, NEW ad \in Int,
           NEW q \in Int, NEW side \in Int, NEW quantity \in Int, NEW price \in Int,
           NEW cash \in Int, rn * ad - an * (side * q) * rd = cash * (rd * ad)
    PROVE  rn * (ad * 1 * (q + quantity))
             - (an * q * 1 + (price * quantity) * ad) * (side * (q + quantity)) * rd
           = (cash + (-(side * quantity * price))) * (rd * (ad * 1 * (q + quantity)))
  OBVIOUS

LEMMA ReducingBalances ==
    ASSUME NEW rn \in Int, NEW rd \in Int, NEW an \in Int, NEW ad \in Int,
           NEW q \in Int, NEW side \in Int, NEW quantity \in Int, NEW price \in Int,
           NEW cash \in Int, NEW com \in Int,
           rn * ad - an * (side * q) * rd = cash * (rd * ad)
    PROVE  (rn * ((1 * ad) * 1)
              + (((price * ad + (an * (-1)) * 1) * (side * quantity)) * 1 + (-com) * (1 * ad)) * rd) * ad
             - an * (side * (q - quantity)) * (rd * ((1 * ad) * 1))
           = ((cash + (-((-side) * quantity * price))) - com) * (rd * ((1 * ad) * 1) * ad)
  OBVIOUS

LEMMA FlippingBalances ==
    ASSUME NEW rn \in Int, NEW rd \in Int, NEW an \in Int, NEW ad \in Int,
           NEW q \in Int, NEW side \in Int, NEW quantity \in Int, NEW price \in Int,
           NEW cash \in Int, NEW com \in Int,
           rn * ad - an * (side * q) * rd = cash * (rd * ad)
    PROVE  (rn * ((1 * ad) * 1)
              + (((price * ad + (an * (-1)) * 1) * (side * q)) * 1 + (-com) * (1 * ad)) * rd) * 1
             - price * ((-side) * (quantity - q)) * (rd * ((1 * ad) * 1))
           = ((cash + (-((-side) * quantity * price))) - com) * (rd * ((1 * ad) * 1) * 1)
  OBVIOUS

Position(side, quantity, an, ad, rn, rd) ==
    [side |-> side, quantity |-> quantity, average |-> [n |-> an, d |-> ad],
     realized |-> [n |-> rn, d |-> rd]]

Balances(x, k, un, ud, vn, vd, c) == vn * ud - un * (x * k) * vd = c * (vd * ud)

LEMMA PositionFacts ==
    ASSUME NEW x \in {1, 0, -1}, NEW k \in Nat, x = 0 <=> k = 0,
           NEW un \in Int, NEW ud \in Nat \ {0}, NEW vn \in Int, NEW vd \in Nat \ {0},
           NEW c \in Int, Balances(x, k, un, ud, vn, vd, c)
    PROVE  LET z == Position(x, k, un, ud, vn, vd)
           IN  Sound(z) /\ Held(z) = x * k /\ Balanced(z, c)
  BY DEF Balances, Position, Sound, Positions, Fractions, Held, Balanced

(* A fill changes what is held by what it bought, and the position stays   *)
(* balanced.                                                               *)
LEMMA FillBalances ==
    ASSUME NEW p, Sound(p), NEW cash \in Int, Balanced(p, cash), NEW f \in ExchangeFill
    PROVE  /\ Sound(ApplyFill(p, f)) /\ Held(ApplyFill(p, f)) = Held(p) + Bought(f)
           /\ Balanced(ApplyFill(p, f), (cash + Earned(f)) - Charge(Held(p), f))
           /\ Bought(f) \in Int /\ Earned(f) \in Int /\ Charge(Held(p), f) \in Int
  <1>1. PICK side \in {1, -1}, price \in Nat \ {0}, quantity \in Nat \ {0}, com \in Int :
           f.side = side /\ f.price = price /\ f.quantity = quantity /\ f.commission = com
    BY RebuilderAssumption DEF ExchangeFill, RebuilderAssumption
  <1>2. PICK s \in {1, 0, -1}, q \in Nat, an \in Int, ad \in Nat \ {0}, rn \in Int, rd \in Nat \ {0} :
           p = [side |-> s, quantity |-> q, average |-> [n |-> an, d |-> ad],
                realized |-> [n |-> rn, d |-> rd]]
    <2>1. p \in Positions
      BY DEF Sound
    <2>2. PICK s \in {1, 0, -1}, q \in Nat, aa \in Fractions, rr \in Fractions :
             p = [side |-> s, quantity |-> q, average |-> aa, realized |-> rr]
      BY <2>1 DEF Positions
    <2>3. PICK an \in Int, ad \in Nat \ {0} : aa = [n |-> an, d |-> ad]
      BY DEF Fractions
    <2>4. PICK rn \in Int, rd \in Nat \ {0} : rr = [n |-> rn, d |-> rd]
      BY DEF Fractions
    <2> QED  BY <2>2, <2>3, <2>4
  <1>3. s = 0 <=> q = 0
    BY <1>2 DEF Sound
  <1>4. rn * ad - an * (s * q) * rd = cash * (rd * ad)
    BY <1>2 DEF Balanced, Held
  <1>5. Bought(f) = side * quantity /\ Earned(f) = -(side * quantity * price)
    BY <1>1 DEF Bought, Earned
  <1>6. /\ Bought(f) \in Int /\ Earned(f) \in Int
        /\ Held(p) = s * q /\ p.side = s /\ p.quantity = q
    BY <1>2, <1>5 DEF Held
  <1>7. /\ s \in {0, side} => Charge(Held(p), f) = 0
        /\ s \notin {0, side} => Charge(Held(p), f) = com
    <2>1. s \in {0, side} => ~(s * q * side < 0)
      <3>1. s = side => s * side = 1 /\ s * q * side = q
        OBVIOUS
      <3>2. s = 0 => s * q * side = 0
        OBVIOUS
      <3> QED  BY <3>1, <3>2
    <2>2. s \notin {0, side} => s * q * side < 0
      <3>1. s \notin {0, side} => s * q * side = -q /\ q # 0
        BY <1>3
      <3> QED  BY <3>1
    <2> QED  BY <1>1, <1>6, <2>1, <2>2 DEF Charge
  <1>8. CASE s \in {0, side}
    <2> DEFINE un == an * q * 1 + (price * quantity) * ad
               ud == (ad * 1) * (q + quantity)
    <2>1. ApplyFill(p, f) =
             Position(side, q + quantity, un, ud, rn, rd)
      BY <1>1, <1>2, <1>8 DEF ApplyFill, Add, Plus, Times, Fraction, Position
    <2>2. un \in Int /\ ud \in Nat \ {0} /\ q + quantity \in Nat /\ q + quantity # 0
      OBVIOUS
    <2>3. s * q = side * q
      BY <1>3, <1>8
    <2>4. side * (q + quantity) = s * q + side * quantity
      BY <2>3
    <2>5. rn * ad - an * (side * q) * rd = cash * (rd * ad)
      BY <1>4, <2>3
    <2>6. rn * ud - un * (side * (q + quantity)) * rd
             = (cash + (-(side * quantity * price))) * (rd * ud)
      BY <2>5, AddingBalances
    <2> DEFINE k == q + quantity
               c == cash + (-(side * quantity * price))
    <2>7. k \in Nat /\ c \in Int /\ side \in {1, 0, -1} /\ (side = 0 <=> k = 0)
      OBVIOUS
    <2>8. Balances(side, k, un, ud, rn, rd, c)
      BY <2>6 DEF Balances
    <2>9. ApplyFill(p, f) = Position(side, k, un, ud, rn, rd)
      BY <2>1
    <2>10. c = (cash + Earned(f)) - Charge(Held(p), f) /\ side * k = Held(p) + Bought(f)
      BY <1>5, <1>6, <1>7, <1>8, <2>4
    <2> HIDE DEF un, ud, k, c
    <2>11. LET z == Position(side, k, un, ud, rn, rd)
           IN  Sound(z) /\ Held(z) = side * k /\ Balanced(z, c)
      BY PositionFacts, <2>2, <2>7, <2>8
    <2> QED  BY <1>6, <1>7, <2>9, <2>10, <2>11
  <1>9. CASE s \notin {0, side} /\ quantity < q
    <2> DEFINE vn == rn * ((1 * ad) * 1)
                       + (((price * ad + (an * (-1)) * 1) * (s * quantity)) * 1 + (-com) * (1 * ad)) * rd
               vd == rd * ((1 * ad) * 1)
    <2>0. side = -s
      BY <1>9
    <2>1. ApplyFill(p, f) =
             Position(s, q - quantity, an, ad, vn, vd)
      BY <1>1, <1>2, <1>9 DEF ApplyFill, Reduce, Gain, Plus, Times, Fraction, Position
    <2>2. vn \in Int /\ vd \in Nat \ {0} /\ q - quantity \in Nat /\ q - quantity # 0
      BY <1>9
    <2>4. s * (q - quantity) = s * q + side * quantity
      BY <2>0
    <2>6. vn * ad - an * (s * (q - quantity)) * vd
             = ((cash + (-((-s) * quantity * price))) - com) * (vd * ad)
      BY <1>4, ReducingBalances
    <2> DEFINE k == q - quantity
               c == (cash + (-((-s) * quantity * price))) - com
    <2>7. k \in Nat /\ c \in Int /\ (s = 0 <=> k = 0)
      BY <1>9
    <2>8. Balances(s, k, an, ad, vn, vd, c)
      BY <2>6 DEF Balances
    <2>9. ApplyFill(p, f) = Position(s, k, an, ad, vn, vd)
      BY <2>1
    <2>10. c = (cash + Earned(f)) - Charge(Held(p), f) /\ s * k = Held(p) + Bought(f)
      BY <1>5, <1>6, <1>7, <1>9, <2>0, <2>4
    <2> HIDE DEF vn, vd, k, c
    <2>11. LET z == Position(s, k, an, ad, vn, vd)
           IN  Sound(z) /\ Held(z) = s * k /\ Balanced(z, c)
      BY PositionFacts, <2>2, <2>7, <2>8
    <2> QED  BY <1>6, <1>7, <2>9, <2>10, <2>11
  <1>10. CASE s \notin {0, side} /\ ~ (quantity < q)
    <2> DEFINE vn == rn * ((1 * ad) * 1)
                       + (((price * ad + (an * (-1)) * 1) * (s * q)) * 1 + (-com) * (1 * ad)) * rd
               vd == rd * ((1 * ad) * 1)
    <2>0. side = -s
      BY <1>10
    <2>2. vn \in Int /\ vd \in Nat \ {0} /\ quantity - q \in Nat
      BY <1>10
    <2>4. (-s) * (quantity - q) = s * q + side * quantity
      BY <2>0
    <2>6. vn * 1 - price * ((-s) * (quantity - q)) * vd
             = ((cash + (-((-s) * quantity * price))) - com) * (vd * 1)
      BY <1>4, FlippingBalances
    <2> DEFINE c == (cash + (-((-s) * quantity * price))) - com
    <2>c. c \in Int /\ c = (cash + Earned(f)) - Charge(Held(p), f)
      BY <1>5, <1>7, <1>10, <2>0
    <2>7. CASE quantity > q
      <3>1. ApplyFill(p, f) =
               Position(side, quantity - q, price, 1, vn, vd)
        BY <1>1, <1>2, <1>10, <2>7 DEF ApplyFill, CloseOrFlip, Flat, Gain, Plus, Times, Fraction, Position
      <3> DEFINE k == quantity - q
      <3>2. k \in Nat /\ side \in {1, 0, -1} /\ (side = 0 <=> k = 0)
        BY <2>7
      <3>3. Balances(side, k, price, 1, vn, vd, c)
        BY <2>0, <2>6 DEF Balances
      <3>4. ApplyFill(p, f) = Position(side, k, price, 1, vn, vd)
        BY <3>1
      <3>5. side * k = Held(p) + Bought(f)
        BY <1>5, <1>6, <2>0, <2>4
      <3> HIDE DEF vn, vd, k, c
      <3>6. LET z == Position(side, k, price, 1, vn, vd)
            IN  Sound(z) /\ Held(z) = side * k /\ Balanced(z, c)
        <4> DEFINE one == 1
        <4>1. one \in Nat \ {0} /\ price \in Int /\ c \in Int
          BY <2>c
        <4>2. Balances(side, k, price, one, vn, vd, c)
          BY <3>3
        <4> HIDE DEF one
        <4>3. LET z == Position(side, k, price, one, vn, vd)
              IN  Sound(z) /\ Held(z) = side * k /\ Balanced(z, c)
          BY PositionFacts, <2>2, <3>2, <4>1, <4>2
        <4> QED  BY <4>3 DEF one
      <3> QED  BY <1>6, <1>7, <1>10, <2>c, <3>4, <3>5, <3>6
    <2>8. CASE quantity = q
      <3>1. ApplyFill(p, f) =
               Position(0, 0, 0, 1, vn, vd)
        BY <1>1, <1>2, <1>10, <2>8 DEF ApplyFill, CloseOrFlip, Flat, Gain, Plus, Times, Fraction, Position
      <3>2. vn * 1 - 0 * (0 * 0) * vd = ((cash + (-((-s) * quantity * price))) - com) * (vd * 1)
        <4>1. (-s) * (quantity - q) = 0
          BY <2>8
        <4>2. vn * 1 - price * 0 * vd = ((cash + (-((-s) * quantity * price))) - com) * (vd * 1)
          BY <2>6, <4>1
        <4> QED  BY <2>2, <4>2
      <3>3. Balances(0, 0, 0, 1, vn, vd, c)
        BY <3>2 DEF Balances
      <3>4. 0 * 0 = Held(p) + Bought(f)
        BY <1>5, <1>6, <2>0, <2>8
      <3> HIDE DEF vn, vd, c
      <3>5. LET z == Position(0, 0, 0, 1, vn, vd)
            IN  Sound(z) /\ Held(z) = 0 * 0 /\ Balanced(z, c)
        <4> DEFINE one == 1
                   zero == 0
        <4>1. /\ one \in Nat \ {0} /\ zero \in Nat /\ zero \in {1, 0, -1} /\ zero \in Int
              /\ (zero = 0 <=> zero = 0) /\ c \in Int
          BY <2>c
        <4>2. Balances(zero, zero, zero, one, vn, vd, c)
          BY <3>3
        <4> HIDE DEF one, zero
        <4>3. LET z == Position(zero, zero, zero, one, vn, vd)
              IN  Sound(z) /\ Held(z) = zero * zero /\ Balanced(z, c)
          BY PositionFacts, <2>2, <4>1, <4>2
        <4> QED  BY <4>3 DEF one, zero
      <3> QED  BY <1>6, <1>7, <1>10, <2>c, <3>1, <3>4, <3>5
    <2> QED  BY <1>10, <2>7, <2>8
  <1> QED  BY <1>8, <1>9, <1>10
-----------------------------------------------------------------------------
(* Fills, one after another, change the position by what they bought, and  *)
(* its money by what they earned.                                          *)
AfterFills(after, fills) ==
    after = [n \in 0 .. Len(fills) |-> IF n = 0 THEN Flat ELSE ApplyFill(after[n - 1], fills[n])]

LEMMA FlatBalances == Sound(Flat) /\ Held(Flat) = 0 /\ Balanced(Flat, 0)
BY DEF Flat, Fraction, Sound, Positions, Fractions, Held, Balanced

LEMMA AfterFillsExists ==
    ASSUME NEW fills \in Seq(ExchangeFill)
    PROVE  \E after : AfterFills(after, fills)
  <1> DEFINE len == Len(fills)
             Real == {p \in Positions : Sound(p) /\ \E cash \in Int : Balanced(p, cash)}
             step == [n \in 1 .. len |-> [p \in Real |-> ApplyFill(p, fills[n])]]
  <1>1. len \in Nat /\ \A n \in 1 .. len : fills[n] \in ExchangeFill
    BY ElementOfSeq
  <1>2. Flat \in Real
    BY FlatBalances DEF Sound
  <1>3. ASSUME NEW n \in 1 .. len, NEW p \in Real
        PROVE  ApplyFill(p, fills[n]) \in Real
    <2>1. PICK cash \in Int : Balanced(p, cash)
      OBVIOUS
    <2>2. fills[n] \in ExchangeFill /\ Sound(p)
      BY <1>1
    <2> DEFINE f == fills[n]
    <2> HIDE DEF f
    <2>3. /\ Sound(ApplyFill(p, f))
          /\ Balanced(ApplyFill(p, f), (cash + Earned(f)) - Charge(Held(p), f))
          /\ Earned(f) \in Int /\ Charge(Held(p), f) \in Int
      BY <2>1, <2>2, FillBalances DEF f
    <2>4. (cash + Earned(f)) - Charge(Held(p), f) \in Int
      BY <2>3
    <2> QED  BY <2>3, <2>4 DEF Sound, f
  <1>4. step \in [1 .. len -> [Real -> Real]]
    BY <1>3
  <1>5. \A n \in 1 .. len, p \in Real : step[n][p] = ApplyFill(p, fills[n])
    OBVIOUS
  <1> HIDE DEF step, Real
  <1>6. PICK after : Course(after, Flat, step, len)
    BY <1>1, CourseExists
  <1>7. after \in [0 .. len -> Real]
    BY <1>1, <1>2, <1>4, <1>6, CourseStays
  <1>8. \A n \in 0 .. len : n = 0 \/ (n \in 1 .. len /\ after[n - 1] \in Real)
    BY <1>1, <1>7
  <1>9. \A n \in 0 .. len : after[n] = IF n = 0 THEN Flat ELSE ApplyFill(after[n - 1], fills[n])
    BY <1>5, <1>6, <1>8 DEF Course
  <1>10. AfterFills(after, fills)
    BY <1>7, <1>9 DEF AfterFills
  <1> QED  BY <1>10

LEMMA FillAmounts ==
    ASSUME NEW f \in ExchangeFill
    PROVE  Bought(f) \in Int /\ Earned(f) \in Int /\ f.commission \in Int
  <1>1. PICK side \in {1, -1}, price \in Nat \ {0}, quantity \in Nat \ {0} :
           f.side = side /\ f.price = price /\ f.quantity = quantity /\ f.commission \in Int
    BY RebuilderAssumption DEF ExchangeFill, RebuilderAssumption
  <1>2. Bought(f) = side * quantity /\ Earned(f) = -(side * quantity * price)
    BY <1>1 DEF Bought, Earned
  <1> QED  BY <1>1, <1>2

(* What fills bought and what they earned are sums of numbers.             *)
LEMMA SignedIsSum ==
    ASSUME NEW fills \in Seq(ExchangeFill)
    PROVE  LET bought == [n \in 1 .. Len(fills) |-> Bought(fills[n])]
           IN  /\ bought \in [1 .. Len(fills) -> Int]
               /\ Holding(fills) \in [0 .. Len(fills) -> Int]
               /\ Sums(Holding(fills), bought, Len(fills))
               /\ Signed(fills) = Holding(fills)[Len(fills)]
  <1> DEFINE len == Len(fills)
             bought == [n \in 1 .. len |-> Bought(fills[n])]
             Is(sum) == sum = [n \in 0 .. len |-> IF n = 0 THEN 0 ELSE sum[n - 1] + Bought(fills[n])]
             sum == CHOOSE sum : Is(sum)
  <1>1. len \in Nat /\ \A n \in 1 .. len : fills[n] \in ExchangeFill
    BY ElementOfSeq
  <1>2. \A f \in ExchangeFill : Bought(f) \in Int
    BY FillAmounts
  <1>3. bought \in [1 .. len -> Int] /\ \A n \in 1 .. len : bought[n] = Bought(fills[n])
    BY <1>1, <1>2
  <1>4. Holding(fills) = sum
    BY DEF Holding
  <1>5. \A n \in 0 .. len : n = 0 \/ n \in 1 .. len
    BY <1>1
  <1> HIDE DEF bought
  <1>6. ASSUME NEW s PROVE Sums(s, bought, len) <=> Is(s)
    BY <1>3, <1>5 DEF Sums
  <1>7. \E s : Is(s)
    BY <1>1, <1>3, <1>6, SumsExist
  <1> HIDE DEF Is
  <1>8. Is(sum)
    BY <1>7
  <1> HIDE DEF sum
  <1>9. Sums(sum, bought, len)
    BY <1>6, <1>8
  <1>10. sum \in [0 .. len -> Int]
    BY <1>1, <1>3, <1>9, SumsAreNumbers
  <1> QED  BY <1>3, <1>4, <1>9, <1>10 DEF bought, Signed

LEMMA CashIsSum ==
    ASSUME NEW fills \in Seq(ExchangeFill)
    PROVE  LET earned == [n \in 1 .. Len(fills) |-> Earned(fills[n])]
           IN  /\ earned \in [1 .. Len(fills) -> Int]
               /\ \E sum \in [0 .. Len(fills) -> Int] :
                     Sums(sum, earned, Len(fills)) /\ Cash(fills) = sum[Len(fills)]
  <1> DEFINE len == Len(fills)
             earned == [n \in 1 .. len |-> Earned(fills[n])]
             Is(sum) == sum = [n \in 0 .. len |-> IF n = 0 THEN 0 ELSE sum[n - 1] + Earned(fills[n])]
             sum == CHOOSE sum : Is(sum)
  <1>1. len \in Nat /\ \A n \in 1 .. len : fills[n] \in ExchangeFill
    BY ElementOfSeq
  <1>2. \A f \in ExchangeFill : Earned(f) \in Int
    BY FillAmounts
  <1>3. earned \in [1 .. len -> Int] /\ \A n \in 1 .. len : earned[n] = Earned(fills[n])
    BY <1>1, <1>2
  <1>4. Cash(fills) = sum[len]
    BY DEF Cash
  <1>5. \A n \in 0 .. len : n = 0 \/ n \in 1 .. len
    BY <1>1
  <1> HIDE DEF earned
  <1>6. ASSUME NEW s PROVE Sums(s, earned, len) <=> Is(s)
    BY <1>3, <1>5 DEF Sums
  <1>7. \E s : Is(s)
    BY <1>1, <1>3, <1>6, SumsExist
  <1> HIDE DEF Is
  <1>8. Is(sum)
    BY <1>7
  <1> HIDE DEF sum
  <1>9. Sums(sum, earned, len)
    BY <1>6, <1>8
  <1>10. sum \in [0 .. len -> Int]
    BY <1>1, <1>3, <1>9, SumsAreNumbers
  <1> QED  BY <1>3, <1>4, <1>9, <1>10 DEF earned
(* The commissions of closing fills are a sum over what was held before.   *)
LEMMA ChargesAreSum ==
    ASSUME NEW fills \in Seq(ExchangeFill)
    PROVE  LET charged == [n \in 1 .. Len(fills) |-> Charge(Holding(fills)[n - 1], fills[n])]
           IN  /\ charged \in [1 .. Len(fills) -> Int]
               /\ \E sum \in [0 .. Len(fills) -> Int] :
                     Sums(sum, charged, Len(fills)) /\ Charges(fills) = sum[Len(fills)]
  <1> DEFINE len == Len(fills)
             charged == [n \in 1 .. len |-> Charge(Holding(fills)[n - 1], fills[n])]
             Is(sum) == sum = [n \in 0 .. len |->
                            IF n = 0 THEN 0
                            ELSE sum[n - 1] + Charge(Holding(fills)[n - 1], fills[n])]
             sum == CHOOSE sum : Is(sum)
  <1>1. len \in Nat /\ \A n \in 1 .. len : fills[n] \in ExchangeFill
    BY ElementOfSeq
  <1>2. \A f \in ExchangeFill : f.commission \in Int
    BY FillAmounts
  <1>3. charged \in [1 .. len -> Int] /\ \A n \in 1 .. len : charged[n] = Charge(Holding(fills)[n - 1], fills[n])
    BY <1>1, <1>2 DEF Charge
  <1>4. Charges(fills) = sum[len]
    BY DEF Charges
  <1>5. \A n \in 0 .. len : n = 0 \/ n \in 1 .. len
    BY <1>1
  <1> HIDE DEF charged
  <1>6. ASSUME NEW s PROVE Sums(s, charged, len) <=> Is(s)
    BY <1>3, <1>5 DEF Sums
  <1>7. \E s : Is(s)
    BY <1>1, <1>3, <1>6, SumsExist
  <1> HIDE DEF Is
  <1>8. Is(sum)
    BY <1>7
  <1> HIDE DEF sum
  <1>9. Sums(sum, charged, len)
    BY <1>6, <1>8
  <1>10. sum \in [0 .. len -> Int]
    BY <1>1, <1>3, <1>9, SumsAreNumbers
  <1> QED  BY <1>3, <1>4, <1>9, <1>10 DEF charged

(* The position after all fills holds what they bought, and the money they *)
(* earned less the commissions of closing.                                 *)
LEMMA RebuiltAddsUp ==
    ASSUME NEW fills \in Seq(ExchangeFill)
    PROVE  /\ Sound(Folded(fills)) /\ Held(Folded(fills)) = Signed(fills)
           /\ Balanced(Folded(fills), Cash(fills) - Charges(fills))
           /\ Signed(fills) \in Int /\ Cash(fills) \in Int /\ Charges(fills) \in Int
  <1> DEFINE len == Len(fills)
             after == CHOOSE after : AfterFills(after, fills)
             bought == [n \in 1 .. len |-> Bought(fills[n])]
             earned == [n \in 1 .. len |-> Earned(fills[n])]
             charged == [n \in 1 .. len |-> Charge(Holding(fills)[n - 1], fills[n])]
  <1>1. len \in Nat /\ \A n \in 1 .. len : fills[n] \in ExchangeFill
    BY ElementOfSeq
  <1>2. Folded(fills) = after[len]
    BY DEF Folded, AfterFills
  <1>3. AfterFills(after, fills)
    BY AfterFillsExists
  <1>4. PICK units \in [0 .. len -> Int] :
           /\ Sums(units, bought, len) /\ Signed(fills) = units[len] /\ units = Holding(fills)
    BY SignedIsSum
  <1>5. PICK money \in [0 .. len -> Int] : Sums(money, earned, len) /\ Cash(fills) = money[len]
    BY CashIsSum
  <1>c. PICK fees \in [0 .. len -> Int] : Sums(fees, charged, len) /\ Charges(fills) = fees[len]
    BY ChargesAreSum
  <1>6. \A n \in 1 .. len : /\ bought[n] = Bought(fills[n]) /\ earned[n] = Earned(fills[n])
                             /\ charged[n] = Charge(units[n - 1], fills[n])
    BY <1>4
  <1> HIDE DEF after, bought, earned, charged
  <1> DEFINE Good(n) == /\ Sound(after[n]) /\ Held(after[n]) = units[n]
                        /\ Balanced(after[n], money[n] - fees[n])
             Bad == {n \in 0 .. len : ~ Good(n)}
  <1>7. Good(0)
    <2>1. after[0] = Flat /\ units[0] = 0 /\ money[0] = 0 /\ fees[0] = 0
      BY <1>1, <1>3, <1>4, <1>5, <1>c DEF AfterFills, Sums
    <2> QED  BY <2>1, FlatBalances
  <1>8. ASSUME NEW n \in 1 .. len, Good(n - 1) PROVE Good(n)
    <2>1. n \in 0 .. len /\ n # 0 /\ n - 1 \in 0 .. len
      BY <1>1
    <2>2. after[n] = ApplyFill(after[n - 1], fills[n])
      BY <1>3, <2>1 DEF AfterFills
    <2>3. /\ units[n] = units[n - 1] + Bought(fills[n])
          /\ money[n] = money[n - 1] + Earned(fills[n])
          /\ fees[n] = fees[n - 1] + Charge(units[n - 1], fills[n])
      BY <1>4, <1>5, <1>6, <1>c, <2>1 DEF Sums
    <2>4. fills[n] \in ExchangeFill /\ money[n - 1] \in Int /\ fees[n - 1] \in Int
      BY <1>1, <2>1
    <2> DEFINE p == after[n - 1]
               f == fills[n]
               c == money[n - 1] - fees[n - 1]
    <2>5. Sound(p) /\ Held(p) = units[n - 1] /\ Balanced(p, c) /\ f \in ExchangeFill /\ c \in Int
      BY <1>8, <2>4
    <2> HIDE DEF p, f, c
    <2>6. /\ Sound(ApplyFill(p, f)) /\ Held(ApplyFill(p, f)) = Held(p) + Bought(f)
          /\ Balanced(ApplyFill(p, f), (c + Earned(f)) - Charge(Held(p), f))
          /\ Earned(f) \in Int /\ Charge(Held(p), f) \in Int
      BY <2>5, FillBalances
    <2>7. money[n] - fees[n] = (c + Earned(f)) - Charge(Held(p), f)
      <3>1. money[n] = money[n - 1] + Earned(f) /\ fees[n] = fees[n - 1] + Charge(Held(p), f)
        BY <2>3, <2>5 DEF f
      <3>2. c = money[n - 1] - fees[n - 1]
        BY DEF c
      <3> QED  BY <2>4, <2>6, <3>1, <3>2
    <2>8. Sound(after[n]) /\ Balanced(after[n], money[n] - fees[n])
      BY <2>2, <2>6, <2>7 DEF p, f
    <2>9. Held(after[n]) = units[n]
      BY <2>2, <2>3, <2>5, <2>6 DEF p, f
    <2> QED  BY <2>8, <2>9
  <1>9. Bad = {}
    <2> SUFFICES ASSUME Bad # {} PROVE FALSE
      OBVIOUS
    <2>1. PICK n \in Bad : \A y \in Bad : n <= y
      <3>1. Bad \in SUBSET Nat
        OBVIOUS
      <3> HIDE DEF Bad
      <3> QED  BY <3>1, LeastNumber
    <2>2. n # 0 /\ n \in 0 .. len /\ ~ Good(n)
      BY <1>7
    <2>3. n - 1 \in 0 .. len /\ n - 1 \notin Bad /\ n \in 1 .. len
      <3> HIDE DEF Good
      <3> QED  BY <1>1, <2>1, <2>2
    <2>4. Good(n - 1)
      <3> HIDE DEF Good
      <3> QED  BY <2>3
    <2> QED
      <3> HIDE DEF Good
      <3> QED  BY <1>8, <2>2, <2>3, <2>4
  <1>10. len \in 0 .. len
    BY <1>1
  <1>11. Good(len)
    <2> HIDE DEF Good
    <2> QED  BY <1>9, <1>10
  <1>12. units[len] \in Int /\ money[len] \in Int /\ fees[len] \in Int
    BY <1>10
  <1> QED  BY <1>2, <1>4, <1>5, <1>c, <1>11, <1>12

(* It does not matter for the sums whether fills are listed from the       *)
(* first or from the last.                                                 *)
LEMMA ReversedSums ==
    ASSUME NEW fills \in Seq(ExchangeFill)
    PROVE  /\ Reverse(fills) \in Seq(ExchangeFill)
           /\ Signed(Reverse(fills)) = Signed(fills) /\ Cash(Reverse(fills)) = Cash(fills)
  <1>1. PICK len \in Nat : len = Len(fills)
    OBVIOUS
  <1>2. PICK turned \in Seq(ExchangeFill) :
           /\ turned = Reverse(fills) /\ Len(turned) = len
           /\ \A n \in 1 .. len : turned[n] = fills[(len - n) + 1]
    <2>1. \A n \in 1 .. len : (len - n) + 1 \in 1 .. len /\ fills[(len - n) + 1] \in ExchangeFill
      BY <1>1, ElementOfSeq
    <2>2. Reverse(fills) = [n \in 1 .. len |-> fills[(len - n) + 1]]
      BY <1>1 DEF Reverse
    <2> DEFINE back == [n \in 1 .. len |-> fills[(len - n) + 1]]
    <2>3. back \in Seq(ExchangeFill) /\ Len(back) = len
      BY <2>1
    <2>4. \A n \in 1 .. len : back[n] = fills[(len - n) + 1]
      OBVIOUS
    <2> HIDE DEF back
    <2> QED  BY <2>2, <2>3, <2>4 DEF back
  <1>3. \A n \in 1 .. len : (len - n) + 1 \in 1 .. len
    OBVIOUS
  <1>4. Signed(turned) = Signed(fills)
    <2>1. PICK bought, units :
             /\ bought \in [1 .. len -> Int] /\ bought = [n \in 1 .. len |-> Bought(fills[n])]
             /\ Sums(units, bought, len) /\ Signed(fills) = units[len]
      BY <1>1, SignedIsSum
    <2>2. PICK back, unitsBack :
             /\ back = [n \in 1 .. len |-> Bought(turned[n])]
             /\ Sums(unitsBack, back, len) /\ Signed(turned) = unitsBack[len]
      BY <1>2, SignedIsSum
    <2>3. Turns(back, bought, len)
      <3>1. back = [n \in 1 .. len |-> bought[(len - n) + 1]]
        BY <1>2, <1>3, <2>1, <2>2
      <3>2. bought \in [1 .. len -> Int]
        BY <2>1
      <3> QED  BY <3>1, <3>2 DEF Turns
    <2>4. Sums(units, bought, len)
      BY <2>1
    <2>5. Sums(unitsBack, back, len)
      BY <2>2
    <2>6. unitsBack[len] = units[len]
      BY <2>3, <2>4, <2>5, TurnedSums
    <2> QED  BY <2>1, <2>2, <2>6
  <1>5. Cash(turned) = Cash(fills)
    <2>1. PICK earned, money :
             /\ earned \in [1 .. len -> Int] /\ earned = [n \in 1 .. len |-> Earned(fills[n])]
             /\ Sums(money, earned, len) /\ Cash(fills) = money[len]
      BY <1>1, CashIsSum
    <2>2. PICK back, moneyBack :
             /\ back = [n \in 1 .. len |-> Earned(turned[n])]
             /\ Sums(moneyBack, back, len) /\ Cash(turned) = moneyBack[len]
      BY <1>2, CashIsSum
    <2>3. Turns(back, earned, len)
      <3>1. back = [n \in 1 .. len |-> earned[(len - n) + 1]]
        BY <1>2, <1>3, <2>1, <2>2
      <3>2. earned \in [1 .. len -> Int]
        BY <2>1
      <3> QED  BY <3>1, <3>2 DEF Turns
    <2>4. Sums(money, earned, len)
      BY <2>1
    <2>5. Sums(moneyBack, back, len)
      BY <2>2
    <2>6. moneyBack[len] = money[len]
      BY <2>3, <2>4, <2>5, TurnedSums
    <2> QED  BY <2>1, <2>2, <2>6
  <1> QED  BY <1>2, <1>4, <1>5

(* When nothing was traded and the limit was not met, what was fetched is  *)
(* the whole listing; so the position rebuilt from it is exact.            *)
LEMMA QuietIsExact == RebuildIInv /\ QuietInv => RebuildIsExact
  <1> SUFFICES ASSUME RebuildIInv, QuietInv PROVE RebuildIsExact
    OBVIOUS
  <1>1. ASSUME rebuilder = "done", history = atStart, Len(history) <= Reach
        PROVE  /\ Rebuilt(allFills) = {} <=> Signed(history) = 0
               /\ \A p \in Rebuilt(allFills) :
                    /\ p.side * p.quantity = Signed(history)
                    /\ Equal(Plus(p.realized, Times(p.average, -(p.side * p.quantity))),
                             Fraction(Cash(history) - Charges(allFills), 1))
    <2>1. /\ history \in Seq(ExchangeFill) /\ allFills \in Seq(ExchangeFill)
          /\ Len(history) \in Nat /\ offset \in Nat /\ Reach \in Nat
      BY RebuilderAssumption DEF RebuildIInv, RebuildTypeOK, Reach
    <2>2. Len(history) <= offset
      BY <1>1, <2>1 DEF RebuildIInv, RebuildInv
    <2>3. /\ Len(allFills) = Len(history)
          /\ \A i \in 1 .. Len(allFills) : allFills[i] = Listed[i]
      BY <1>1, <2>1, <2>2 DEF QuietInv
    <2>4. /\ Reverse(history) \in Seq(ExchangeFill)
          /\ Signed(Reverse(history)) = Signed(history) /\ Cash(Reverse(history)) = Cash(history)
      BY <2>1, ReversedSums
    <2>5. Listed \in Seq(ExchangeFill) /\ Len(Listed) = Len(history)
      BY <2>1, <2>4 DEF Listed, Reverse
    <2>6. allFills = Listed
      BY <2>1, <2>3, <2>5, SeqEqual
    <2>7. Signed(allFills) = Signed(history) /\ Cash(allFills) = Cash(history)
      BY <2>4, <2>6 DEF Listed
    <2> DEFINE p == Folded(allFills)
               cash == Cash(history) - Charges(allFills)
    <2>8. Sound(p) /\ Held(p) = Signed(history) /\ Balanced(p, cash) /\ cash \in Int
      BY <2>1, <2>7, RebuiltAddsUp
    <2>r. Rebuilt(allFills) = {x \in {p} : x.side # 0}
      BY DEF Rebuilt
    <2> HIDE DEF p, cash
    <2>9. p.side * p.quantity = Signed(history)
      BY <2>8 DEF Held
    <2>10. Equal(Plus(p.realized, Times(p.average, -(p.side * p.quantity))),
                 Fraction(cash, 1))
      <3>p. p \in Positions
        BY <2>8 DEF Sound
      <3>s. PICK s \in Int, q \in Int : p.side = s /\ p.quantity = q
        BY <3>p DEF Positions
      <3>a. PICK an \in Int, ad \in Nat \ {0} : p.average = [n |-> an, d |-> ad]
        BY <3>p DEF Positions, Fractions
      <3>r. PICK rn \in Int, rd \in Nat \ {0} : p.realized = [n |-> rn, d |-> rd]
        BY <3>p DEF Positions, Fractions
      <3>1. /\ p.side = s /\ p.quantity = q /\ p.average = [n |-> an, d |-> ad]
            /\ p.realized = [n |-> rn, d |-> rd]
        BY <3>s, <3>a, <3>r
      <3>2. cash \in Int
        BY <2>8
      <3>3. rn * ad - an * (s * q) * rd = cash * (rd * ad)
        BY <2>8, <3>1 DEF Balanced, Held
      <3>4. Plus(p.realized, Times(p.average, -(p.side * p.quantity)))
               = [n |-> rn * ad + (an * (-(s * q))) * rd, d |-> rd * ad]
        BY <3>1 DEF Plus, Times, Fraction
      <3>5. (rn * ad + (an * (-(s * q))) * rd) * 1 = cash * (rd * ad)
        BY <3>2, <3>3
      <3> QED  BY <3>4, <3>5 DEF Equal, Fraction
    <2>11. p.side = 0 <=> Signed(history) = 0
      <3>1. PICK x \in {1, 0, -1}, k \in Nat : p.side = x /\ p.quantity = k /\ (x = 0 <=> k = 0)
        BY <2>8 DEF Sound, Positions
      <3> QED  BY <2>9, <3>1
    <2> QED  BY <2>9, <2>10, <2>11, <2>r DEF cash
  <1> QED  BY <1>1, RebuildCovers DEF RebuildIsExact

-----------------------------------------------------------------------------
(***************************************************************************)
(* The supervisor of the Python workers.  A worker has the process of its  *)
(* handle and no other, and its lock is held by the thread that changes it. *)
(***************************************************************************)
MainPlaces == {"start", "starting", "launch", "wait", "stop", "stopping", "join", "exited"}
MonitorPlaces == {"none", "look", "poll", "judge", "delay", "restart", "restarting", "pause",
                  "stop", "stopping", "failed", "ended"}

WorkersTypeOK ==
    /\ addressLimit \in {2, 4, Unlimited}
    /\ workerState \in [Workers -> {"stopped", "running", "crashed", "restarting"}]
    /\ handle \in [Workers -> {"none", "alive", "dead"}]
    /\ live \in [Workers -> Nat]
    /\ lockedBy \in [Workers -> {"nobody", "main", "monitor"}]

SupervisorTypeOK ==
    /\ privileged \in BOOLEAN /\ isRunning \in BOOLEAN
    /\ WorkersTypeOK
    /\ stopFlag \in [Workers -> BOOLEAN]
    /\ restarts \in [Workers -> Nat]
    /\ main \in [pc : MainPlaces, at : Workers]
    /\ monitor \in [pc : MonitorPlaces, at : Workers]
    /\ deaths \in Nat /\ signals \in Nat
    /\ misjudged \subseteq Workers /\ late \subseteq Workers

(* A worker has the process of its handle and no other.                    *)
OneProcess == \A w \in Workers : live[w] = IF handle[w] = "alive" THEN 1 ELSE 0

(* stop has done its work on the worker, and what runs of it since then    *)
(* the monitor has started.                                                *)
Stopped(w) == stopFlag[w] /\ (live[w] = 0 \/ w \in late)

(* The workers that the stop_all of the main thread has dealt with.        *)
StoppedByMain ==
    CASE main.pc \in {"stop", "stopping"} -> {w \in Workers : w < main.at}
      [] main.pc \in {"join", "exited"} -> Workers
      [] OTHER -> {}

SupervisorInv ==
    /\ OneProcess
    /\ \A w \in Workers : restarts[w] <= RestartLimit
    /\ monitor.pc = "delay" => restarts[monitor.at] < RestartLimit
    /\ main.pc = "stopping" => stopFlag[main.at]
    /\ \A w \in StoppedByMain : Stopped(w)

SupervisorIInv == SupervisorTypeOK /\ SupervisorInv

-----------------------------------------------------------------------------
(* Taking the lock of a worker changes nothing else of it.                 *)
LEMMA LockTaken ==
    ASSUME WorkersTypeOK, NEW w \in Workers, NEW who \in {"main", "monitor"}, Acquire(w, who),
           UNCHANGED <<addressLimit, workerState, handle, live>>
    PROVE  WorkersTypeOK'
  BY DEF WorkersTypeOK, Acquire

(* A start leaves every worker with the process of its handle.             *)
LEMMA StartKeeps ==
    ASSUME WorkersTypeOK, OneProcess, NEW w \in Workers, FinishStart(w)
    PROVE  WorkersTypeOK' /\ OneProcess' /\ \A v \in Workers \ {w} : live'[v] = live[v]
  <1>1. CASE AlreadyRunning(w)
    BY <1>1 DEF AlreadyRunning, FinishStart, Release, WorkersTypeOK, OneProcess
  <1>2. CASE Spawn(w)
    BY <1>2 DEF Spawn, FinishStart, Release, WorkersTypeOK, OneProcess, Ram
  <1>3. CASE SpawnFails(w)
    BY <1>3 DEF SpawnFails, FinishStart, Release, WorkersTypeOK, OneProcess, Ram
  <1> QED  BY <1>1, <1>2, <1>3 DEF FinishStart

(* A stop leaves the worker without a process.                             *)
LEMMA StopEnds ==
    ASSUME WorkersTypeOK, OneProcess, NEW w \in Workers, FinishStop(w)
    PROVE  /\ WorkersTypeOK' /\ OneProcess'
           /\ live'[w] = 0 /\ \A v \in Workers \ {w} : live'[v] = live[v]
  BY DEF FinishStop, Release, WorkersTypeOK, OneProcess

(* The supervisor starts with no process.                                  *)
LEMMA SupervisorInitInv == SupervisorInit => SupervisorIInv
  <1> SUFFICES ASSUME SupervisorInit PROVE SupervisorIInv
    OBVIOUS
  <1>1. 1 \in Workers
    BY SupervisorAssumption DEF Workers
  <1>2. main \in [pc : MainPlaces, at : Workers] /\ main.pc = "start"
    BY <1>1 DEF SupervisorInit, At, MainPlaces
  <1>3. monitor \in [pc : MonitorPlaces, at : Workers] /\ monitor.pc = "none"
    BY <1>1 DEF SupervisorInit, At, MonitorPlaces
  <1>4. SupervisorTypeOK
    BY <1>2, <1>3 DEF SupervisorInit, SupervisorTypeOK, WorkersTypeOK
  <1> QED
    BY <1>2, <1>3, <1>4, SupervisorAssumption
    DEF SupervisorInit, SupervisorIInv, SupervisorInv, OneProcess, StoppedByMain

(* Every step of the two threads and of the workers keeps it.              *)
LEMMA SupervisorStep == SupervisorIInv /\ [SupervisorNext]_supervisorVars => SupervisorIInv'
  <1> SUFFICES ASSUME SupervisorIInv, [SupervisorNext]_supervisorVars PROVE SupervisorIInv'
    OBVIOUS
  <1> USE SupervisorAssumption DEF SupervisorIInv
  <1>w. /\ main.at \in Workers /\ monitor.at \in Workers /\ 1 \in Workers
        /\ \A w \in Workers : w < NumWorkers => w + 1 \in Workers
    BY DEF SupervisorTypeOK, Workers
  <1>1. CASE MainStarts
    <2> DEFINE w == main.at
    <2>1. CASE main.pc = "start" /\ Acquire(w, "main") /\ main' = At("starting", w)
               /\ UNCHANGED <<addressLimit, workerState, handle, live>>
      <3>1. WorkersTypeOK'
        BY <1>w, <2>1, LockTaken DEF SupervisorTypeOK
      <3> QED
        BY <1>w, <1>1, <2>1, <3>1 DEF MainStarts, At, SupervisorTypeOK, SupervisorInv, OneProcess,
           StoppedByMain, MainPlaces
    <2>2. CASE main.pc = "starting" /\ FinishStart(w)
               /\ main' = IF w < NumWorkers THEN At("start", w + 1) ELSE At("launch", 1)
      <3>1. WorkersTypeOK' /\ OneProcess'
        BY <1>w, <2>2, StartKeeps DEF SupervisorTypeOK, SupervisorInv
      <3> QED
        BY <1>w, <1>1, <2>2, <3>1 DEF MainStarts, At, SupervisorTypeOK, SupervisorInv,
           StoppedByMain, MainPlaces
    <2> QED  BY <1>1, <2>1, <2>2 DEF MainStarts
  <1>2. CASE LaunchMonitor
    BY <1>w, <1>2 DEF LaunchMonitor, workerVars, At, SupervisorTypeOK, WorkersTypeOK, SupervisorInv,
       OneProcess, StoppedByMain, MainPlaces, MonitorPlaces
  <1>3. CASE MainStops
    <2> DEFINE w == main.at
    <2>1. CASE main.pc = "stop" /\ BeginStop(w, "main") /\ main' = At("stopping", w)
      <3>1. WorkersTypeOK' /\ stopFlag' = [stopFlag EXCEPT ![w] = TRUE]
            /\ UNCHANGED <<handle, live>>
        BY <1>w, <2>1, LockTaken DEF SupervisorTypeOK, BeginStop
      <3> QED
        BY <1>w, <1>3, <2>1, <3>1 DEF MainStops, At, SupervisorTypeOK, SupervisorInv, OneProcess,
           StoppedByMain, Stopped, MainPlaces
    <2>2. CASE main.pc = "stopping" /\ FinishStop(w) /\ UNCHANGED stopFlag
               /\ main' = IF w < NumWorkers THEN At("stop", w + 1) ELSE At("join", 1)
      <3>1. /\ WorkersTypeOK' /\ OneProcess'
            /\ live'[w] = 0 /\ \A v \in Workers \ {w} : live'[v] = live[v]
        BY <1>w, <2>2, StopEnds DEF SupervisorTypeOK, SupervisorInv
      <3>2. SupervisorTypeOK'
        BY <1>w, <1>3, <2>2, <3>1 DEF MainStops, At, SupervisorTypeOK, MainPlaces
      <3>3. \A v \in StoppedByMain' : v \in Workers /\ (v = w \/ v < w)
        BY <1>w, <2>2 DEF At, StoppedByMain, Workers
      <3>4. \A v \in StoppedByMain' : Stopped(v)'
        BY <1>w, <1>3, <2>2, <3>1, <3>3 DEF MainStops, SupervisorInv, StoppedByMain, Stopped
      <3> QED
        BY <1>w, <1>3, <2>2, <3>1, <3>2, <3>4 DEF MainStops, At, SupervisorInv
    <2> QED  BY <1>3, <2>1, <2>2 DEF MainStops
  <1>4. CASE Exit
    BY <1>w, <1>4 DEF Exit, workerVars, At, SupervisorTypeOK, WorkersTypeOK, SupervisorInv,
       OneProcess, StoppedByMain, Stopped, MainPlaces
  <1>5. CASE Signal
    <2>1. main' \in [pc : MainPlaces, at : Workers] /\ main'.pc = "stop" /\ main'.at = 1
      BY <1>w, <1>5 DEF Signal, At, MainPlaces
    <2>2. StoppedByMain' = {}
      BY <2>1 DEF StoppedByMain, Workers
    <2>3. SupervisorTypeOK'
      <3>1. isRunning' \in BOOLEAN
        BY <1>5 DEF Signal
      <3>2. signals' \in Nat
        BY <1>5 DEF Signal, SupervisorTypeOK
      <3>3. UNCHANGED <<privileged, workerVars, stopFlag, restarts, monitor, deaths, misjudged, late>>
        BY <1>5 DEF Signal
      <3> QED  BY <2>1, <3>1, <3>2, <3>3 DEF workerVars, SupervisorTypeOK, WorkersTypeOK
    <2>4. UNCHANGED <<handle, live, restarts, monitor>>
      BY <1>5 DEF Signal, workerVars
    <2>5. OneProcess'
      BY <2>4 DEF SupervisorInv, OneProcess
    <2> QED  BY <2>1, <2>2, <2>3, <2>4, <2>5 DEF SupervisorInv
  <1>m. \A w \in Workers : NextWorker(w) \in [pc : MonitorPlaces, at : Workers]
                           /\ NextWorker(w).pc # "delay"
    BY <1>w DEF NextWorker, At, MonitorPlaces
  <1>6. CASE Look
    <2>1. monitor' \in [pc : MonitorPlaces, at : Workers] /\ monitor'.pc # "delay"
      BY <1>w, <1>m, <1>6 DEF Look, MonitorMoves, At, MonitorPlaces
    <2> QED
      BY <1>6, <2>1 DEF Look, MonitorMoves, workerVars, SupervisorTypeOK, WorkersTypeOK,
         SupervisorInv, OneProcess, StoppedByMain, Stopped
  <1>7. CASE Poll
    <2>1. monitor' \in [pc : MonitorPlaces, at : Workers] /\ monitor'.pc # "delay"
      BY <1>w, <1>m, <1>7 DEF Poll, MonitorMoves, At, MonitorPlaces, SupervisorTypeOK, WorkersTypeOK
    <2> QED
      BY <1>w, <1>7, <2>1 DEF Poll, MonitorMoves, workerVars, SupervisorTypeOK, WorkersTypeOK,
         SupervisorInv, OneProcess, StoppedByMain, Stopped
  <1>8. CASE Judge
    <2>1. /\ monitor' \in [pc : MonitorPlaces, at : Workers]
          /\ monitor'.pc = "delay" => restarts[monitor'.at] < RestartLimit
      BY <1>w, <1>m, <1>8 DEF Judge, MonitorMoves, At, MonitorPlaces, SupervisorTypeOK
    <2>2. isRunning' \in BOOLEAN
      BY <1>8 DEF Judge
    <2>3. SupervisorTypeOK'
      BY <1>w, <1>8, <2>1, <2>2 DEF Judge, MonitorMoves, SupervisorTypeOK, WorkersTypeOK
    <2> QED
      BY <1>8, <2>1, <2>3 DEF Judge, MonitorMoves, SupervisorInv, OneProcess, StoppedByMain, Stopped
  <1>9. CASE EndDelay
    <2>1. monitor' \in [pc : MonitorPlaces, at : Workers] /\ monitor'.pc = "restart"
      BY <1>w, <1>9 DEF EndDelay, MonitorMoves, At, MonitorPlaces
    <2>2. SupervisorTypeOK'
      BY <1>w, <1>9, <2>1 DEF EndDelay, MonitorMoves, workerVars, SupervisorTypeOK, WorkersTypeOK
    <2>3. \A w \in Workers : restarts'[w] <= RestartLimit
      BY <1>w, <1>9 DEF EndDelay, MonitorMoves, SupervisorTypeOK, SupervisorInv
    <2> QED
      BY <1>9, <2>1, <2>2, <2>3 DEF EndDelay, MonitorMoves, workerVars, SupervisorInv, OneProcess,
         StoppedByMain, Stopped
  <1>10. CASE RestartWorker
    <2> DEFINE w == monitor.at
    <2>1. CASE MonitorMoves("restart", At("restarting", w)) /\ Acquire(w, "monitor")
               /\ UNCHANGED <<addressLimit, workerState, handle, live, late>>
      <3>1. WorkersTypeOK'
        BY <1>w, <2>1, LockTaken DEF SupervisorTypeOK
      <3> QED
        BY <1>w, <1>10, <2>1, <3>1 DEF RestartWorker, MonitorMoves, At, MonitorPlaces,
           SupervisorTypeOK, SupervisorInv, OneProcess, StoppedByMain, Stopped
    <2>2. CASE MonitorMoves("restarting", NextWorker(w)) /\ FinishStart(w)
               /\ late' = IF stopFlag[w] THEN late \cup {w} ELSE late
      <3>1. WorkersTypeOK' /\ OneProcess' /\ \A v \in Workers \ {w} : live'[v] = live[v]
        BY <1>w, <2>2, StartKeeps DEF SupervisorTypeOK, SupervisorInv
      <3>2. SupervisorTypeOK'
        BY <1>w, <1>m, <1>10, <2>2, <3>1 DEF RestartWorker, MonitorMoves, SupervisorTypeOK
      <3>3. \A v \in StoppedByMain' : v \in Workers /\ v \in StoppedByMain
        BY <2>2 DEF MonitorMoves, StoppedByMain
      <3>4. \A v \in StoppedByMain' : Stopped(v)'
        BY <1>10, <2>2, <3>1, <3>3 DEF RestartWorker, SupervisorInv, Stopped
      <3> QED
        BY <1>w, <1>m, <1>10, <2>2, <3>1, <3>2, <3>4 DEF RestartWorker, MonitorMoves, SupervisorInv
    <2> QED  BY <1>10, <2>1, <2>2 DEF RestartWorker
  <1>11. CASE Pause
    <2>1. monitor' \in [pc : MonitorPlaces, at : Workers] /\ monitor'.pc # "delay"
      BY <1>w, <1>11 DEF Pause, MonitorMoves, At, MonitorPlaces
    <2> QED
      BY <1>11, <2>1 DEF Pause, MonitorMoves, workerVars, SupervisorTypeOK, WorkersTypeOK,
         SupervisorInv, OneProcess, StoppedByMain, Stopped
  <1>12. CASE EmergencyStops
    <2> DEFINE w == monitor.at
    <2>0. monitor' \in [pc : MonitorPlaces, at : Workers] /\ monitor'.pc # "delay"
          /\ UNCHANGED <<privileged, main, deaths, signals>>
      BY <1>w, <1>12 DEF EmergencyStops, MonitorMoves, At, MonitorPlaces
    <2>1. CASE BeginStop(w, "monitor")
      <3>1. WorkersTypeOK' /\ stopFlag' = [stopFlag EXCEPT ![w] = TRUE]
            /\ UNCHANGED <<handle, live>>
        BY <1>w, <2>1, LockTaken DEF SupervisorTypeOK, BeginStop
      <3> QED
        BY <1>w, <1>12, <2>0, <2>1, <3>1 DEF EmergencyStops, SupervisorTypeOK, SupervisorInv,
           OneProcess, StoppedByMain, Stopped
    <2>2. CASE FinishStop(w) /\ UNCHANGED stopFlag
      <3>1. /\ WorkersTypeOK' /\ OneProcess'
            /\ live'[w] = 0 /\ \A v \in Workers \ {w} : live'[v] = live[v]
        BY <1>w, <2>2, StopEnds DEF SupervisorTypeOK, SupervisorInv
      <3> QED
        BY <1>w, <1>12, <2>0, <2>2, <3>1 DEF EmergencyStops, SupervisorTypeOK, SupervisorInv,
           StoppedByMain, Stopped
    <2> QED  BY <1>12, <2>1, <2>2 DEF EmergencyStops
  <1>13. ASSUME NEW w \in Workers, Dies(w) PROVE SupervisorIInv'
    BY <1>13 DEF Dies, SupervisorTypeOK, WorkersTypeOK, SupervisorInv, OneProcess, StoppedByMain,
       Stopped
  <1>14. CASE UNCHANGED supervisorVars
    BY <1>14 DEF supervisorVars, workerVars, SupervisorTypeOK, WorkersTypeOK, SupervisorInv,
       OneProcess, StoppedByMain, Stopped
  <1> QED
    BY <1>1, <1>2, <1>3, <1>4, <1>5, <1>6, <1>7, <1>8, <1>9, <1>10, <1>11, <1>12, <1>13, <1>14
    DEF SupervisorNext, MainThread, MonitorThread

(* The invariant accounts for every process.                               *)
LEMMA SupervisorImplies == SupervisorIInv => WorkersAccounted
  BY DEF SupervisorIInv, SupervisorInv, SupervisorTypeOK, OneProcess, StoppedByMain, Stopped, WorkersAccounted,
         Up, WorkersTypeOK

-----------------------------------------------------------------------------
(***************************************************************************)
(* The composition: a step of RecoverySpec is a step of each component or  *)
(* leaves its variables alone.                                             *)
(***************************************************************************)
LEMMA RecoveryInitParts ==
    RecoveryInit => WalInit /\ StoreInit /\ RebuildInit /\ SupervisorInit
  BY DEF RecoveryInit

(* A step of the composition is a step of each, or none.                   *)
LEMMA RecoveryStepParts ==
    [RecoveryNext]_recoveryVars =>
        /\ [WalNext]_walVars /\ [StoreNext]_storeVars
        /\ [RebuildNext]_rebuildVars /\ [SupervisorNext]_supervisorVars
  BY DEF recoveryVars, RecoveryNext, Logging, OrdersNext, PositionsNext, Supervising

(* Whatever the crashes, the rotations and the spilling of the buffer, a   *)
(* replay of the log has no holes, and in full mode it misses no more than *)
(* the channel and the entry being written (wal_writer.rs).                *)
THEOREM ReplayIsFaithful == RecoverySpec => []ReplayFollowsAppends
  <1>1. RecoveryInit => WalIInv
    BY RecoveryInitParts, WalInitInv
  <1>2. WalIInv /\ [RecoveryNext]_recoveryVars => WalIInv'
    BY RecoveryStepParts, WalStep
  <1>3. WalIInv => ReplayFollowsAppends
    BY WalReplays
  <1> QED  BY <1>1, <1>2, <1>3, PTL DEF RecoverySpec

(* Through crashes, late answers and deletes that fail, an order that is   *)
(* live is in the store, as listed for recovery and shutdown or, if it     *)
(* never got further, as PENDING_NEW (crash_recovery.rs, lmdb_store.rs).   *)
THEOREM StoreKeepsLive == RecoverySpec => []LiveIsKept
  <1>1. RecoveryInit => StoreIInv
    BY RecoveryInitParts, StoreInitInv
  <1>2. StoreIInv /\ [RecoveryNext]_recoveryVars => StoreIInv'
    BY RecoveryStepParts, StoreStep
  <1>3. StoreIInv => LiveIsKept
    BY DEF StoreIInv
  <1> QED  BY <1>1, <1>2, <1>3, PTL DEF RecoverySpec

(* A recovery or a shutdown that runs to its end has settled every order   *)
(* that was there for it to settle when it began, but those for which one  *)
(* of its own steps failed, reported or not (crash_recovery.rs).           *)
THEOREM CallsSettleOrders == RecoverySpec => CallsAreThorough
  <1> DEFINE Thorough ==
        EndCall =>
            \A o \in expected \ missed :
                IF call = "recover"
                THEN AutoCancelOrphans => store[o] \notin ListedAsOpen
                ELSE status[o] \notin Active
  <1>1. RecoveryInit => StoreIInv
    BY RecoveryInitParts, StoreInitInv
  <1>2. StoreIInv /\ [RecoveryNext]_recoveryVars => StoreIInv'
    BY RecoveryStepParts, StoreStep
  <1>3. StoreIInv => Thorough
    BY StoreAssumption
    DEF StoreIInv, StoreTypeOK, ExpectedInv, ToRecover, ToShutDown, Asked, Statuses, Active,
        ListedAsOpen, Ended, EndCall
  <1>4. StoreIInv /\ [RecoveryNext]_recoveryVars => [Thorough]_storeVars
    BY <1>3
  <1>5. RecoverySpec => [][Thorough]_storeVars
    BY <1>1, <1>2, <1>4, PTL DEF RecoverySpec
  <1> QED  BY <1>5 DEF CallsAreThorough

(* With fills listed oldest first, every fill that was there when the      *)
(* rebuild began is fetched, once and in its place, as far as the limit on *)
(* pages reaches; this is the part of RebuildIsExact that is about the     *)
(* paging (position_rebuilder.rs).                                         *)
THEOREM FetchCoversHistory == RecoverySpec => []HistoryIsCovered
  <1>1. RecoveryInit => RebuildIInv
    BY RecoveryInitParts, RebuildInitInv
  <1>2. RebuildIInv /\ [RecoveryNext]_recoveryVars => RebuildIInv'
    BY RecoveryStepParts, RebuildStep
  <1>3. RebuildIInv => HistoryIsCovered
    BY RebuildCovers
  <1> QED  BY <1>1, <1>2, <1>3, PTL DEF RecoverySpec

(* When nothing is traded meanwhile, the rebuilt position is what the      *)
(* exchange has and its money is what the fills paid and earned, in        *)
(* whichever order they are listed and however often the position flips    *)
(* (position_rebuilder.rs, process_fills).                                 *)
THEOREM RebuiltPositionIsExact == RecoverySpec => []RebuildIsExact
  <1>1. RecoveryInit => RebuildIInv /\ QuietInv
    BY RecoveryInitParts, RebuildInitInv DEF RebuildInit, QuietInv
  <1>2. RebuildIInv /\ QuietInv /\ [RecoveryNext]_recoveryVars => RebuildIInv' /\ QuietInv'
    BY RecoveryStepParts, RebuildStep, QuietStep
  <1>3. RebuildIInv /\ QuietInv => RebuildIsExact
    BY QuietIsExact
  <1> QED  BY <1>1, <1>2, <1>3, PTL DEF RecoverySpec

(* However the deaths, the restarts of the monitor and the shutdown of the *)
(* main thread interleave, no worker runs twice or unaccounted for         *)
(* (python_supervisor.py).                                                 *)
THEOREM EveryWorkerAccounted == RecoverySpec => []WorkersAccounted
  <1>1. RecoveryInit => SupervisorIInv
    BY RecoveryInitParts, SupervisorInitInv
  <1>2. SupervisorIInv /\ [RecoveryNext]_recoveryVars => SupervisorIInv'
    BY RecoveryStepParts, SupervisorStep
  <1>3. SupervisorIInv => WorkersAccounted
    BY SupervisorImplies
  <1> QED  BY <1>1, <1>2, <1>3, PTL DEF RecoverySpec
=============================================================================
