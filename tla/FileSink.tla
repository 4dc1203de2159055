------------------------------ MODULE FileSink ------------------------------
(***************************************************************************)
(* FileSink (lib_logger/src/sinks/file_sink.cc): a log file that is        *)
(* renamed to a numbered backup when it has reached its size.              *)
(*                                                                         *)
(* Only one thread at a time calls a sink and mutex_ is held throughout,   *)
(* so what interleaves with a rotation is the failure of any of its calls  *)
(* and the death of the process between any two of them.  File 0 is path_, *)
(* file n its backup with suffix n.  Entries are numbered in the order of  *)
(* Write, and of their text only the length is kept, in the offset at      *)
(* which each ends.  Of what is written, some is in the stream's buffer    *)
(* until it is flushed; write errors of the stream, which the code never   *)
(* looks at, are left out.                                                 *)
(***************************************************************************)
EXTENDS Integers, Sequences, FiniteSets

CONSTANTS
  rotation_size_,
  Sizes,            \* the lengths of formatted entries, with the end of the line
  BackupSettings,   \* the values of max_backups a process may be started with
  MaxIndex,         \* the largest suffix
  MaxEntries        \* bound: calls of Write

ASSUME ConstantsAssumption ==
  /\ rotation_size_ \in Nat
  /\ Sizes \subseteq Nat \ {0}
  /\ MaxIndex \in Nat \ {0}
  /\ BackupSettings \subseteq 0..MaxIndex
  /\ MaxEntries \in Nat

VARIABLES
  exists,         \* the files that are there
  disk,           \* what is in them
  sink,           \* where the sink is, "none" without a process
  i,              \* Rotate's loop variable
  is_open,        \* whether file_ is open on path_
  buffered,       \* what file_ has not written out
  current_size_,
  max_backups_,
  entries,        \* entries handed to Write
  ends,           \* history: the offset in its file at which each of them ends
  reached,        \* history: entries that reached a file
  failed,         \* history: some call has failed
  crashes,        \* history: processes that died in Rotate
  rotations,      \* history: rotations done with this max_backups_, up to MaxIndex
  lowered         \* history: max_backups was ever lowered

files == <<exists, disk>>
stream == <<is_open, buffered, current_size_>>
history == <<failed, crashes, rotations, lowered>>
vars == <<exists, disk, sink, i, is_open, buffered, current_size_, max_backups_, entries, ends,
          reached, failed, crashes, rotations, lowered>>

Index == 0..MaxIndex

Min2(a, b) == IF a < b THEN a ELSE b

Elements(s) == {s[k] : k \in DOMAIN s}

Init ==
  /\ exists = {}
  /\ disk = [n \in Index |-> <<>>]
  /\ sink = "none"
  /\ i = 0
  /\ is_open = FALSE
  /\ buffered = <<>>
  /\ current_size_ = 0
  /\ max_backups_ \in BackupSettings
  /\ entries = 0
  /\ ends = <<>>
  /\ reached = {}
  /\ failed = FALSE
  /\ crashes = 0
  /\ rotations = 0
  /\ lowered = FALSE
----------------------------------------------------------------------------
(* Mutant: counts only what this process has written. *)
FileSizeSinceOpen == 0

(* How long a file with these entries is: it ends with the newest of them. *)
End(S) == IF S = {} THEN 0 ELSE ends[CHOOSE x \in S : \A y \in S : y <= x]

(* std::filesystem::file_size(path_), with nothing buffered. *)
FileSize == End(Elements(disk[0]))

(* What is in path_ or on its way there. *)
Written == Elements(disk[0]) \cup Elements(buffered)

(* Open's outcomes, for a stream that is closed: it works, the file cannot *)
(* be opened, or its size cannot be found out, which throws.               *)
Opened(ok, sized) ==
  /\ exists' = IF ok THEN exists \cup {0} ELSE exists
  /\ is_open' = ok
  /\ failed' = (failed \/ ~ok \/ ~sized)

(* file_ << formatted, when so many buffered entries are written out. *)
Put(s, k) ==
  /\ disk' = [disk EXCEPT ![0] = @ \o SubSeq(s, 1, k)]
  /\ reached' = reached \cup Elements(SubSeq(s, 1, k))
  /\ buffered' = SubSeq(s, k + 1, Len(s))

(* The rest of Write: a stream that is not open takes nothing, but counts. *)
WriteEntry(open, size) ==
  /\ entries' = entries + 1
  /\ \E z \in Sizes :
       /\ current_size_' = size + z
       /\ ends' = Append(ends, IF open THEN End(Written) + z ELSE 0)
  /\ IF open
     THEN LET s == Append(buffered, entries + 1)
          IN  \E k \in 0..Len(s) : Put(s, k)
     ELSE UNCHANGED <<disk, reached, buffered>>

(* Mutant: opens the file without std::ios::app. *)
ConstructTruncates(n, ok) ==
  /\ sink = "none"
  /\ Opened(ok, TRUE)
  /\ sink' = "idle"
  /\ disk' = IF ok THEN [disk EXCEPT ![0] = <<>>] ELSE disk
  /\ current_size_' = 0
  /\ max_backups_' = n
  /\ rotations' = IF n = max_backups_ THEN rotations ELSE 0
  /\ lowered' = (lowered \/ n < max_backups_)
  /\ UNCHANGED <<i, buffered, entries, ends, reached, crashes>>

(* A process starts, with the same or another configuration. *)
Construct(n, ok) ==
  /\ sink = "none"
  /\ Opened(ok, TRUE)
  /\ sink' = "idle"
  /\ current_size_' = IF ok THEN FileSize ELSE 0
  /\ max_backups_' = n
  /\ rotations' = IF n = max_backups_ THEN rotations ELSE 0
  /\ lowered' = (lowered \/ n < max_backups_)
  /\ UNCHANGED <<disk, i, buffered, entries, ends, reached, crashes>>

(* The size cannot be found out: Initialize ends and there is no sink. *)
ConstructThrows ==
  /\ sink = "none"
  /\ exists' = exists \cup {0}
  /\ failed' = TRUE
  /\ UNCHANGED <<disk, sink, i, stream, max_backups_, entries, ends, reached, crashes, rotations, lowered>>

Destroy ==
  /\ sink = "idle"
  /\ sink' = "none"
  /\ is_open' = FALSE
  /\ IF is_open THEN Put(buffered, Len(buffered)) ELSE UNCHANGED <<disk, reached, buffered>>
  /\ current_size_' = 0
  /\ UNCHANGED <<exists, i, max_backups_, entries, ends, history>>

Flush ==
  /\ sink = "idle"
  /\ is_open
  /\ Put(buffered, Len(buffered))
  /\ UNCHANGED <<exists, sink, i, is_open, current_size_, max_backups_, entries, ends, history>>

NeedsRotation == rotation_size_ > 0 /\ current_size_ >= rotation_size_

Write ==
  /\ sink = "idle"
  /\ entries < MaxEntries
  /\ ~NeedsRotation
  /\ WriteEntry(is_open, current_size_)
  /\ UNCHANGED <<exists, sink, i, is_open, max_backups_, history>>
----------------------------------------------------------------------------
(* Rotate, call by call.  An exception goes to Open. *)
Rotate ==
  /\ sink = "idle"
  /\ entries < MaxEntries
  /\ NeedsRotation
  /\ sink' = "remove"
  /\ is_open' = FALSE
  /\ IF is_open THEN Put(buffered, Len(buffered)) ELSE UNCHANGED <<disk, reached, buffered>>
  /\ UNCHANGED <<exists, i, current_size_, max_backups_, entries, ends, history>>

Throws ==
  /\ sink' = "open"
  /\ failed' = TRUE
  /\ i' = 0
  /\ UNCHANGED <<files, stream, max_backups_, entries, ends, reached, crashes, rotations, lowered>>

Rename(src, dst) ==
  /\ exists' = (exists \ {src}) \cup {dst}
  /\ disk' = [disk EXCEPT ![dst] = disk[src], ![src] = <<>>]

RemoveOldest ==
  /\ sink = "remove"
  /\ IF max_backups_ > 0
     THEN exists' = exists \ {max_backups_} /\ disk' = [disk EXCEPT ![max_backups_] = <<>>]
     ELSE UNCHANGED files
  /\ i' = max_backups_ - 1
  /\ sink' = "shift"
  /\ UNCHANGED <<stream, max_backups_, entries, ends, reached, history>>

RemoveFails ==
  /\ sink = "remove"
  /\ max_backups_ > 0
  /\ Throws

Shift ==
  /\ sink = "shift"
  /\ i >= 1
  /\ IF i \in exists THEN Rename(i, i + 1) ELSE UNCHANGED files
  /\ i' = i - 1
  /\ UNCHANGED <<sink, stream, max_backups_, entries, ends, reached, history>>

ShiftFails ==
  /\ sink = "shift"
  /\ i >= 1
  /\ Throws

(* Mutant: gives the newest backup the largest suffix. *)
RenameCurrentToLast ==
  /\ sink = "shift"
  /\ i < 1
  /\ 0 \in exists
  /\ Rename(0, IF max_backups_ > 0 THEN max_backups_ ELSE 1)
  /\ sink' = "open"
  /\ i' = 0
  /\ rotations' = Min2(rotations + 1, MaxIndex)
  /\ UNCHANGED <<stream, max_backups_, entries, ends, reached, failed, crashes, lowered>>

RenameCurrent ==
  /\ sink = "shift"
  /\ i < 1
  /\ 0 \in exists
  /\ Rename(0, 1)
  /\ sink' = "open"
  /\ i' = 0
  /\ rotations' = Min2(rotations + 1, MaxIndex)
  /\ UNCHANGED <<stream, max_backups_, entries, ends, reached, failed, crashes, lowered>>

(* Among the reasons: there is no file, since it could not be opened. *)
RenameCurrentFails ==
  /\ sink = "shift"
  /\ i < 1
  /\ Throws

(* Mutant: does not test whether the file could be opened. *)
ReopenAssumesSuccess(ok) ==
  /\ sink = "open"
  /\ sink' = "idle"
  /\ Opened(ok, TRUE)
  /\ WriteEntry(TRUE, FileSize)
  /\ UNCHANGED <<i, max_backups_, crashes, rotations, lowered>>

(* Open, and the rest of the Write that rotated. *)
Reopen(ok) ==
  /\ sink = "open"
  /\ sink' = "idle"
  /\ Opened(ok, TRUE)
  /\ WriteEntry(ok, IF ok THEN FileSize ELSE current_size_)
  /\ UNCHANGED <<i, max_backups_, crashes, rotations, lowered>>

(* file_size throws out of Write, and ProcessBatch drops the entry. *)
ReopenThrows ==
  /\ sink = "open"
  /\ sink' = "idle"
  /\ Opened(TRUE, FALSE)
  /\ entries' = entries + 1
  /\ ends' = Append(ends, 0)
  /\ UNCHANGED <<disk, buffered, current_size_, reached, i, max_backups_, crashes, rotations, lowered>>

(* The process dies, and with it what was buffered. *)
Crash ==
  /\ sink # "none"
  /\ sink' = "none"
  /\ is_open' = FALSE
  /\ buffered' = <<>>
  /\ current_size_' = 0
  /\ i' = 0
  /\ crashes' = IF sink = "idle" THEN crashes ELSE crashes + 1
  /\ UNCHANGED <<files, max_backups_, entries, ends, reached, failed, rotations, lowered>>

Next ==
  \/ \E n \in BackupSettings, ok \in BOOLEAN : Construct(n, ok)
  \/ ConstructThrows
  \/ Destroy
  \/ Flush
  \/ Write
  \/ Rotate
  \/ RemoveOldest \/ RemoveFails
  \/ Shift \/ ShiftFails
  \/ RenameCurrent \/ RenameCurrentFails
  \/ \E ok \in BOOLEAN : Reopen(ok)
  \/ ReopenThrows
  \/ Crash

Spec == Init /\ [][Next]_vars
----------------------------------------------------------------------------
(* Types; and a file that is not there holds nothing, a stream that is not *)
(* open buffers nothing, and one that is open has its file.                *)
TypeOK ==
  /\ exists \subseteq Index
  /\ disk \in [Index -> Seq(Nat)]
  /\ \A n \in Index \ exists : disk[n] = <<>>
  /\ sink \in {"none", "idle", "remove", "shift", "open"}
  /\ i \in -1..(MaxIndex - 1)
  /\ is_open \in BOOLEAN
  /\ buffered \in Seq(Nat)
  /\ is_open => sink = "idle" /\ 0 \in exists
  /\ ~is_open => buffered = <<>>
  /\ current_size_ \in Nat
  /\ max_backups_ \in BackupSettings
  /\ entries \in Nat
  /\ ends \in Seq(Nat) /\ Len(ends) = entries
  /\ reached \subseteq Nat
  /\ failed \in BOOLEAN
  /\ crashes \in Nat
  /\ rotations \in Nat
  /\ lowered \in BOOLEAN

Ascending(s) == \A j, k \in DOMAIN s : j < k => s[j] < s[k]

Before(s, t) == \A x \in Elements(s), y \in Elements(t) : x < y

(* Read from the largest suffix to path_, the files hold entries in the    *)
(* order they were logged, each once, whichever call of a rotation failed, *)
(* wherever a process died, and whatever max_backups the next one had.     *)
BackupsInOrder ==
  /\ \A n \in Index : Ascending(disk[n]) /\ Before(disk[n], buffered)
  /\ Ascending(buffered)
  /\ \A m, n \in Index : m > n => Before(disk[m], disk[n])

Kept == UNION {Elements(disk[n]) : n \in Index}

(* Only the oldest entries are ever removed: of those that reached a file, *)
(* the ones that are gone are older than all that are still there.  Rename *)
(* never overwrites a backup that is not the oldest.  Lowering max_backups *)
(* leaves files behind that Rotate does not know of, and is excepted.      *)
OnlyOldestLost ==
  ~lowered => \A x \in reached \ Kept, y \in Kept : x < y

Entries(n) == IF n = 0 THEN Written ELSE Elements(disk[n])

(* A file stops growing when it has reached rotation_size_, also over      *)
(* restarts, as long as the calls of the rotation succeed: an entry that   *)
(* another follows in the same file ends below rotation_size_.  So a file  *)
(* exceeds rotation_size_ by no more than its last entry, which Write does *)
(* not measure before it writes it.                                        *)
FilesBounded ==
  rotation_size_ > 0 /\ ~failed =>
    \A n \in Index : \A x, y \in Entries(n) : x < y => ends[x] < rotation_size_

(* The backups asked for are kept: between rotations there are as many as  *)
(* max_backups, or as rotations since it was set, less one for each        *)
(* process that died in a rotation (the gap it leaves is not looked for,   *)
(* and the next rotation removes the oldest all the same).                 *)
BackupsKept ==
  sink = "idle" /\ ~failed =>
    Cardinality(exists \ {0}) + crashes >= Min2(rotations, max_backups_)

(* What the configuration asks for is kept, as long as no call fails: as   *)
(* many backups as max_backups, each of which stopped growing when it had  *)
(* reached rotation_size.                                                  *)
RetentionHeld == FilesBounded /\ BackupsKept
=============================================================================
