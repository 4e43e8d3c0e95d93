----------------------------- MODULE FileSystem -----------------------------
(***************************************************************************)
(* The POSIX file system as source_files.py and archival.py use it: files  *)
(* under final names, what fsync has made durable, and a loss of power.    *)
(* File contents are compared through their SHA-256 checksums in the code; *)
(* here equal bytes are equal values.                                      *)
(***************************************************************************)

CONSTANTS
    Path,     \* the file names that matter
    Bytes,    \* complete file contents
    NoFile,   \* no such directory entry
    Torn      \* an empty or partially written file

ASSUME FileAssumption ==
    NoFile \notin Bytes /\ Torn \notin Bytes /\ NoFile # Torn

VARIABLES
    file,     \* what open() and exists() see
    synced,   \* names whose bytes have been fsynced
    durable   \* what a loss of power would leave of each name

fileVars == <<file, synced, durable>>

Contents == Bytes \cup {NoFile, Torn}

FileTypeOK ==
    /\ file \in [Path -> Contents]
    /\ synced \in SUBSET Path
    /\ durable \in [Path -> Contents]

FileInit(initial) ==
    file = initial /\ durable = initial /\ synced = Path

Exists(p) == file[p] # NoFile

\* What survives of the bytes now under the name p.
Surviving(p) == IF p \in synced \/ ~Exists(p) THEN file[p] ELSE Torn

\* Write bytes under the name p; fsynced says whether they are on the disk.
Put(p, bytes, fsynced) ==
    /\ file' = [file EXCEPT ![p] = bytes]
    /\ synced' = IF fsynced THEN synced \cup {p} ELSE synced \ {p}
    /\ UNCHANGED durable

Unlink(p) == Put(p, NoFile, TRUE)

\* os.rename: the entry moves, and with it whether its bytes are synced.
Rename(from, to) ==
    /\ file' = [file EXCEPT ![to] = file[from], ![from] = NoFile]
    /\ synced' = IF from \in synced THEN synced \cup {to}
                 ELSE (synced \ {to}) \cup {from}
    /\ UNCHANGED durable

\* os.fsync of an open file.
Fsync(p) == synced' = synced \cup {p} /\ UNCHANGED <<file, durable>>

\* os.fsync of the directory that holds the names in entries.
FsyncDirectory(entries) ==
    /\ durable' = [p \in Path |-> IF p \in entries THEN Surviving(p)
                                  ELSE durable[p]]
    /\ UNCHANGED <<file, synced>>

\* Every entry is either as last made durable or as it was in memory.
LosePower ==
    /\ file' \in [Path -> Contents]
    /\ \A p \in Path : file'[p] \in {durable[p], Surviving(p)}
    /\ durable' = file'
    /\ synced' = Path
=============================================================================
