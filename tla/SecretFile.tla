------------------------------ MODULE SecretFile ------------------------------
(***************************************************************************)
(* The secret file of the canary and readSecretFromFile() (src/secrets.ts),*)
(* system call by system call.  The gateway's process does nothing else    *)
(* while it reads; the operator and others are processes of their own, and *)
(* may replace, rewrite, re-mode or remove the file between any two calls. *)
(*                                                                         *)
(* A file holds a prefix of a secret: the whole of it, unless somebody is  *)
(* writing the file in place.  The check of the directories above the file *)
(* is one step with lstat(): a link put in between the two is, to the rest *)
(* of the read, one put there after lstat().                               *)
(***************************************************************************)
EXTENDS Integers

CONSTANTS
  Secrets,   \* contents the operator writes to the file
  Length,    \* the bytes of each, without the final newline
  MaxBytes,  \* MAX_SECRET_FILE_BYTES
  None       \* no file, no time

ASSUME SecretsAssumption ==
  /\ Secrets # {}
  /\ Length \in [Secrets -> Nat \ {0}]
  /\ MaxBytes \in Nat \ {0}
  /\ None \notin Int

VARIABLES
  disk,    \* what the path leads to, or None
  reader   \* the local state of the read in progress

fileVars == <<disk, reader>>

\* "shared": world-writable; "link": a symbolic link on the path, to a file that
\* is not; "other": a directory, a FIFO.
Kinds == {"file", "shared", "link", "other"}

\* What open() gives is a regular file.
Regular == {"file", "shared", "link"}

FileState ==
  {f \in [kind : Kinds, readable : BOOLEAN, of : Secrets, len : Nat] :
     f.len <= Length[f.of]}

ASSUME NoneAssumption == None \notin FileState

\* at: the next system call; "blocked": in open().  size: the last one a stat
\* returned.  held: the file the descriptor refers to, once the path leads
\* elsewhere.  History: rewritten, the file opened was being written in place;
\* widened, its mode was changed after fstat().
ReaderState ==
  [at        : {"none", "lstat", "open", "blocked", "fstat", "read"},
   size      : 0 .. MaxBytes,
   held      : FileState \cup {None},
   rewritten : BOOLEAN,
   widened   : BOOLEAN]

Before(call) ==
  [at |-> call, size |-> 0, held |-> None, rewritten |-> FALSE, widened |-> FALSE]

NotReading == Before("none")

FileTypeOK ==
  /\ disk \in FileState \cup {None}
  /\ reader \in ReaderState

FileInit ==
  /\ disk = None
  /\ reader = NotReading

Whole(f) == f.len = Length[f.of]

\* open() has looked the path up, and the path still leads to what it found.
AtPath == reader.at \in {"blocked", "fstat", "read"} /\ reader.held = None

-----------------------------------------------------------------------------
(***************************************************************************)
(* The operator does one thing after the other.                            *)
(***************************************************************************)

Idle == disk # None => Whole(disk)

\* A descriptor keeps referring to the file it was opened on.
Repath(f) ==
  /\ disk' = f
  /\ reader' = IF AtPath THEN [reader EXCEPT !.held = disk] ELSE reader

\* Setup writes a temporary file and renames it; the gateway's user cannot read
\* it until its group and mode are set.
Install(s) ==
  /\ Idle
  /\ Repath([kind |-> "file", readable |-> FALSE, of |-> s, len |-> Length[s]])

SetPermissions ==
  /\ Idle
  /\ disk # None
  /\ disk.kind \in {"file", "shared"}
  /\ disk' = [disk EXCEPT !.kind = "file", !.readable = TRUE]
  /\ UNCHANGED reader

\* The mode is set too wide, in place: also that of a file already open.
Share ==
  /\ Idle
  /\ disk # None
  /\ disk.kind = "file"
  /\ disk' = [disk EXCEPT !.kind = "shared"]
  /\ reader' = IF AtPath /\ reader.at = "read" THEN [reader EXCEPT !.widened = TRUE]
                                             ELSE reader

\* Cleanup removes the directory of the secret.
Remove ==
  /\ Idle
  /\ disk # None
  /\ Repath(None)

\* Another file, or a link to one, is put at the path.
Misplace(s) ==
  /\ Idle
  /\ \E kind \in {"shared", "link"} :
       Repath([kind |-> kind, readable |-> TRUE, of |-> s, len |-> Length[s]])

\* Nobody sees what is in something that is not a file.
Obstruct ==
  /\ Idle
  /\ LET any == CHOOSE s \in Secrets : TRUE
     IN  Repath([kind |-> "other", readable |-> TRUE, of |-> any, len |-> Length[any]])

\* Setup invents the secret it installs; that of the real client is written
\* over it, in place: the file is truncated and then grows.
WriteInPlace(f) ==
  /\ disk' = f
  /\ reader' = IF AtPath THEN [reader EXCEPT !.rewritten = TRUE] ELSE reader

Truncate(s) ==
  /\ Idle
  /\ disk # None
  /\ disk.kind \in Regular
  /\ WriteInPlace([disk EXCEPT !.of = s, !.len = 0])

Grow ==
  /\ ~Idle
  /\ WriteInPlace([disk EXCEPT !.len = @ + 1])

\* A FIFO somebody is blocked on is opened for writing.
OpenOtherEnd ==
  /\ reader.at = "blocked"
  /\ reader' = [reader EXCEPT !.at = "fstat"]
  /\ UNCHANGED disk

Operator ==
  \/ \E s \in Secrets : Install(s) \/ Misplace(s) \/ Truncate(s)
  \/ Obstruct
  \/ SetPermissions
  \/ Share
  \/ Remove
  \/ Grow
  \/ OpenOtherEnd

-----------------------------------------------------------------------------
(***************************************************************************)
(* The reader.                                                             *)
(***************************************************************************)

StartReading == reader' = Before("lstat")

LstatRefuses ==
  disk # None => disk.kind \notin {"file", "shared"} \/ disk.len > MaxBytes

Lstat ==
  /\ reader.at = "lstat"
  /\ ~LstatRefuses
  /\ reader' = [reader EXCEPT !.at = "open", !.size = disk.len]
  /\ UNCHANGED disk

OpenRefuses == disk # None => ~disk.readable

\* O_RDONLY and nothing else: a link is followed, and the open() of a FIFO blocks
\* unless somebody has it open for writing.
Open ==
  /\ reader.at = "open"
  /\ ~OpenRefuses
  /\ \E next \in {"fstat"} \cup (IF disk.kind = "other" THEN {"blocked"} ELSE {}) :
       reader' = [reader EXCEPT !.at = next, !.rewritten = ~Whole(disk)]
  /\ UNCHANGED disk

Opened == IF reader.held = None THEN disk ELSE reader.held

\* Mutant: the size was checked before, so it is not checked again.
FstatTrustsSize == Opened.kind \notin {"file", "link"}

\* Mutant: lstat() has seen what kind of file it is.
FstatTrustsKind == Opened.len > MaxBytes

\* fstat() shows what a link led to.
FstatRefuses == Opened.kind \notin {"file", "link"} \/ Opened.len > MaxBytes

\* Mutant: the buffer gets the size lstat() returned.
FstatKeepsSize ==
  /\ reader.at = "fstat"
  /\ ~FstatRefuses
  /\ reader' = [reader EXCEPT !.at = "read"]
  /\ UNCHANGED disk

Fstat ==
  /\ reader.at = "fstat"
  /\ ~FstatRefuses
  /\ reader' = [reader EXCEPT !.at = "read", !.size = Opened.len]
  /\ UNCHANGED disk

Buffer == IF reader.size = 0 THEN 1 ELSE reader.size

BytesRead == IF Opened.len < Buffer THEN Opened.len ELSE Buffer

\* What one read() returns: the buffer, cut to the bytes read.
Secret == [of |-> Opened.of, len |-> BytesRead]

ReadRefuses ==
  \/ reader.at = "lstat" /\ LstatRefuses
  \/ reader.at = "open" /\ OpenRefuses
  \/ reader.at = "fstat" /\ FstatRefuses
  \/ reader.at = "read"  \* there is nothing in it, or a byte that will not do

\* The last call; the descriptor is closed whether or not the content will do.
ReadAccepts == reader.at = "read" /\ Secret.len # 0
=============================================================================
