----------------------------- MODULE SecureFiles -----------------------------
(***************************************************************************)
(* The corpus directory as app/mcp/secure_io.py sees it: names that point  *)
(* to regular files (inodes), the directories that exist, and one stamp    *)
(* per inode that stands for everything a fingerprint compares beyond the  *)
(* inode number (digest, size, mtime, ctime).  Link and unlink change an   *)
(* inode's ctime, hence its stamp.                                         *)
(*                                                                         *)
(* Other programs work in the same directory: the user edits, saves over,  *)
(* renames or removes files between any two system calls of the server.    *)
(***************************************************************************)
EXTENDS Naturals

CONSTANTS
  Names,     \* paths below the corpus root
  Inodes,    \* file identities (st_dev, st_ino); never reused
  Dirs,      \* parent directories of Names
  DirOf,     \* the parent directory of each name
  NoInode,   \* "no such file"
  InitNames, \* the names that exist at the start, with their inodes
  InitDirs,  \* the directories that exist at the start
  MaxEdits   \* bound of the model: edits other programs make

ASSUME SecureFilesAssumption ==
  /\ DirOf \in [Names -> Dirs]
  /\ NoInode \notin Inodes
  /\ InitNames \in [Names -> Inodes \cup {NoInode}]
  /\ InitDirs \in SUBSET Dirs
  /\ MaxEdits \in Nat

VARIABLES
  names,   \* directory entries
  stamp,   \* content and times of each inode
  dirs,    \* directories that exist
  edits,   \* edits made by other programs so far
  renamed  \* whether one of them changed which file a name points to

fileVars == <<names, stamp, dirs, edits, renamed>>

SecureFilesTypeOK ==
  /\ names \in [Names -> Inodes \cup {NoInode}]
  /\ stamp \in [Inodes -> Nat]
  /\ dirs \in SUBSET Dirs
  /\ edits \in Nat
  /\ renamed \in BOOLEAN

SecureFilesInit ==
  /\ names = InitNames
  /\ stamp = [i \in Inodes |-> 0]
  /\ dirs = InitDirs
  /\ edits = 0
  /\ renamed = FALSE

Exists(n) == names[n] \in Inodes
Linked(i) == \E n \in Names : names[n] = i

(* Mutant: a fingerprint that binds the inode alone.                       *)
FingerprintByInode(src, dst) ==
  [ino |-> names[src], stamp |-> 0, parent |-> DirOf[dst] \in dirs]

(* fingerprint of an existing source, and of an absent destination: the    *)
(* first binds identity and content, the second the parents that exist.    *)
Fingerprint == [ino : Inodes, stamp : Nat, parent : BOOLEAN]
FingerprintOf(src, dst) ==
  [ino |-> names[src], stamp |-> stamp[names[src]], parent |-> DirOf[dst] \in dirs]

(* parent_fd(create=True): the missing parent of a destination is made.    *)
MakeParent(dst) ==
  /\ dirs' = dirs \cup {DirOf[dst]}
  /\ UNCHANGED <<names, stamp, edits, renamed>>

(* os.link: a second name for the source, never over an existing one.      *)
LinkName(src, dst) ==
  /\ Exists(src)
  /\ ~Exists(dst)
  /\ names' = [names EXCEPT ![dst] = names[src]]
  /\ stamp' = [stamp EXCEPT ![names[src]] = @ + 1]
  /\ UNCHANGED <<dirs, edits, renamed>>

(* os.unlink: whatever file the name points to now loses that name.        *)
UnlinkName(n) ==
  /\ Exists(n)
  /\ names' = [names EXCEPT ![n] = NoInode]
  /\ stamp' = [stamp EXCEPT ![names[n]] = @ + 1]
  /\ UNCHANGED <<dirs, edits, renamed>>

(* Another program writes into an existing file.                           *)
EditInPlace(n) ==
  /\ edits < MaxEdits
  /\ Exists(n)
  /\ stamp' = [stamp EXCEPT ![names[n]] = @ + 1]
  /\ edits' = edits + 1
  /\ UNCHANGED <<names, dirs, renamed>>

(* Another program saves a new file over a name (write aside and rename),  *)
(* or creates it.                                                          *)
SaveOver(n) ==
  /\ edits < MaxEdits
  /\ DirOf[n] \in dirs
  /\ \E i \in Inodes :
       /\ ~Linked(i)
       /\ stamp[i] = 0
       /\ names' = [names EXCEPT ![n] = i]
       /\ stamp' = [j \in Inodes |-> IF j = i \/ j = names[n] THEN stamp[j] + 1 ELSE stamp[j]]
  /\ edits' = edits + 1
  /\ renamed' = TRUE
  /\ UNCHANGED dirs

(* Another program renames a file to a free name.                          *)
RenameTo(n, m) ==
  /\ edits < MaxEdits
  /\ Exists(n)
  /\ ~Exists(m)
  /\ DirOf[m] \in dirs
  /\ names' = [names EXCEPT ![n] = NoInode, ![m] = names[n]]
  /\ stamp' = [stamp EXCEPT ![names[n]] = @ + 1]
  /\ edits' = edits + 1
  /\ renamed' = TRUE
  /\ UNCHANGED dirs

(* Another program removes a file.                                         *)
Remove(n) ==
  /\ edits < MaxEdits
  /\ Exists(n)
  /\ names' = [names EXCEPT ![n] = NoInode]
  /\ stamp' = [stamp EXCEPT ![names[n]] = @ + 1]
  /\ edits' = edits + 1
  /\ renamed' = TRUE
  /\ UNCHANGED dirs

OtherPrograms ==
  \/ \E n \in Names : EditInPlace(n) \/ SaveOver(n) \/ Remove(n)
  \/ \E n, m \in Names : RenameTo(n, m)
=============================================================================
