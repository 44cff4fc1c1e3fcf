------------------------------ MODULE StateFile ------------------------------
(***************************************************************************)
(* Governor::save_file and load_file (src/governor.cpp) over a file        *)
(* system.  A save encodes the state under the governor's mutex and then,  *)
(* without it, truncates path.tmp, writes it, checks its size by name and  *)
(* renames it over path.  Connection threads may be at any of these steps  *)
(* at once, and the process may die between any two.                       *)
(*                                                                         *)
(* The state of the governor is a version number; its encoding is a        *)
(* sequence of blocks whose number depends on the version.  A file is an   *)
(* inode, so that a handle opened under one name keeps writing to it after *)
(* a rename.                                                               *)
(*                                                                         *)
(* Of encode_snapshot and decode_snapshot this module has the envelope,    *)
(* which is what tells a whole state from a part of one or from a mixture  *)
(* of two: its length, its checksum and the end of the file.  The sections *)
(* in it, and the fields in those, are blocks without a structure.         *)
(***************************************************************************)
EXTENDS Integers, Sequences

CONSTANTS
  Savers,      \* connection threads that may serve a Save request
  MaxVersion,  \* bound: versions of the governor's state
  Size,        \* Size[v]: blocks of the encoding of version v
  Inodes,      \* files the directory may ever refer to
  NoFile

ASSUME StateFileAssumption ==
  /\ MaxVersion \in Nat
  /\ Size \in [0..MaxVersion -> Nat \ {0}]
  /\ NoFile \notin Inodes

VARIABLES
  version,   \* the governor's state
  content,   \* content[i]: the blocks of file i
  tmp,       \* the file named path.tmp
  path,      \* the file named path
  pc,        \* pc[s]: where saver s is
  buf,       \* buf[s]: the version saver s encoded
  handle,    \* handle[s]: the file saver s writes
  pos,       \* pos[s]: blocks saver s has written
  saved      \* version of the last save that returned, -1 for none

fileVars == <<version, content, tmp, path, pc, buf, handle, pos, saved>>

Versions == 0..MaxVersion

Encoding(v) == [k \in 1..Size[v] |-> <<v, k>>]

(* The magic, length, checksum and end of an envelope accept a whole       *)
(* state only.                                                             *)
Decodes(blocks) == \E v \in Versions : blocks = Encoding(v)

Decoded(blocks) == CHOOSE v \in Versions : blocks = Encoding(v)

(* A write at offset n overwrites what is there; a gap reads as zeros.     *)
WriteAt(blocks, n, b) ==
  [ k \in 1..(IF n > Len(blocks) THEN n ELSE Len(blocks)) |->
      IF k = n THEN b ELSE IF k <= Len(blocks) THEN blocks[k] ELSE <<-1, k>> ]

FileInit ==
  /\ version = 0
  /\ content = [i \in Inodes |-> <<>>]
  /\ tmp = NoFile
  /\ path = NoFile
  /\ pc = [s \in Savers |-> "idle"]
  /\ buf = [s \in Savers |-> 0]
  /\ handle = [s \in Savers |-> NoFile]
  /\ pos = [s \in Savers |-> 0]
  /\ saved = -1

(* Any other method of the governor changes its state.                     *)
Mutate ==
  /\ version < MaxVersion
  /\ version' = version + 1
  /\ UNCHANGED <<content, tmp, path, pc, buf, handle, pos, saved>>

(* save(): build_snapshot_locked and encode_snapshot, under the mutex.     *)
Save(s) ==
  /\ pc[s] = "idle"
  /\ pc' = [pc EXCEPT ![s] = "open"]
  /\ buf' = [buf EXCEPT ![s] = version]
  /\ UNCHANGED <<version, content, tmp, path, handle, pos, saved>>

(* A file no name or handle refers to.                                     *)
Unused(i) ==
  /\ i # tmp
  /\ i # path
  /\ \A s \in Savers : pc[s] = "write" => handle[s] # i

(* Faulty variant: the temporary file is opened without truncating it.     *)
OpenKeeping(s) ==
  /\ pc[s] = "open"
  /\ \E i \in Inodes :
       /\ IF tmp = NoFile THEN Unused(i) ELSE i = tmp
       /\ tmp' = i
       /\ content' = IF tmp = NoFile THEN [content EXCEPT ![i] = <<>>] ELSE content
       /\ handle' = [handle EXCEPT ![s] = i]
  /\ pos' = [pos EXCEPT ![s] = 0]
  /\ pc' = [pc EXCEPT ![s] = "write"]
  /\ UNCHANGED <<version, path, buf, saved>>

(* The ofstream is opened with trunc: path.tmp is created or emptied.      *)
OpenTemporary(s) ==
  /\ pc[s] = "open"
  /\ \E i \in Inodes :
       /\ IF tmp = NoFile THEN Unused(i) ELSE i = tmp
       /\ tmp' = i
       /\ content' = [content EXCEPT ![i] = <<>>]
       /\ handle' = [handle EXCEPT ![s] = i]
  /\ pos' = [pos EXCEPT ![s] = 0]
  /\ pc' = [pc EXCEPT ![s] = "write"]
  /\ UNCHANGED <<version, path, buf, saved>>

(* Faulty variant: the write runs one block past the encoding.             *)
WriteOffset(s) ==
  /\ pc[s] = "write"
  /\ pos[s] <= Size[buf[s]]
  /\ content' = [content EXCEPT
                   ![handle[s]] = WriteAt(@, pos[s] + 1, <<buf[s], pos[s] + 1>>)]
  /\ pos' = [pos EXCEPT ![s] = @ + 1]
  /\ UNCHANGED <<version, tmp, path, pc, buf, handle, saved>>

WriteBlock(s) ==
  /\ pc[s] = "write"
  /\ pos[s] < Size[buf[s]]
  /\ content' = [content EXCEPT
                   ![handle[s]] = WriteAt(@, pos[s] + 1, <<buf[s], pos[s] + 1>>)]
  /\ pos' = [pos EXCEPT ![s] = @ + 1]
  /\ UNCHANGED <<version, tmp, path, pc, buf, handle, saved>>

(* Faulty variant: a failed write is not noticed.                          *)
FailsUnnoticed(s) ==
  /\ pc[s] \in {"open", "write"}
  /\ pc' = [pc EXCEPT ![s] = "rename"]
  /\ UNCHANGED <<version, content, tmp, path, buf, handle, pos, saved>>

(* Opening, writing or flushing fails: save_file throws and leaves path.tmp *)
(* as it is.                                                               *)
SaveFails(s) ==
  /\ pc[s] \in {"open", "write"}
  /\ pc' = [pc EXCEPT ![s] = "idle"]
  /\ UNCHANGED <<version, content, tmp, path, buf, handle, pos, saved>>

(* The stream is flushed and closed.                                       *)
Close(s) ==
  /\ pc[s] = "write"
  /\ pos[s] = Size[buf[s]]
  /\ pc' = [pc EXCEPT ![s] = "check"]
  /\ UNCHANGED <<version, content, tmp, path, buf, handle, pos, saved>>

(* The size of whatever is called path.tmp now is compared with the size   *)
(* of the encoding; a file that cannot be opened is not checked.           *)
CheckSize(s) ==
  /\ pc[s] = "check"
  /\ pc' = [pc EXCEPT ![s] = IF tmp # NoFile /\ Len(content[tmp]) # Size[buf[s]]
                             THEN "idle" ELSE "rename"]
  /\ UNCHANGED <<version, content, tmp, path, buf, handle, pos, saved>>

(* Whatever is called path.tmp now becomes path; if there is no such file  *)
(* save_file throws.                                                       *)
Rename(s) ==
  /\ pc[s] = "rename"
  /\ pc' = [pc EXCEPT ![s] = "idle"]
  /\ IF tmp = NoFile
     THEN UNCHANGED <<tmp, path, saved>>
     ELSE /\ path' = tmp
          /\ tmp' = NoFile
          /\ saved' = buf[s]
  /\ UNCHANGED <<version, content, buf, handle, pos>>

(* load_file: a file that does not decode throws before anything changes.  *)
Load ==
  /\ path # NoFile
  /\ Decodes(content[path])
  /\ version' = Decoded(content[path])
  /\ UNCHANGED <<content, tmp, path, pc, buf, handle, pos, saved>>

(* The process dies, its unfinished saves with it, and another one starts. *)
Crash ==
  /\ version' = 0
  /\ pc' = [s \in Savers |-> "idle"]
  /\ UNCHANGED <<content, tmp, path, buf, handle, pos, saved>>

FileNext ==
  \/ Mutate
  \/ \E s \in Savers :
       \/ Save(s) \/ OpenTemporary(s) \/ WriteBlock(s) \/ SaveFails(s)
       \/ Close(s) \/ CheckSize(s) \/ Rename(s)
  \/ Load
  \/ Crash

FileSpec == FileInit /\ [][FileNext]_fileVars

-------------------------------------------------------------------------------
(* Type invariant; a saver never writes past its encoding.                 *)
FileTypeOK ==
  /\ version \in Versions
  /\ content \in [Inodes -> Seq((-1..MaxVersion) \X Nat)]
  /\ tmp \in Inodes \cup {NoFile}
  /\ path \in Inodes \cup {NoFile}
  /\ pc \in [Savers -> {"idle", "open", "write", "check", "rename"}]
  /\ buf \in [Savers -> Versions]
  /\ handle \in [Savers -> Inodes \cup {NoFile}]
  /\ \A s \in Savers : pos[s] \in 0..Size[buf[s]] \/ pc[s] # "write"
  /\ saved \in -1..MaxVersion

(* "Atomic replace": path always holds a whole state, the one that the     *)
(* last save to return wrote, whatever save was cut short or failed since  *)
(* (save_file's write to path.tmp, size check and rename).                 *)
AtomicReplace ==
  IF saved = -1 THEN path = NoFile
                ELSE path # NoFile /\ content[path] = Encoding(saved)

(* A path.tmp left behind by a save that was cut short, however long, does *)
(* not make a later save fail its size check: the file was emptied when it *)
(* was opened.                                                             *)
SizeCheckPasses ==
  \A s \in Savers :
    pc[s] = "check" => tmp # NoFile /\ Len(content[tmp]) = Size[buf[s]]

(* What the comment in save_file says, "atomic replace on the same volume":*)
(* whoever reads path finds a whole state there.                           *)
PathReadable == path # NoFile => Decodes(content[path])
===============================================================================
