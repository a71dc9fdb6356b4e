----------------------------- MODULE PromptResources ---------------------------
(***************************************************************************)
(* Loading the prompt files of a Specialist (src/src/resources.ts) from a  *)
(* directory that somebody edits meanwhile.  Every call to the file system *)
(* is awaited, so the file under a path may be another one, or have other  *)
(* content, from one to the next; what was read is kept only when nothing  *)
(* that could be compared has changed.                                     *)
(*                                                                         *)
(* A file is named by its inode; it has a list of blocks, each of the      *)
(* version that wrote it, and a modification time.  Names, encodings and   *)
(* digests are left out.  External, from how loadFragment uses it: the     *)
(* file system, which tells a later write by a later time.                 *)
(***************************************************************************)
EXTENDS Absence, Totals, Naturals, Sequences, FiniteSets

CONSTANTS
  Paths,         \* promptFiles, the list of paths of one Specialist
  Inodes,        \* the files there may be
  Sizes,         \* how many blocks a new version has
  MaxBytes,      \* maxResourceBytes, in blocks
  MaxEdits       \* bound: steps of whoever edits the directory

(* A Specialist without prompt files loads none.                           *)
ASSUME ResourcesAssumption ==
  /\ Paths \in Seq({Paths[i] : i \in DOMAIN Paths}) /\ Paths # <<>>
  /\ None \notin Inodes /\ Sizes \subseteq Nat /\ MaxBytes \in Nat

VARIABLES
  entry,         \* the inode each path leads to, or None
  files,         \* inode -> [blocks, mtime]
  unwritten,     \* inode -> what is still to be written of its version
  edits,
  at,            \* the file being loaded, a position in Paths
  loading,       \* "open", "stat", "verify", "read", "restat", "compare", "done" or "failed"
  handle,        \* the inode that is open
  found,         \* before, the first stat
  again,         \* after, the second stat
  buffer,
  loaded         \* the fragments loaded so far: [path, blocks, version]

directoryVars == <<entry, files, unwritten, edits>>
loadVars == <<at, loading, handle, found, again, buffer, loaded>>
resourceVars == <<directoryVars, loadVars>>

Version(blocks) == [i \in 1..blocks |-> 0]

ResourcesInit ==
  /\ entry \in [{Paths[i] : i \in DOMAIN Paths} -> Inodes \cup {None}]
  /\ files \in [Inodes -> {[blocks |-> Version(n), mtime |-> 0] : n \in Sizes}]
  /\ unwritten = [i \in Inodes |-> <<>>] /\ edits = 0
  /\ at = 1 /\ loading = "open" /\ handle = None /\ found = None /\ again = None
  /\ buffer = <<>> /\ loaded = <<>>

Stat(inode) == [inode |-> inode, size |-> Len(files[inode].blocks), mtime |-> files[inode].mtime]

Edit == edits < MaxEdits /\ edits' = edits + 1

(* The editor saves in place: the file is cut off and written anew, block  *)
(* by block, ...                                                           *)
SaveInPlace(inode, blocks) ==
  /\ Edit /\ unwritten[inode] = <<>>
  /\ files' = [files EXCEPT ![inode] = [blocks |-> <<>>, mtime |-> @.mtime + 1]]
  /\ unwritten' = [unwritten EXCEPT ![inode] = [i \in 1..blocks |-> edits + 1]]
  /\ UNCHANGED <<entry, loadVars>>

WriteBlock(inode) ==
  /\ unwritten[inode] # <<>>
  /\ files' = [files EXCEPT ![inode] = [blocks |-> Append(@.blocks, Head(unwritten[inode])), mtime |-> @.mtime + 1]]
  /\ unwritten' = [unwritten EXCEPT ![inode] = Tail(@)]
  /\ UNCHANGED <<entry, edits, loadVars>>

(* ... or puts another file in its place, or none.                         *)
Replace(path, inode) ==
  /\ Edit /\ entry[path] # inode
  /\ entry' = [entry EXCEPT ![path] = inode]
  /\ UNCHANGED <<files, unwritten, loadVars>>

-----------------------------------------------------------------------------

path == Paths[at]

Fails == loading' = "failed" /\ UNCHANGED <<at, handle, found, again, buffer, loaded>>

(* assertNoLinkedSegments and open.                                        *)
OpenFile ==
  /\ loading = "open"
  /\ IF entry[path] = None THEN Fails
     ELSE loading' = "stat" /\ handle' = entry[path] /\ UNCHANGED <<at, found, again, buffer, loaded>>
  /\ UNCHANGED directoryVars

StatFile ==
  /\ loading = "stat"
  /\ loading' = "verify" /\ found' = Stat(handle)
  /\ UNCHANGED <<at, handle, again, buffer, loaded, directoryVars>>

(* The path must still lead to the open file, which must not be too large. *)
VerifyPath ==
  /\ loading = "verify"
  /\ IF entry[path] # handle \/ found.size > MaxBytes THEN Fails
     ELSE loading' = "read" /\ buffer' = <<>> /\ UNCHANGED <<at, handle, found, again, loaded>>
  /\ UNCHANGED directoryVars

(* readFile: block after block, until there is no more.                    *)
ReadBlock ==
  /\ loading = "read"
  /\ LET blocks == files[handle].blocks
     IN  IF Len(buffer) < Len(blocks)
         THEN buffer' = Append(buffer, blocks[Len(buffer) + 1]) /\ UNCHANGED loading
         ELSE loading' = "restat" /\ UNCHANGED buffer
  /\ UNCHANGED <<at, handle, found, again, loaded, directoryVars>>

StatAgain ==
  /\ loading = "restat"
  /\ loading' = "compare" /\ again' = Stat(handle)
  /\ UNCHANGED <<at, handle, found, buffer, loaded, directoryVars>>

(* Mutant of Unchanged: the times are not compared.                        *)
UnchangedBySize ==
  /\ entry[path] = handle
  /\ found.inode = again.inode /\ found.size = again.size
  /\ Len(buffer) = again.size

(* Nothing that can be compared has changed while the file was read.       *)
Unchanged ==
  /\ entry[path] = handle
  /\ found = again
  /\ Len(buffer) = again.size

Bytes(fragments) == Total([i \in DOMAIN fragments |-> Len(fragments[i].blocks)])

(* The end of loadFragment, and the loop of loadSpecialistResources.       *)
KeepFragment ==
  /\ loading = "compare"
  /\ IF \/ Len(buffer) > MaxBytes \/ ~Unchanged
        \/ Bytes(loaded) + Len(buffer) > MaxBytes
     THEN Fails
     ELSE /\ loaded' = Append(loaded, [path |-> path, blocks |-> buffer])
          /\ IF at < Len(Paths) THEN at' = at + 1 /\ loading' = "open"
                                ELSE loading' = "done" /\ UNCHANGED at
          /\ handle' = None /\ found' = None /\ again' = None /\ buffer' = <<>>
  /\ UNCHANGED directoryVars

ResourcesStep ==
  \/ \E inode \in Inodes, blocks \in Sizes : SaveInPlace(inode, blocks)
  \/ \E inode \in Inodes : WriteBlock(inode)
  \/ \E p \in DOMAIN entry, inode \in Inodes \cup {None} : Replace(p, inode)
  \/ OpenFile \/ StatFile \/ VerifyPath \/ ReadBlock \/ StatAgain \/ KeepFragment

ResourcesSpec == ResourcesInit /\ [][ResourcesStep]_resourceVars

(* assertResourceSnapshot: what the compiler demands of loaded resources.  *)
assertResourceSnapshot(paths, fragments) ==
  /\ [i \in DOMAIN fragments |-> fragments[i].path] = paths
  /\ Bytes(fragments) <= MaxBytes

-----------------------------------------------------------------------------

(* Resources that load are complete, in order and within their budget, and *)
(* each fragment is all of one version or of the beginning of one, however *)
(* the directory is edited meanwhile: never the beginning of one version   *)
(* and the end of another.                                                 *)
ResourcesAreWhole ==
  /\ loading = "done" => assertResourceSnapshot(Paths, loaded)
  /\ \A i \in DOMAIN loaded : \A j, k \in DOMAIN loaded[i].blocks :
       loaded[i].blocks[j] = loaded[i].blocks[k]
==============================================================================
