------------------------------ MODULE BlobFiles ------------------------------
(***************************************************************************)
(* The store of content-addressed files on disk (crates/notes-blob): what  *)
(* Imports and Blobs take for one step, step by step.  Calls from several  *)
(* threads install, open and remove one content; each may fail or be       *)
(* killed anywhere, and the power may fail.  Contents of one shard share   *)
(* its directories and nothing else, so that one of them is enough.        *)
(*                                                                         *)
(* What the disk has after a power failure is what fsync has reached, and  *)
(* of the rest anything: a name may be there and its file not yet.         *)
(***************************************************************************)
EXTENDS Integers

CONSTANTS Installers, \* calls of install_reader, each with a file of its own
          Openers,    \* calls of open_verified and read_verified
          Removers,   \* calls of remove_verified or discard_unverified
          Earlier,    \* the file of an earlier process
          NoFile

Calls == Installers \cup Openers \cup Removers
StoredFiles == Installers \cup {Earlier}

ASSUME BlobFilesAssumption ==
    /\ Installers \cap (Openers \cup Removers) = {} /\ Openers \cap Removers = {}
    /\ Earlier \notin Calls /\ NoFile \notin StoredFiles

\* The root, root/blobs and the shard, each in the one before it.
Depth == 3
Shard == Depth

VARIABLES
    made,     \* how many of the directories there are
    lasting,  \* those whose entry in the one above is on disk
    target,   \* the file that has the name of the content
    onDisk,   \* the files that may have it after a power failure
    content,  \* what is in a file
    flushed,  \* the files whose bytes are on disk
    doing,    \* what each call does next, or what came of it
    entered,  \* how many directories an installer has made or found
    handle,   \* the file a call has open
    relied,   \* ghost: installers that found what another had not yet synced
    unlinked  \* ghost: installers whose file was taken away

fileVars == <<made, lasting, target, onDisk, content, flushed, doing, entered, handle, relied, unlinked>>
disk == <<made, lasting, target, onDisk, content, flushed>>
ghosts == <<relied, unlinked>>

Reported == {"installed", "present"}
AtRest == Reported \cup {"idle", "done", "failed"}

IsWhole(n) == n # NoFile /\ content[n] = "whole"

Goes(c, to) == doing' = [doing EXCEPT ![c] = to]

\* The store is new, or it holds what an earlier process left, which the disk
\* may have damaged since.
FileInit ==
    /\ \/ made \in 0 .. Depth /\ target = NoFile
       \/ made = Depth /\ target = Earlier
    /\ lasting = 1 .. made /\ onDisk = {target}
    /\ \E b \in {"whole", "damaged"} : content = [n \in StoredFiles |-> IF n = target THEN b ELSE "empty"]
    /\ flushed = {Earlier}
    /\ doing = [c \in Calls |-> "idle"]
    /\ entered = [c \in Installers |-> 0]
    /\ handle = [c \in Openers \cup Removers |-> NoFile]
    /\ relied = {} /\ unlinked = {}

-----------------------------------------------------------------------------
(* fsync of a directory (sync_directory): the entries in it *)

SyncDirectory(k) ==
    /\ lasting' = lasting \cup ({k + 1} \cap 1 .. made)
    /\ onDisk' = IF k = Shard THEN {target} ELSE onDisk
    /\ UNCHANGED <<made, target, content, flushed>>

-----------------------------------------------------------------------------
(* install_reader *)

BeginInstall(c) ==
    /\ doing[c] = "idle"
    /\ Goes(c, "directories")
    /\ UNCHANGED <<disk, entered, handle, ghosts>>

\* ensure_directory: one that is there already is taken as it is.
FindDirectory(c) ==
    /\ doing[c] = "directories" /\ entered[c] < made
    /\ entered' = [entered EXCEPT ![c] = @ + 1]
    /\ relied' = IF entered[c] + 1 \in lasting THEN relied ELSE relied \cup {c}
    /\ UNCHANGED <<disk, doing, handle, unlinked>>

CreateDirectory(c) ==
    /\ doing[c] = "directories" /\ entered[c] = made /\ made < Depth
    /\ made' = made + 1
    /\ Goes(c, "sync_created")
    /\ UNCHANGED <<lasting, target, onDisk, content, flushed, entered, handle, ghosts>>

\* sync_created_directory: itself, then the one above.
SyncCreated(c) ==
    /\ doing[c] = "sync_created"
    /\ SyncDirectory(entered[c] + 1)
    /\ Goes(c, "sync_parent")
    /\ UNCHANGED <<entered, handle, ghosts>>

SyncParent(c) ==
    /\ doing[c] = "sync_parent"
    /\ SyncDirectory(entered[c])
    /\ entered' = [entered EXCEPT ![c] = @ + 1]
    /\ Goes(c, "directories")
    /\ UNCHANGED <<handle, ghosts>>

\* copy_and_hash into a temporary file of the shard; what does not match the
\* name is dropped again.
Stage(c) ==
    /\ doing[c] = "directories" /\ entered[c] = Depth
    /\ \E b \in {"whole", "other"} :
          /\ content' = [content EXCEPT ![c] = b]
          /\ Goes(c, IF b = "whole" THEN "staged" ELSE "failed")
    /\ UNCHANGED <<made, lasting, target, onDisk, flushed, entered, handle, ghosts>>

SyncStaged(c) ==
    /\ doing[c] = "staged"
    /\ flushed' = flushed \cup {c}
    /\ Goes(c, "look")
    /\ UNCHANGED <<made, lasting, target, onDisk, content, entered, handle, ghosts>>

LookForTarget(c) ==
    /\ doing[c] = "look"
    /\ Goes(c, IF target = NoFile THEN "publish" ELSE "verify")
    /\ UNCHANGED <<disk, entered, handle, ghosts>>

\* verify_existing of a file that was there before: nothing is synced.
VerifyFound(c) ==
    /\ doing[c] = "verify"
    /\ Goes(c, IF IsWhole(target) THEN "present" ELSE "failed")
    /\ relied' = IF IsWhole(target) /\ onDisk # {target} THEN relied \cup {c} ELSE relied
    /\ UNCHANGED <<disk, entered, handle, unlinked>>

\* publish_noclobber: a name that is taken is left alone.
Publish(c) ==
    /\ doing[c] = "publish"
    /\ IF target = NoFile
       THEN /\ target' = c
            /\ onDisk' = onDisk \cup {c}
            /\ Goes(c, "sync_installed")
       ELSE Goes(c, "verify_other") /\ UNCHANGED <<target, onDisk>>
    /\ UNCHANGED <<made, lasting, content, flushed, entered, handle, ghosts>>

VerifyOther(c) ==
    /\ doing[c] = "verify_other"
    /\ Goes(c, IF IsWhole(target) THEN "sync_present" ELSE "failed")
    /\ UNCHANGED <<disk, entered, handle, ghosts>>

\* Mutant: the name is not synced before it is reported.
ReportAtOnce(c) ==
    /\ doing[c] \in {"sync_installed", "sync_present"}
    /\ Goes(c, IF doing[c] = "sync_installed" THEN "installed" ELSE "present")
    /\ UNCHANGED <<disk, entered, handle, ghosts>>

\* sync_directory of the shard, then the answer.
SyncEntry(c) ==
    /\ doing[c] \in {"sync_installed", "sync_present"}
    /\ SyncDirectory(Shard)
    /\ Goes(c, IF doing[c] = "sync_installed" THEN "installed" ELSE "present")
    /\ UNCHANGED <<entered, handle, ghosts>>

-----------------------------------------------------------------------------
(* Opening and removing *)

\* open_verified: the bytes that were hashed are those of the handle.
OpenVerified(c) ==
    /\ doing[c] = "idle"
    /\ IF IsWhole(target) THEN handle' = [handle EXCEPT ![c] = target] /\ Goes(c, "opened")
       ELSE Goes(c, IF target = NoFile THEN "done" ELSE "failed") /\ UNCHANGED handle
    /\ UNCHANGED <<disk, entered, ghosts>>

\* read_verified, or whoever streams a verified handle to its end.
ReadVerified(c) ==
    /\ doing[c] = "opened"
    /\ Goes(c, "done")
    /\ UNCHANGED <<disk, entered, handle, ghosts>>

\* Who has been told that the content is there, or is about to be.
Counting == {c \in Installers : doing[c] \in {"sync_installed", "sync_present"} \cup Reported}

TakeAway ==
    /\ target' = NoFile
    /\ onDisk' = onDisk \cup {NoFile}
    /\ unlinked' = unlinked \cup Counting

\* remove_verified closes the file before it unlinks whatever has the name then;
\* discard_unverified has not looked into it at all.
Unlink(c) ==
    /\ doing[c] \in {"opened", "idle"}
    /\ IF target = NoFile THEN Goes(c, "done") /\ UNCHANGED <<target, onDisk, unlinked>>
       ELSE TakeAway /\ Goes(c, "sync_removed")
    /\ UNCHANGED <<made, lasting, content, flushed, entered, handle, relied>>

SyncRemoved(c) ==
    /\ doing[c] = "sync_removed"
    /\ SyncDirectory(Shard)
    /\ Goes(c, "done")
    /\ UNCHANGED <<entered, handle, ghosts>>

-----------------------------------------------------------------------------
(* Failures *)

\* An error of the file system or of the source, too many bytes, or the end of
\* the process: what is on disk stays, but for the temporary file.
Stop(c) ==
    /\ doing[c] \notin AtRest \ {"idle"}
    /\ Goes(c, "failed")
    /\ UNCHANGED <<disk, entered, handle, ghosts>>

\* Every call under way ends.  Of what was not synced anything may be there.
PowerFailure ==
    /\ made' \in {n \in 0 .. made : \A k \in 1 .. made : 1 .. k \subseteq lasting => k <= n}
    /\ lasting' = 1 .. made'
    /\ IF made' = Depth THEN target' \in onDisk ELSE target' = NoFile
    /\ onDisk' = {target'}
    /\ \E lost \in SUBSET (StoredFiles \ flushed) :
          content' = [n \in StoredFiles |-> IF n \in lost THEN "damaged" ELSE content[n]]
    /\ flushed' = StoredFiles
    /\ doing' = [c \in Calls |-> IF doing[c] \in AtRest THEN doing[c] ELSE "failed"]
    /\ UNCHANGED <<entered, handle, ghosts>>

FileNext ==
    \/ \E c \in Installers : \/ BeginInstall(c) \/ FindDirectory(c) \/ CreateDirectory(c) \/ SyncCreated(c)
                             \/ SyncParent(c) \/ Stage(c) \/ SyncStaged(c) \/ LookForTarget(c) \/ VerifyFound(c)
                             \/ Publish(c) \/ VerifyOther(c) \/ SyncEntry(c)
    \/ \E c \in Openers \cup Removers : OpenVerified(c)
    \/ \E c \in Openers : ReadVerified(c)
    \/ \E c \in Removers : Unlink(c) \/ SyncRemoved(c)
    \/ \E c \in Calls : Stop(c)
    \/ PowerFailure

FileSpec == FileInit /\ [][FileNext]_fileVars

-----------------------------------------------------------------------------
(* Properties *)

\* What a call has reported to be in the store is there, whole, until it is
\* removed, whatever is killed and whenever the power fails; callers commit
\* their rows on it.  A call that came upon a directory or a file another
\* had not synced yet promises no more than that one.
ReportedStays ==
    \A c \in Installers :
        doing[c] \in Reported /\ c \notin relied \cup unlinked => IsWhole(target)

\* No name shows part of a file, as no later install would replace it; and what
\* was verified when it was opened is what is read.
NamesAreWhole ==
    /\ target \in Installers => IsWhole(target)
    /\ \A c \in Openers : doing[c] = "opened" => IsWhole(handle[c])
=============================================================================
