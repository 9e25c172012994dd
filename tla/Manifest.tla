------------------------------ MODULE Manifest ------------------------------
(***************************************************************************)
(* How version edits reach the disk (page_store/manifest.rs): edits are    *)
(* appended to the manifest file that CURRENT names; a new manifest file   *)
(* starts with a snapshot, and CURRENT is switched to it by a rename.      *)
(* A step is one operation on the file system, an operation may fail, and  *)
(* the program may crash between any two of them.                          *)
(*                                                                         *)
(* A record is two writes, its length and its body.  The content of a      *)
(* record is the sequence of edits it stands for: one for an edit, all of  *)
(* those that are applied for a snapshot.  Data that is not synced is cut  *)
(* off anywhere by a crash; operations on the directory that are not       *)
(* synced are lost from some point on.                                     *)
(***************************************************************************)
EXTENDS Integers, SequencesExt

CONSTANTS
    MaxEdits,       \* bound: edits are 1..MaxEdits
    MaxCrashes,     \* bound: crashes
    MaxFails,       \* bound: operations that fail
    SizeLimit       \* max_file_size, in writes

VARIABLES
    data,       \* number of a manifest file -> writes in it
    synced,     \* number of a manifest file -> writes of it that are synced
    dir,        \* the directory: manifest files, what CURRENT says (0: no file), temp file
    sdir,       \* the directory after each operation that is not synced, from the synced one
    num,        \* current_file_num, 0 if there is none
    writer,     \* the current_writer: its file and size, or None
    pc,         \* next step of record_version_edit
    job,        \* what it works with: file, whether it is a new one, writes to do
    applied,    \* edits that are recorded
    pend,       \* the last edit that was tried, and not recorded; 0 if there is none
    tried, crashes, fails

vars == <<data, synced, dir, sdir, num, writer, pc, job, applied, pend, tried, crashes, fails>>
disk == <<data, synced, dir, sdir>>
bounds == <<tried, crashes, fails>>

None == [file |-> 0, size |-> 0]
NoJob == [file |-> 0, rolled |-> FALSE, todo |-> <<>>, size |-> 0]
Numbers == 1..(2 * MaxEdits + MaxCrashes)

\* VersionEditEncoder::encode
Encoded(edits) == <<[kind |-> "len", edits |-> edits], [kind |-> "body", edits |-> edits]>>

\* VersionEditDecoder::next_record until the end of the file: a length without a
\* body is an error, and the end of the file instead of a length is the end.
DecodeFails(writes) == Len(writes) % 2 = 1
Decoded(writes) == FlattenSeq([i \in 1..(Len(writes) \div 2) |-> writes[2 * i].edits])

-----------------------------------------------------------------------------
(* record_version_edit *)

\* open_sequential_writer: an existing file loses its content.
Truncated(f) == <<>>

Begin ==
    /\ pc = "idle" /\ tried < MaxEdits
    /\ tried' = tried + 1 /\ pend' = tried'
    /\ writer' = None
    /\ LET rolled == writer = None \/ writer.size > SizeLimit IN
          /\ job' = [file |-> IF rolled THEN num + 1 ELSE writer.file, rolled |-> rolled,
                     todo |-> (IF rolled THEN Encoded(applied) ELSE <<>>) \o Encoded(<<tried'>>),
                     size |-> IF rolled THEN 0 ELSE writer.size]
          /\ pc' = IF rolled THEN "create" ELSE "write"
    /\ UNCHANGED <<disk, num, applied, crashes, fails>>

Create ==
    /\ pc = "create"
    /\ data' = [data EXCEPT ![job.file] = Truncated(job.file)]
    /\ synced' = [synced EXCEPT ![job.file] = Len(Truncated(job.file))]
    /\ dir' = [dir EXCEPT !.files = @ \cup {job.file}]
    /\ sdir' = Append(sdir, dir')
    /\ pc' = "write"
    /\ UNCHANGED <<num, writer, job, applied, pend, bounds>>

WriteNext ==
    /\ pc = "write"
    /\ data' = [data EXCEPT ![job.file] = Append(@, Head(job.todo))]
    /\ job' = [job EXCEPT !.todo = Tail(@), !.size = @ + 1]
    /\ pc' = IF Len(job.todo) = 1 THEN "sync" ELSE "write"
    /\ UNCHANGED <<synced, dir, sdir, num, writer, applied, pend, bounds>>

\* Mutant of SyncedTo: data is synced for a new file only.
SyncedToRolled(f) == IF job.rolled THEN Len(data[f]) ELSE synced[f]

\* sync_all, sync_data
SyncedTo(f) == Len(data[f])

\* The edit is recorded: the writer is kept.
Recorded ==
    /\ applied' = Append(applied, pend) /\ pend' = 0
    /\ writer' = [file |-> job.file, size |-> job.size]
    /\ num' = job.file
    /\ job' = NoJob /\ pc' = "idle"

Sync ==
    /\ pc = "sync"
    /\ synced' = [synced EXCEPT ![job.file] = SyncedTo(job.file)]
    /\ \/ /\ ~job.rolled
          /\ Recorded
       \/ /\ job.rolled
          /\ pc' = "temp" /\ UNCHANGED <<num, writer, job, applied, pend>>
    /\ UNCHANGED <<data, dir, sdir, bounds>>

\* set_current: a synced temporary file is renamed to CURRENT.
Temp ==
    /\ pc = "temp"
    /\ dir' = [dir EXCEPT !.temp = job.file]
    /\ sdir' = Append(sdir, dir')
    /\ pc' = "rename"
    /\ UNCHANGED <<data, synced, num, writer, job, applied, pend, bounds>>

Rename ==
    /\ pc = "rename"
    /\ dir' = [dir EXCEPT !.cur = job.file, !.temp = 0]
    /\ sdir' = Append(sdir, dir')
    /\ pc' = "dirsync"
    /\ UNCHANGED <<data, synced, num, writer, job, applied, pend, bounds>>

SyncDir ==
    /\ pc = "dirsync"
    /\ sdir' = <<dir>>
    /\ Recorded
    /\ UNCHANGED <<data, synced, dir, bounds>>

\* An operation returns an error; the writer has been taken, so the next edit starts
\* a new file.  A new file is removed if it is its edit that cannot be written, and
\* the temporary file if it cannot be renamed.  A failing sync ends the program.
Fail ==
    /\ pc \in {"create", "write", "temp", "rename"} /\ fails < MaxFails
    /\ fails' = fails + 1
    /\ LET removed == pc = "write" /\ job.rolled /\ Len(job.todo) <= 2
           after == IF removed THEN [dir EXCEPT !.files = @ \ {job.file}]
                    ELSE IF pc = "rename" THEN [dir EXCEPT !.temp = 0] ELSE dir
       IN  /\ dir' = after
           /\ sdir' = IF after = dir THEN sdir ELSE Append(sdir, after)
    /\ job' = NoJob /\ pc' = "idle"
    /\ UNCHANGED <<data, synced, num, writer, applied, pend, tried, crashes>>

-----------------------------------------------------------------------------
(* Crash and restart. *)

\* The files that a crash may cut off, and where.
Dirty == {f \in Numbers : synced[f] < Len(data[f])}
Cuts(f) == synced[f]..Len(data[f])

Crash ==
    /\ crashes < MaxCrashes /\ pc \notin {"open", "failed"}
    /\ crashes' = crashes + 1
    /\ \E k \in 1..Len(sdir) : dir' = sdir[k] /\ sdir' = <<sdir[k]>>
    /\ \E cut \in [Dirty -> UNION {Cuts(f) : f \in Dirty}] :
          /\ \A f \in Dirty : cut[f] \in Cuts(f)
          /\ data' = [f \in Numbers |-> IF f \in Dirty THEN SubSeq(data[f], 1, cut[f]) ELSE data[f]]
          /\ synced' = [f \in Numbers |-> IF f \in Dirty THEN cut[f] ELSE synced[f]]
    /\ num' = 0 /\ writer' = None /\ job' = NoJob /\ pc' = "open"
    /\ UNCHANGED <<applied, pend, tried, fails>>

\* is_obsolete_manifest
IsObsolete(f) == f < dir.cur \/ dir.cur = 0

\* cleanup_obsolete_files
CleanedUp(d) == [d EXCEPT !.files = {f \in @ : ~IsObsolete(f)}, !.temp = 0]

\* Manifest::open: load_current, then cleanup_obsolete_files; and list_versions.
Open ==
    /\ pc = "open"
    /\ num' = dir.cur
    /\ dir' = CleanedUp(dir)
    /\ sdir' = <<dir'>>
    /\ IF dir.cur = 0 THEN applied' = <<>> /\ pend' = 0 /\ pc' = "idle"
       ELSE LET reads == dir.cur \in dir'.files /\ ~DecodeFails(data[dir.cur])
            IN  /\ pc' = IF reads THEN "idle" ELSE "failed"
                /\ applied' = IF reads THEN Decoded(data[dir.cur]) ELSE applied
                /\ pend' = IF reads THEN 0 ELSE pend
    /\ UNCHANGED <<data, synced, writer, job, bounds>>

Init ==
    /\ data = [f \in Numbers |-> <<>>] /\ synced = [f \in Numbers |-> 0]
    /\ dir = [files |-> {}, cur |-> 0, temp |-> 0] /\ sdir = <<dir>>
    /\ num = 0 /\ writer = None /\ pc = "idle" /\ job = NoJob
    /\ applied = <<>> /\ pend = 0
    /\ tried = 0 /\ crashes = 0 /\ fails = 0

Next == Begin \/ Create \/ WriteNext \/ Sync \/ Temp \/ Rename \/ SyncDir \/ Fail \/ Crash \/ Open

Spec == Init /\ [][Next]_vars

-----------------------------------------------------------------------------
(* Properties. *)

\* The manifest can be opened after a crash, unless the crash or an error has left the
\* length of an edit that was never recorded without its body.  In that case, too,
\* CURRENT names a file that exists, and its whole records are the recorded edits.
OpensUnlessTorn ==
    pc = "failed" =>
       /\ dir.cur \in dir.files
       /\ \E e \in 1..tried : /\ Last(data[dir.cur]) = Head(Encoded(<<e>>))
                              /\ e \notin Range(applied)
       /\ Decoded(data[dir.cur]) = applied

\* An edit that is recorded is never lost, not by a crash, a failing operation or a
\* change of the manifest file, and none comes back: after a crash there may be one edit
\* more than was recorded, the last one that was tried.
EditsStep ==
    /\ IsPrefix(applied, applied')
    /\ \A i \in (Len(applied) + 1)..Len(applied') :
          i = Len(applied) + 1 /\ applied'[i] = pend

=============================================================================
