------------------------------- MODULE Save -------------------------------
(***************************************************************************)
(* Saved files (persistence.rs): the result file of -o and the preferences *)
(* (prefs.rs) are both written by write_with(), which replaces a regular   *)
(* file by renaming a synced temporary file over it.  The process or the   *)
(* machine may stop at any step; what a later reader finds is `disk`.      *)
(***************************************************************************)
EXTENDS Naturals

\* Contents are "none", "old", "torn", "cached" (complete, but not yet synced) or "new".
\* What stands at a path before the save, as inspect() and the directory tell.
Places == {"file", "new", "special", "refused", "fixed"}
    \* file: a writable file in a writable directory; new: nothing there yet;
    \* fixed: a writable file in a directory that is not writable; special: a device or pipe;
    \* refused: a directory, a read-only file, a dangling link, no such directory

VARIABLES
    disk,     \* what a reader would find at the path
    saving    \* the save in progress: [of: which file, place, st, tmp: the temporary file]

saveVars == <<disk, saving>>

NotSaving == [of |-> "none", place |-> "new", st |-> "idle", tmp |-> "none"]

\* What the path held before the save.
Before == IF saving.place \in {"file", "fixed"} THEN "old" ELSE "none"

SaveInit == disk = "none" /\ saving = NotSaving

\* One save of file f, to a path in whatever state it is.
SaveStart(f) ==
    \E p \in Places :
        /\ saving' = [of |-> f, place |-> p, st |-> "inspect", tmp |-> "none"]
        /\ disk' = IF p \in {"file", "fixed"} THEN "old" ELSE "none"

SaveEnd == saving' = NotSaving /\ disk' = "none"
SaveIsOver == saving.st \in {"saved", "failed"}

At(st) == saving.st = st
Step(st) == saving' = [saving EXCEPT !.st = st]
\* Dropping the NamedTempFile on an error removes it.
Fails == saving' = [saving EXCEPT !.st = "failed", !.tmp = "none"]

\* inspect(): refuses what cannot be saved to, without creating or truncating anything.
Inspect ==
    /\ At("inspect")
    /\ CASE saving.place = "refused" -> Fails
         [] saving.place = "special" -> Step("truncate")
         [] OTHER -> Step("temp")
    /\ UNCHANGED disk

\* A directory that refuses the temporary file leaves writing in place, for an existing file only.
CreateTemp ==
    /\ At("temp")
    /\ \/ saving.place = "fixed" /\ Step("truncate")
       \/ saving.place # "fixed" /\ saving' = [saving EXCEPT !.st = "write", !.tmp = "torn"]
       \/ Fails
    /\ UNCHANGED disk

\* The permissions, the buffered contents and the flush, any of which can fail.
WriteTemp ==
    /\ At("write")
    /\ saving' = [saving EXCEPT !.st = "sync", !.tmp = "cached"] \/ Fails
    /\ UNCHANGED disk

\* A mutant: the temporary file is renamed without a sync.
sync_allSkipped ==
    /\ At("sync")
    /\ saving' = [saving EXCEPT !.st = "rename"] \/ Fails
    /\ UNCHANGED disk

sync_all ==
    /\ At("sync")
    /\ saving' = [saving EXCEPT !.st = "rename", !.tmp = "new"] \/ Fails
    /\ UNCHANGED disk

\* persist(): an atomic rename; the directory sync after it is best effort.
persist ==
    /\ At("rename")
    /\ \/ /\ disk' = saving.tmp
          /\ saving' = [saving EXCEPT !.st = "saved", !.tmp = "none"]
       \/ Fails /\ UNCHANGED disk

\* write_in_place(): truncates, then writes.
Truncate ==
    /\ At("truncate")
    /\ \/ /\ Step("overwrite")
          /\ disk' = IF saving.place = "special" THEN disk
                     ELSE "torn"
       \/ Fails /\ UNCHANGED disk

Overwrite ==
    /\ At("overwrite")
    /\ \/ Step("saved") /\ disk' = IF saving.place = "special" THEN disk
                                   ELSE "cached"
       \/ Fails /\ UNCHANGED disk

SaveStep ==
    Inspect \/ CreateTemp \/ WriteTemp \/ sync_all \/ persist \/ Truncate \/ Overwrite

(***************************************************************************)
(* The machine stops.  Contents that were not synced may be lost, and a    *)
(* rename that reached no sync of its directory may be undone.             *)
(***************************************************************************)
SaveCrash ==
    /\ disk' \in CASE disk = "cached" -> {"torn", "new"}
                   [] disk = "new" -> {"new", Before}
                   [] OTHER -> {disk}
    /\ UNCHANGED saving

(***************************************************************************)
(* A path in a writable directory holds, after a crash at any step of a    *)
(* save, the old contents or all of the new ones; a save that fails leaves *)
(* the old contents, and one that reports success leaves the new ones.     *)
(* (A device, or a file in a directory that is not writable, is written in *)
(* place, which the code warns is not atomic.)                             *)
(***************************************************************************)
SaveSurvivesCrash(crashed) ==
    /\ crashed /\ saving.place \in {"file", "new"} => disk \in {Before, "new"}
    /\ ~crashed /\ At("failed") /\ saving.place # "fixed" => disk = Before
    /\ ~crashed /\ At("saved") /\ saving.place \in {"file", "new"} => disk = "new"
=============================================================================
