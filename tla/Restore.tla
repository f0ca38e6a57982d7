------------------------------- MODULE Restore -------------------------------
(***************************************************************************)
(* Restoring a backup over the live database (db/restore.go,               *)
(* cmd/rekenraam/restore.go) beside a server that may start, commit, stop  *)
(* and crash, under the advisory lock of package lockfile.  A restore may  *)
(* fail or be killed between any two steps, and the power may go: then a   *)
(* rename that no directory sync covered may be lost, one by one, and so   *)
(* may bytes that no file sync covered.                                    *)
(*                                                                         *)
(* A file's content is known by the book it belongs to (one per database   *)
(* ever created: the original, each restored copy, each empty one a server *)
(* made) and the number of that book's transactions it holds.  The -shm    *)
(* file is an index SQLite rebuilds and is left out.                       *)
(***************************************************************************)
EXTENDS Naturals, Sequences, FiniteSets, SequencesExt

CONSTANTS Restores,    \* restore commands, run one or several times
          NoOne,       \* nobody holds the lock
          Server,      \* the server process
          MaxDirs,     \* bound: preserved directories, createPreservedDir's 100
          MaxBooks,    \* bound: databases ever created
          MaxCommits,  \* bound: transactions of one book
          MaxCuts      \* bound: power cuts

ASSUME RestoreAssumption ==
    /\ NoOne # Server
    /\ {NoOne, Server} \cap Restores = {}
    /\ MaxBooks \in Nat \ {0} /\ MaxCommits \in Nat \ {0}
    /\ MaxDirs \in Nat /\ MaxCuts \in Nat

VARIABLES lock,       \* holder of <database>.lock
          disk,       \* directory entries that survive a power cut
          ops,        \* renames and removals not yet synced, oldest first
          dirs,       \* preserved directories that exist
          step,       \* per restore command: its next step
          into,       \* per restore command: the directory it preserves into
          committed,  \* per book: transactions acknowledged to a client
          books,      \* how many books exist
          cuts        \* power cuts so far

vars == <<lock, disk, ops, dirs, step, into, committed, books, cuts>>

Live == 0
Slots == ((Live..MaxDirs) \X {"main", "wal"}) \cup {<<Live, "temp">>, <<Live, "gone">>}
Main == <<Live, "main">>
Wal  == <<Live, "wal">>
Temp == <<Live, "temp">>
Gone == <<Live, "gone">>

File(book, n, state) == [book |-> book, n |-> n, state |-> state]
None == File(0, 0, "none")
Content == [book : 0..MaxBooks, n : 0..MaxCommits, state : {"none", "whole", "unsynced", "torn"}]

Steps == {"idle", "inspect", "checkpoint", "mkdir", "preserve_main", "preserve_wal", "sync_preserved",
          "create", "copy", "sync_copy", "install", "sync_installed", "remove_stale", "done"}

-----------------------------------------------------------------------------
(* The file system *)

Moved(fs, op) ==
    LET left == [fs EXCEPT ![op.from] = IF @ = op.item THEN None ELSE @]
    IN  IF op.to = Gone THEN left ELSE [left EXCEPT ![op.to] = op.item]

(* The entries fs when, of the operations os, the ones in keep happen. *)
Applied(fs, os, keep) ==
    LET After[i \in 0..Len(os)] ==
            IF i = 0 THEN fs
            ELSE IF i \in keep THEN Moved(After[i - 1], os[i]) ELSE After[i - 1]
    IN  After[Len(os)]

Survivors(keep) == Applied(disk, ops, keep)

(* What running processes see: every operation has happened. *)
View == Survivors(1..Len(ops))

(* os.Rename, and os.Remove as a move to nowhere; a missing source is skipped. *)
Rename(from, to) ==
    ops' = IF View[from] = None THEN ops
           ELSE Append(ops, [item |-> View[from], from |-> from, to |-> to])

Touches(op, d) == op.from[1] = d \/ op.to[1] = d

(* SyncDirectory(d): the operations on entries of d are on disk.  A file   *)
(* that one of them moved on is, for an earlier one that is not, gone from *)
(* where that one moved it.                                                *)
Synced(d) == Survivors({i \in 1..Len(ops) : Touches(ops[i], d)})

MovedOn(op, d) == \E i \in 1..Len(ops) : Touches(ops[i], d) /\ ops[i].from = op.to /\ ops[i].item = op.item

Unsynced(d) ==
    LET Left(op) == IF MovedOn(op, d) THEN [op EXCEPT !.to = Gone] ELSE op
        Rest[i \in 0..Len(ops)] ==
            IF i = 0 THEN <<>>
            ELSE IF Touches(ops[i], d) THEN Rest[i - 1] ELSE Append(Rest[i - 1], Left(ops[i]))
    IN  Rest[Len(ops)]

SyncDirectory(d) == disk' = Synced(d) /\ ops' = Unsynced(d)

-----------------------------------------------------------------------------
TypeOK ==
    /\ lock \in Restores \cup {NoOne, Server}
    /\ disk \in [Slots -> Content]
    /\ ops \in Seq([item : Content, from : Slots, to : Slots])
    /\ dirs \subseteq 1..MaxDirs
    /\ step \in [Restores -> Steps]
    /\ into \in [Restores -> 0..MaxDirs]
    /\ committed \in [1..MaxBooks -> 0..MaxCommits]
    /\ books \in 1..MaxBooks
    /\ cuts \in 0..MaxCuts
    /\ \A p \in Restores : step[p] # "idle" => lock = p

(* A server crashed and left a committed transaction in its WAL. *)
Init ==
    /\ lock = NoOne
    /\ disk = [s \in Slots |-> IF s = Main THEN File(1, 0, "whole")
                               ELSE IF s = Wal THEN File(1, 1, "whole") ELSE None]
    /\ ops = <<>>
    /\ dirs = {}
    /\ step = [p \in Restores |-> "idle"]
    /\ into = [p \in Restores |-> 0]
    /\ committed = [b \in 1..MaxBooks |-> IF b = 1 THEN 1 ELSE 0]
    /\ books = 1
    /\ cuts = 0

-----------------------------------------------------------------------------
(* The server *)

(* Opening creates a database where there is none and commits its          *)
(* migrations, for which SQLite syncs the directory.                       *)
Open ==
    /\ lock = NoOne
    /\ View[Main].state # "torn"
    /\ lock' = Server
    /\ IF View[Main] = None
       THEN /\ books < MaxBooks
            /\ books' = books + 1
            /\ disk' = [View EXCEPT ![Main] = File(books + 1, 0, "whole")]
            /\ ops' = <<>>
       ELSE UNCHANGED <<disk, ops, books>>
    /\ UNCHANGED <<dirs, step, into, committed, cuts>>

(* synchronous=FULL: the transaction is in the WAL, synced with the        *)
(* directory that names it, before the client hears of it.                 *)
Commit ==
    LET b == View[Main].book
    IN  /\ lock = Server
        /\ committed[b] < MaxCommits
        /\ committed' = [committed EXCEPT ![b] = @ + 1]
        /\ disk' = [View EXCEPT ![Wal] = File(b, committed[b] + 1, "whole")]
        /\ ops' = <<>>
        /\ UNCHANGED <<lock, dirs, step, into, books, cuts>>

(* wal_checkpoint(TRUNCATE) and the close that removes the WAL *)
Checkpoint ==
    IF View[Wal] = None THEN UNCHANGED <<disk, ops>>
    ELSE /\ disk' = [View EXCEPT ![Main].n = View[Wal].n, ![Wal] = None]
         /\ ops' = <<>>

Stop ==
    /\ lock = Server
    /\ Checkpoint
    /\ lock' = NoOne
    /\ UNCHANGED <<dirs, step, into, committed, books, cuts>>

Crash ==
    /\ lock = Server
    /\ lock' = NoOne
    /\ UNCHANGED <<disk, ops, dirs, step, into, committed, books, cuts>>

-----------------------------------------------------------------------------
(* A restore command.  It owns the lock from its first to its last step.   *)

Acquire(p) ==
    /\ step[p] = "idle"
    /\ lock = NoOne
    /\ lock' = p
    /\ step' = [step EXCEPT ![p] = "inspect"]
    /\ UNCHANGED <<disk, ops, dirs, into, committed, books, cuts>>

Then(p, next) == step' = [step EXCEPT ![p] = next]

(* InspectBackup passes (a refusal is Exit), and os.Stat looks for a live  *)
(* database.                                                               *)
Inspect(p) ==
    /\ step[p] = "inspect"
    /\ Then(p, IF View[Main] = None THEN "create" ELSE "checkpoint")
    /\ UNCHANGED <<lock, disk, ops, dirs, into, committed, books, cuts>>

(* Mutant: the WAL is moved as it is. *)
NoCheckpoint(p) ==
    /\ step[p] = "checkpoint"
    /\ Then(p, "mkdir")
    /\ UNCHANGED <<lock, disk, ops, dirs, into, committed, books, cuts>>

checkpointStoppedDatabase(p) ==
    /\ step[p] = "checkpoint"
    /\ View[Main].state # "torn"
    /\ Checkpoint
    /\ Then(p, "mkdir")
    /\ UNCHANGED <<lock, dirs, into, committed, books, cuts>>

(* Mutant: os.MkdirAll takes a directory that is already there. *)
AdoptPreservedDir(p) ==
    /\ step[p] = "mkdir"
    /\ \E d \in 1..MaxDirs :
         /\ dirs' = dirs \cup {d}
         /\ into' = [into EXCEPT ![p] = d]
    /\ Then(p, "preserve_main")
    /\ UNCHANGED <<lock, disk, ops, committed, books, cuts>>

createPreservedDir(p) ==
    /\ step[p] = "mkdir"
    /\ \E d \in (1..MaxDirs) \ dirs :
         /\ dirs' = dirs \cup {d}
         /\ into' = [into EXCEPT ![p] = d]
    /\ Then(p, "preserve_main")
    /\ UNCHANGED <<lock, disk, ops, committed, books, cuts>>

PreserveMain(p) ==
    /\ step[p] = "preserve_main"
    /\ Rename(Main, <<into[p], "main">>)
    /\ Then(p, "preserve_wal")
    /\ UNCHANGED <<lock, disk, dirs, into, committed, books, cuts>>

PreserveWal(p) ==
    /\ step[p] = "preserve_wal"
    /\ Rename(Wal, <<into[p], "wal">>)
    /\ Then(p, "sync_preserved")
    /\ UNCHANGED <<lock, disk, dirs, into, committed, books, cuts>>

SyncPreserved(p) ==
    /\ step[p] = "sync_preserved"
    /\ SyncDirectory(into[p])
    /\ Then(p, "create")
    /\ UNCHANGED <<lock, dirs, into, committed, books, cuts>>

(* copyFile: O_TRUNC replaces a partial copy that an earlier restore left, *)
(* then the bytes follow.                                                  *)
CreateCopy(p) ==
    /\ step[p] = "create"
    /\ disk' = [disk EXCEPT ![Temp] = File(0, 0, "torn")]
    /\ Then(p, "copy")
    /\ UNCHANGED <<lock, ops, dirs, into, committed, books, cuts>>

CopyBytes(p) ==
    /\ step[p] = "copy"
    /\ books < MaxBooks
    /\ books' = books + 1
    /\ disk' = [disk EXCEPT ![Temp] = File(books + 1, 0, "unsynced")]
    /\ Then(p, "sync_copy")
    /\ UNCHANGED <<lock, ops, dirs, into, committed, cuts>>

(* io.Copy fails: the partial file is removed. *)
CopyFails(p) ==
    /\ step[p] = "copy"
    /\ disk' = [disk EXCEPT ![Temp] = None]
    /\ step' = [step EXCEPT ![p] = "idle"]
    /\ lock' = NoOne
    /\ UNCHANGED <<ops, dirs, into, committed, books, cuts>>

(* Mutant: the directory is synced and the file is not. *)
SyncEntryOnly(p) ==
    /\ step[p] = "sync_copy"
    /\ SyncDirectory(Live)
    /\ Then(p, "install")
    /\ UNCHANGED <<lock, dirs, into, committed, books, cuts>>

SyncFileAndParent(p) ==
    /\ step[p] = "sync_copy"
    /\ disk' = [Synced(Live) EXCEPT ![Temp].state = "whole"]
    /\ ops' = Unsynced(Live)
    /\ Then(p, "install")
    /\ UNCHANGED <<lock, dirs, into, committed, books, cuts>>

Install(p) ==
    /\ step[p] = "install"
    /\ Rename(Temp, Main)
    /\ Then(p, "sync_installed")
    /\ UNCHANGED <<lock, disk, dirs, into, committed, books, cuts>>

SyncInstalled(p) ==
    /\ step[p] = "sync_installed"
    /\ SyncDirectory(Live)
    /\ Then(p, "remove_stale")
    /\ UNCHANGED <<lock, dirs, into, committed, books, cuts>>

RemoveStale(p) ==
    /\ step[p] = "remove_stale"
    /\ Rename(Wal, Gone)
    /\ Then(p, "done")
    /\ UNCHANGED <<lock, disk, dirs, into, committed, books, cuts>>

(* The command ends: finished, refused, failed at this step, or killed.    *)
Exit(p) ==
    /\ step[p] # "idle"
    /\ step' = [step EXCEPT ![p] = "idle"]
    /\ lock' = IF lock = p THEN NoOne ELSE lock
    /\ UNCHANGED <<disk, ops, dirs, into, committed, books, cuts>>

-----------------------------------------------------------------------------
Torn(file, torn) == IF file.state = "unsynced" /\ torn THEN [file EXCEPT !.state = "torn"] ELSE file

PowerCut ==
    /\ cuts < MaxCuts
    /\ cuts' = cuts + 1
    /\ \E keep \in SUBSET (1..Len(ops)), torn \in BOOLEAN :
         disk' = [s \in Slots |-> Torn(Survivors(keep)[s], torn)]
    /\ ops' = <<>>
    /\ step' = [p \in Restores |-> "idle"]
    /\ lock' = NoOne
    /\ UNCHANGED <<dirs, into, committed, books>>

RestoreStep(p) ==
    \/ Acquire(p) \/ Inspect(p) \/ checkpointStoppedDatabase(p) \/ createPreservedDir(p)
    \/ PreserveMain(p) \/ PreserveWal(p) \/ SyncPreserved(p)
    \/ CreateCopy(p) \/ CopyBytes(p) \/ CopyFails(p) \/ SyncFileAndParent(p)
    \/ Install(p) \/ SyncInstalled(p) \/ RemoveStale(p) \/ Exit(p)

Next ==
    \/ Open \/ Commit \/ Stop \/ Crash \/ PowerCut
    \/ \E p \in Restores : RestoreStep(p)

Spec == Init /\ [][Next]_vars

-----------------------------------------------------------------------------
(* Properties *)

(* In the entries fs, directory d holds the book b with every transaction *)
(* acknowledged.                                                           *)
Holds(fs, d, b) ==
    LET main == fs[<<d, "main">>]
        wal  == fs[<<d, "wal">>]
    IN  /\ main.book = b
        /\ main.state # "torn"
        /\ main.n = committed[b] \/ (wal.book = b /\ wal.n = committed[b])

(* However often a restore is repeated, wherever it stops and whatever a   *)
(* power cut takes, every database that held a client's transaction is     *)
(* somewhere as a whole: under the live name or in one preserved           *)
(* directory, with its WAL if it still needs it.                           *)
NothingIsLost ==
    \A b \in 1..MaxBooks : committed[b] > 0 => \E d \in Live..MaxDirs : Holds(View, d, b)

(* What a server would open is one database: never a copy that was cut     *)
(* short, and never a main file beside the WAL of another database.        *)
LiveIsOneDatabase ==
    /\ View[Main].state # "torn"
    /\ View[Main] # None /\ View[Wal] # None => View[Main].book = View[Wal].book

(* One owner of the lock, well-formed directories, one live database.      *)
DirectoryIsSound == TypeOK /\ LiveIsOneDatabase
=============================================================================
