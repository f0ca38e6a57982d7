--------------------------- MODULE RestoreProofs ---------------------------
(***************************************************************************)
(* For any number of restores, preserved directories, databases and power  *)
(* cuts: what a server would open is one database, and no acknowledged     *)
(* transaction is lost, in what processes see (NothingIsLost) and in       *)
(* whatever a power cut leaves at any moment (CutLosesNothing).            *)
(*                                                                         *)
(* The argument is about the entries that are on disk (Files) and about    *)
(* the few operations that can be waiting for a sync (Pending): a live     *)
(* file that was moved aside, a fresh copy that was installed, the two in  *)
(* that order, or what is left of the two when only the second is synced.  *)
(* Each of them takes sound entries to sound entries, so any part of them  *)
(* may survive a cut.  Progress says what each step of a restore may rely  *)
(* on.                                                                     *)
(***************************************************************************)
EXTENDS Restore, SequenceTheorems, TLAPS

-----------------------------------------------------------------------------
(* The operations a restore leaves unsynced: the copy takes the live name, a *)
(* live file moves into a directory, and the move out of a name whose end is *)
(* already settled.                                                          *)
InstallOp(x)     == [item |-> x, from |-> Temp, to |-> Main]
PreserveOp(x, d) == [item |-> x, from |-> Main, to |-> <<d, "main">>]
RemoveOp(x)      == [item |-> x, from |-> Temp, to |-> Gone]

(* A file with all its bytes, of a database there is; a fresh one holds no   *)
(* transaction that a client heard of.                                       *)
Whole(file) == file \in Content /\ file.state = "whole" /\ file.book \in 1..books
Fresh(file) == Whole(file) /\ committed[file.book] = 0

(* Sound entries: nothing partial but the copy being made, a WAL only beside *)
(* its own database and up to date, preserved directories without one and    *)
(* empty until they exist, and every database somewhere.                     *)
Files(fs) ==
    /\ fs \in [Slots -> Content]
    /\ \A s \in Slots \ {Temp} : fs[s] = None \/ Whole(fs[s])
    /\ fs[Wal] # None => /\ fs[Main] # None
                         /\ fs[Wal].book = fs[Main].book
                         /\ fs[Wal].n = committed[fs[Main].book]
    /\ \A d \in 1..MaxDirs : /\ fs[<<d, "wal">>] = None
                             /\ d \notin dirs => fs[<<d, "main">>] = None
    /\ \A b \in 1..MaxBooks : committed[b] > 0 => \E d \in Live..MaxDirs : Holds(fs, d, b)

(* What may wait for a sync. *)
Pending ==
    \/ ops = <<>>
    \/ /\ disk[Wal] = None /\ disk[Main] = None
       /\ \E x \in Content :
            /\ Fresh(x)
            /\ \/ ops = <<InstallOp(x)>>
               \/ ops = <<RemoveOp(x)>>
               \/ \E d \in dirs : /\ disk[<<d, "main">>] = None
                                  /\ ops = <<InstallOp(x), PreserveOp(x, d)>>
    \/ /\ disk[Wal] = None /\ disk[Main] # None
       /\ \E d \in dirs : /\ disk[<<d, "main">>] = None
                          /\ ops = <<PreserveOp(disk[Main], d)>>

(* What the next step of a restore relies on. *)
ProgressOf(p) ==
    /\ step[p] \in {"checkpoint", "mkdir", "preserve_main"} => View[Main] # None
    /\ step[p] \in {"mkdir", "preserve_main", "sync_installed", "remove_stale"} => View[Wal] = None
    /\ step[p] = "preserve_main" => into[p] \in dirs /\ View[<<into[p], "main">>] = None
    /\ step[p] \in {"preserve_wal", "sync_preserved"} =>
          /\ into[p] \in dirs /\ ops # <<>>
          /\ \E x \in Content : ops[Len(ops)] = PreserveOp(x, into[p])
    /\ step[p] \in {"create", "copy", "sync_copy"} => View[Main] = None
    /\ step[p] = "sync_copy" => disk[Temp].state = "unsynced" /\ Fresh([disk[Temp] EXCEPT !.state = "whole"])
    /\ step[p] = "install" => ops = <<>> /\ disk[Main] = None /\ Fresh(disk[Temp])

Progress ==
    /\ lock = Server => View[Main] # None
    /\ \A b \in 1..MaxBooks : b > books => committed[b] = 0
    /\ \A p \in Restores : ProgressOf(p)

(* The inductive invariant. *)
RestoreInv == TypeOK /\ Files(disk) /\ Pending /\ Progress

-----------------------------------------------------------------------------
(* Slots and files *)

MainOf(d) == <<d, "main">>
WalOf(d)  == <<d, "wal">>

(* The slots a proof tells apart. *)
LEMMA SlotFacts ==
    /\ {Main, Wal, Temp, Gone} \subseteq Slots
    /\ Main # Wal /\ Main # Temp /\ Main # Gone /\ Wal # Temp /\ Wal # Gone /\ Temp # Gone
    /\ Main = MainOf(Live) /\ Wal = WalOf(Live)
    /\ \A d \in 1..MaxDirs :
         /\ MainOf(d) \in Slots /\ WalOf(d) \in Slots
         /\ MainOf(d) \notin {Main, Wal, Temp, Gone}
         /\ WalOf(d) \notin {Main, Wal, Temp, Gone}
    /\ \A d, e \in Live..MaxDirs : MainOf(d) # WalOf(e) /\ (MainOf(d) = MainOf(e) => d = e)
BY RestoreAssumption DEF RestoreAssumption, Slots, Main, Wal, Temp, Gone, Live, MainOf, WalOf

(* The live directory and the preserved ones. *)
LEMMA DirFacts ==
    /\ Live..MaxDirs = {Live} \cup 1..MaxDirs
    /\ Live \notin 1..MaxDirs
BY RestoreAssumption DEF RestoreAssumption, Live

(* No file. *)
LEMMA NoneFacts ==
    /\ None \in Content
    /\ None.book = 0 /\ None.n = 0 /\ None.state = "none"
BY RestoreAssumption DEF RestoreAssumption, None, File, Content

(* Holds by its files. *)
LEMMA HoldsBy ==
    ASSUME NEW fs, NEW d, NEW b
    PROVE  Holds(fs, d, b) <=>
             /\ fs[MainOf(d)].book = b
             /\ fs[MainOf(d)].state # "torn"
             /\ \/ fs[MainOf(d)].n = committed[b]
                \/ fs[WalOf(d)].book = b /\ fs[WalOf(d)].n = committed[b]
BY DEF Holds, MainOf, WalOf

-----------------------------------------------------------------------------
(* The entries after some of the operations *)

(* Nothing waits. *)
LEMMA AppliedNone ==
    ASSUME NEW fs, NEW keep
    PROVE  Applied(fs, <<>>, keep) = fs
<1> DEFINE After(g) == g = [i \in 0..Len(<<>>) |->
                IF i = 0 THEN fs
                ELSE IF i \in keep THEN Moved(g[i - 1], <<>>[i]) ELSE g[i - 1]]
<1>1. After([i \in 0..0 |-> fs])
  OBVIOUS
<1>2. \E g : After(g)
  BY <1>1
<1>3. PICK g : g = (CHOOSE h : After(h))
  OBVIOUS
<1>4. After(g)
  BY <1>2, <1>3
<1>5. g[Len(<<>>)] = fs
  BY <1>4
<1> QED
  BY <1>3, <1>5 DEF Applied

(* One operation waits. *)
LEMMA AppliedOne ==
    ASSUME NEW fs, NEW o, NEW keep
    PROVE  Applied(fs, <<o>>, keep) = IF 1 \in keep THEN Moved(fs, o) ELSE fs
<1> DEFINE After(g) == g = [i \in 0..Len(<<o>>) |->
                IF i = 0 THEN fs
                ELSE IF i \in keep THEN Moved(g[i - 1], <<o>>[i]) ELSE g[i - 1]]
<1>0. PICK one : one = IF 1 \in keep THEN Moved(fs, o) ELSE fs
  OBVIOUS
<1>1. After([i \in 0..1 |-> IF i = 0 THEN fs ELSE one])
  BY <1>0
<1>2. \E g : After(g)
  BY <1>1
<1>3. PICK g : g = (CHOOSE h : After(h))
  OBVIOUS
<1>4. After(g)
  BY <1>2, <1>3
<1>5. g[Len(<<o>>)] = one
  BY <1>4, <1>0
<1> QED
  BY <1>0, <1>3, <1>5 DEF Applied

(* Two operations wait. *)
LEMMA AppliedTwo ==
    ASSUME NEW fs, NEW o, NEW q, NEW keep, NEW one,
           one = IF 1 \in keep THEN Moved(fs, o) ELSE fs
    PROVE  Applied(fs, <<o, q>>, keep) = IF 2 \in keep THEN Moved(one, q) ELSE one
<1> DEFINE After(g) == g = [i \in 0..Len(<<o, q>>) |->
                IF i = 0 THEN fs
                ELSE IF i \in keep THEN Moved(g[i - 1], <<o, q>>[i]) ELSE g[i - 1]]
<1>0. PICK two : two = IF 2 \in keep THEN Moved(one, q) ELSE one
  OBVIOUS
<1>1. After([i \in 0..2 |-> IF i = 0 THEN fs ELSE IF i = 1 THEN one ELSE two])
  BY <1>0
<1>2. \E g : After(g)
  BY <1>1
<1>3. PICK g : g = (CHOOSE h : After(h))
  OBVIOUS
<1>4. After(g)
  BY <1>2, <1>3
<1>5. g[Len(<<o, q>>)] = two
  BY <1>4, <1>0
<1> QED
  BY <1>0, <1>3, <1>5 DEF Applied

-----------------------------------------------------------------------------
(* What the operations do to the entries *)

(* Install changes the live file and the copy. *)
LEMMA InstallMoves ==
    ASSUME NEW fs \in [Slots -> Content], NEW x \in Content
    PROVE  /\ Moved(fs, InstallOp(x)) \in [Slots -> Content]
           /\ Moved(fs, InstallOp(x))[Main] = x
           /\ fs[Temp] # x => Moved(fs, InstallOp(x))[Temp] = fs[Temp]
           /\ \A s \in Slots \ {Main, Temp} : Moved(fs, InstallOp(x))[s] = fs[s]
<1> USE SlotFacts, NoneFacts
<1>1. Moved(fs, InstallOp(x)) =
        [[fs EXCEPT ![Temp] = IF @ = x THEN None ELSE @] EXCEPT ![Main] = x]
  BY DEF Moved, InstallOp
<1> QED
  BY <1>1

(* Preserve changes the live file and the directory's. *)
LEMMA PreserveMoves ==
    ASSUME NEW fs \in [Slots -> Content], NEW x \in Content, NEW d \in 1..MaxDirs
    PROVE  /\ Moved(fs, PreserveOp(x, d)) \in [Slots -> Content]
           /\ Moved(fs, PreserveOp(x, d))[MainOf(d)] = x
           /\ Moved(fs, PreserveOp(x, d))[Main] = IF fs[Main] = x THEN None ELSE fs[Main]
           /\ \A s \in Slots \ {Main, MainOf(d)} : Moved(fs, PreserveOp(x, d))[s] = fs[s]
<1> USE SlotFacts, NoneFacts
<1>1. Moved(fs, PreserveOp(x, d)) =
        [[fs EXCEPT ![Main] = IF @ = x THEN None ELSE @] EXCEPT ![MainOf(d)] = x]
  BY DEF Moved, PreserveOp, MainOf
<1> QED
  BY <1>1

(* What is left of the two changes the copy. *)
LEMMA RemoveMoves ==
    ASSUME NEW fs \in [Slots -> Content], NEW x \in Content
    PROVE  /\ Moved(fs, RemoveOp(x)) \in [Slots -> Content]
           /\ fs[Temp] # x => Moved(fs, RemoveOp(x))[Temp] = fs[Temp]
           /\ \A s \in Slots \ {Temp} : Moved(fs, RemoveOp(x))[s] = fs[s]
<1> USE SlotFacts, NoneFacts
<1>1. Moved(fs, RemoveOp(x)) = [fs EXCEPT ![Temp] = IF @ = x THEN None ELSE @]
  BY DEF Moved, RemoveOp
<1> QED
  BY <1>1

(* An install of a fresh copy, where no live file is, loses no database. *)
LEMMA FilesInstalled ==
    ASSUME NEW fs, NEW x, TypeOK, Files(fs), Fresh(x), fs[Main] = None, fs[Wal] = None
    PROVE  Files(Moved(fs, InstallOp(x)))
<1>0. /\ fs \in [Slots -> Content] /\ x \in Content
      /\ dirs \subseteq 1..MaxDirs
  BY DEF Files, Fresh, Whole, TypeOK
<1>1. PICK gs : gs = Moved(fs, InstallOp(x))
  OBVIOUS
<1>2. /\ gs \in [Slots -> Content]
      /\ gs[Main] = x
      /\ \A s \in Slots \ {Main, Temp} : gs[s] = fs[s]
  BY <1>0, <1>1, InstallMoves
<1>3. \A s \in Slots \ {Temp} : gs[s] = None \/ Whole(gs[s])
  BY <1>2 DEF Files, Fresh
<1>4. gs[Wal] = None
  BY <1>2, SlotFacts
<1>5. \A d \in 1..MaxDirs : gs[WalOf(d)] = fs[WalOf(d)] /\ gs[MainOf(d)] = fs[MainOf(d)]
  BY <1>2, SlotFacts
<1>6. \A d \in 1..MaxDirs : gs[WalOf(d)] = None /\ (d \notin dirs => gs[MainOf(d)] = None)
  BY <1>5 DEF Files, WalOf, MainOf
<1>7. ASSUME NEW b \in 1..MaxBooks, committed[b] > 0
      PROVE  \E d \in Live..MaxDirs : Holds(gs, d, b)
  <2>1. PICK d \in Live..MaxDirs : Holds(fs, d, b)
    BY <1>7 DEF Files
  <2>2. d \in 1..MaxDirs
    BY <2>1, HoldsBy, DirFacts, SlotFacts, NoneFacts
  <2>3. Holds(gs, d, b)
    BY <1>5, <2>1, <2>2, HoldsBy
  <2> QED
    BY <2>3
<1> QED
  BY <1>1, <1>2, <1>3, <1>4, <1>6, <1>7 DEF Files, WalOf, MainOf

(* A live file without a WAL is whole in the directory it moves to. *)
LEMMA FilesPreserved ==
    ASSUME NEW fs, NEW x, NEW d \in dirs, TypeOK, Files(fs), Whole(x), fs[Wal] = None,
           fs[MainOf(d)] = None
    PROVE  Files(Moved(fs, PreserveOp(x, d)))
<1>0. /\ fs \in [Slots -> Content] /\ x \in Content
      /\ dirs \subseteq 1..MaxDirs /\ d \in 1..MaxDirs
  BY DEF Files, Whole, TypeOK
<1>1. PICK gs : gs = Moved(fs, PreserveOp(x, d))
  OBVIOUS
<1>2. /\ gs \in [Slots -> Content]
      /\ gs[MainOf(d)] = x
      /\ gs[Main] = IF fs[Main] = x THEN None ELSE fs[Main]
      /\ \A s \in Slots \ {Main, MainOf(d)} : gs[s] = fs[s]
  BY <1>0, <1>1, PreserveMoves
<1>3. \A s \in Slots \ {Temp} : gs[s] = None \/ Whole(gs[s])
  BY <1>2 DEF Files
<1>4. gs[Wal] = None
  BY <1>0, <1>2, SlotFacts
<1>5. /\ \A e \in 1..MaxDirs : gs[WalOf(e)] = fs[WalOf(e)]
      /\ \A e \in 1..MaxDirs : e # d => gs[MainOf(e)] = fs[MainOf(e)]
  BY <1>0, <1>2, SlotFacts, DirFacts
<1>6. \A e \in 1..MaxDirs : gs[WalOf(e)] = None /\ (e \notin dirs => gs[MainOf(e)] = None)
  BY <1>5 DEF Files, WalOf, MainOf
<1>7. ASSUME NEW b \in 1..MaxBooks, committed[b] > 0
      PROVE  \E e \in Live..MaxDirs : Holds(gs, e, b)
  <2>1. PICK e \in Live..MaxDirs : Holds(fs, e, b)
    BY <1>7 DEF Files
  <2>2. e # d
    BY <1>0, <2>1, HoldsBy, NoneFacts
  <2>3. CASE e \in 1..MaxDirs
    BY <1>5, <2>1, <2>2, <2>3, HoldsBy
  <2>4. CASE e = Live /\ fs[Main] # x
    BY <1>2, <1>4, <2>1, <2>4, HoldsBy, SlotFacts
  <2>5. CASE e = Live /\ fs[Main] = x
    <3>1. x.book = b /\ x.state # "torn" /\ x.n = committed[b]
      BY <2>1, <2>5, HoldsBy, SlotFacts, NoneFacts
    <3>2. Holds(gs, d, b)
      BY <3>1, <1>2, HoldsBy
    <3> QED
      BY <3>2, <1>0, DirFacts
  <2> QED
    BY <2>3, <2>4, <2>5, DirFacts
<1> QED
  BY <1>1, <1>2, <1>3, <1>4, <1>6, <1>7 DEF Files, WalOf, MainOf

(* The copy being made is nobody's database. *)
LEMMA FilesAgree ==
    ASSUME NEW fs, NEW gs \in [Slots -> Content], Files(fs),
           \A s \in Slots \ {Temp} : gs[s] = fs[s]
    PROVE  Files(gs)
<1>1. \A s \in Slots \ {Temp} : gs[s] = None \/ Whole(gs[s])
  BY DEF Files
<1>2. gs[Wal] = fs[Wal] /\ gs[Main] = fs[Main]
  BY SlotFacts
<1>3. \A d \in 1..MaxDirs : gs[WalOf(d)] = fs[WalOf(d)] /\ gs[MainOf(d)] = fs[MainOf(d)]
  BY SlotFacts
<1>4. \A d \in 1..MaxDirs : gs[WalOf(d)] = None /\ (d \notin dirs => gs[MainOf(d)] = None)
  BY <1>3 DEF Files, WalOf, MainOf
<1>5. \A b \in 1..MaxBooks, d \in Live..MaxDirs : Holds(fs, d, b) => Holds(gs, d, b)
  BY <1>2, <1>3, HoldsBy, DirFacts, SlotFacts
<1> QED
  BY <1>1, <1>2, <1>4, <1>5 DEF Files, WalOf, MainOf

(* Nor is the name it leaves. *)
LEMMA FilesRemoved ==
    ASSUME NEW fs, NEW x \in Content, Files(fs)
    PROVE  Files(Moved(fs, RemoveOp(x)))
<1>1. fs \in [Slots -> Content]
  BY DEF Files
<1> QED
  BY <1>1, RemoveMoves, FilesAgree

-----------------------------------------------------------------------------
(* What processes see, and what a power cut may leave *)

(* Whatever part of what waits has happened, the entries are sound. *)
LEMMA SurvivorsAreSound ==
    ASSUME TypeOK, Files(disk), Pending, NEW keep
    PROVE  Files(Survivors(keep))
<1>1. CASE ops = <<>>
  BY <1>1, AppliedNone DEF Survivors
<1>2. CASE /\ disk[Wal] = None /\ disk[Main] = None
           /\ \E x \in Content : /\ Fresh(x)
                                 /\ \/ ops = <<InstallOp(x)>>
                                    \/ ops = <<RemoveOp(x)>>
                                    \/ \E d \in dirs : /\ disk[MainOf(d)] = None
                                                       /\ ops = <<InstallOp(x), PreserveOp(x, d)>>
  <2>1. PICK x \in Content : /\ Fresh(x)
                             /\ \/ ops = <<InstallOp(x)>>
                                \/ ops = <<RemoveOp(x)>>
                                \/ \E d \in dirs : /\ disk[MainOf(d)] = None
                                                   /\ ops = <<InstallOp(x), PreserveOp(x, d)>>
    BY <1>2
  <2>2. Files(Moved(disk, InstallOp(x))) /\ Files(Moved(disk, RemoveOp(x)))
    BY <1>2, <2>1, FilesInstalled, FilesRemoved
  <2>3. CASE ops = <<InstallOp(x)>>
    BY <2>2, <2>3, AppliedOne DEF Survivors
  <2>4. CASE ops = <<RemoveOp(x)>>
    BY <2>2, <2>4, AppliedOne DEF Survivors
  <2>5. ASSUME NEW d \in dirs, disk[MainOf(d)] = None, ops = <<InstallOp(x), PreserveOp(x, d)>>
        PROVE  Files(Survivors(keep))
    <3>1. PICK one : one = IF 1 \in keep THEN Moved(disk, InstallOp(x)) ELSE disk
      OBVIOUS
    <3>2. Files(one)
      BY <2>2, <3>1
    <3>3. d \in 1..MaxDirs /\ disk \in [Slots -> Content]
      BY DEF TypeOK
    <3>4. one[Wal] = None /\ one[MainOf(d)] = None
      BY <1>2, <2>5, <3>1, <3>3, InstallMoves, SlotFacts
    <3>5. Files(Moved(one, PreserveOp(x, d)))
      BY <2>1, <3>2, <3>4, FilesPreserved DEF Fresh
    <3>6. Survivors(keep) = IF 2 \in keep THEN Moved(one, PreserveOp(x, d)) ELSE one
      BY <2>5, <3>1, AppliedTwo DEF Survivors
    <3> QED
      BY <3>2, <3>5, <3>6
  <2> QED
    BY <2>1, <2>3, <2>4, <2>5
<1>3. ASSUME NEW d \in dirs, disk[Wal] = None, disk[Main] # None, disk[MainOf(d)] = None,
             ops = <<PreserveOp(disk[Main], d)>>
      PROVE  Files(Survivors(keep))
  <2>1. Whole(disk[Main])
    BY <1>3, SlotFacts DEF Files
  <2>2. Files(Moved(disk, PreserveOp(disk[Main], d)))
    BY <1>3, <2>1, FilesPreserved
  <2> QED
    BY <1>3, <2>2, AppliedOne DEF Survivors
<1> QED
  BY <1>1, <1>2, <1>3 DEF Pending, MainOf

(* What processes see, operation by operation. *)
LEMMA ViewByShape ==
    /\ ops = <<>> => View = disk
    /\ \A o : ops = <<o>> => View = Moved(disk, o)
    /\ \A o, q : ops = <<o, q>> => View = Moved(Moved(disk, o), q)
<1>1. ops = <<>> => View = disk
  BY AppliedNone DEF View, Survivors
<1>2. ASSUME NEW o, ops = <<o>>
      PROVE  View = Moved(disk, o)
  BY <1>2, AppliedOne DEF View, Survivors
<1>3. ASSUME NEW o, NEW q, ops = <<o, q>>
      PROVE  View = Moved(Moved(disk, o), q)
  <2>1. 1 \in 1..Len(ops) /\ 2 \in 1..Len(ops)
    BY <1>3
  <2> QED
    BY <1>3, <2>1, AppliedTwo DEF View, Survivors
<1> QED
  BY <1>1, <1>2, <1>3

(* What processes see of the live files: a live file is on disk, or is the   *)
(* copy just installed.                                                      *)
LEMMA ViewFacts ==
    ASSUME TypeOK, Files(disk), Pending
    PROVE  /\ Files(View)
           /\ View[Wal] = disk[Wal]
           /\ ops # <<>> => disk[Wal] = None
           /\ disk[Temp].state # "whole" => View[Temp] = disk[Temp]
           /\ View[Main] # None =>
                /\ \A d \in 1..MaxDirs : View[MainOf(d)] = disk[MainOf(d)]
                /\ ops = <<>> \/ \E x \in Content : /\ Fresh(x) /\ ops = <<InstallOp(x)>>
                                                     /\ View[Main] = x /\ disk[Main] = None
<1>0. disk \in [Slots -> Content] /\ dirs \subseteq 1..MaxDirs
  BY DEF TypeOK
<1>1. Files(View)
  BY SurvivorsAreSound DEF View
<1>2. CASE ops = <<>>
  BY <1>1, <1>2, ViewByShape
<1>3. ASSUME NEW x \in Content, Fresh(x), disk[Wal] = None, disk[Main] = None, ops = <<InstallOp(x)>>
      PROVE  /\ View[Wal] = None
             /\ disk[Temp].state # "whole" => View[Temp] = disk[Temp]
             /\ \A d \in 1..MaxDirs : View[MainOf(d)] = disk[MainOf(d)]
             /\ View[Main] = x
  <2>1. View = Moved(disk, InstallOp(x))
    BY <1>3, ViewByShape
  <2>2. disk[Temp].state # "whole" => disk[Temp] # x
    BY <1>3 DEF Fresh, Whole
  <2> QED
    BY <1>0, <1>3, <2>1, <2>2, InstallMoves, SlotFacts
<1>4. ASSUME NEW x \in Content, Fresh(x), disk[Wal] = None, disk[Main] = None, ops = <<RemoveOp(x)>>
      PROVE  /\ View[Wal] = None
             /\ disk[Temp].state # "whole" => View[Temp] = disk[Temp]
             /\ View[Main] = None
  <2>1. View = Moved(disk, RemoveOp(x))
    BY <1>4, ViewByShape
  <2>2. disk[Temp].state # "whole" => disk[Temp] # x
    BY <1>4 DEF Fresh, Whole
  <2> QED
    BY <1>0, <1>4, <2>1, <2>2, RemoveMoves, SlotFacts
<1>5. ASSUME NEW x \in Content, NEW d \in dirs, Fresh(x), disk[Wal] = None, disk[Main] = None,
             ops = <<InstallOp(x), PreserveOp(x, d)>>
      PROVE  /\ View[Wal] = None
             /\ disk[Temp].state # "whole" => View[Temp] = disk[Temp]
             /\ View[Main] = None
  <2>1. PICK one : one = Moved(disk, InstallOp(x))
    OBVIOUS
  <2>2. View = Moved(one, PreserveOp(x, d))
    BY <1>5, <2>1, ViewByShape
  <2>3. disk[Temp].state # "whole" => disk[Temp] # x
    BY <1>5 DEF Fresh, Whole
  <2>4. /\ one \in [Slots -> Content]
        /\ one[Main] = x /\ one[Wal] = None
        /\ disk[Temp].state # "whole" => one[Temp] = disk[Temp]
    BY <1>0, <1>5, <2>1, <2>3, InstallMoves, SlotFacts
  <2> QED
    BY <1>0, <1>5, <2>2, <2>4, PreserveMoves, SlotFacts
<1>6. ASSUME NEW d \in dirs, disk[Wal] = None, disk[Main] # None, ops = <<PreserveOp(disk[Main], d)>>
      PROVE  /\ View[Wal] = None
             /\ View[Temp] = disk[Temp]
             /\ View[Main] = None
  <2>0. disk[Main] \in Content /\ d \in 1..MaxDirs
    BY <1>0, SlotFacts
  <2>1. View = Moved(disk, PreserveOp(disk[Main], d))
    BY <1>6, ViewByShape
  <2> QED
    BY <1>0, <1>6, <2>0, <2>1, PreserveMoves, SlotFacts
<1> QED
  BY <1>1, <1>2, <1>3, <1>4, <1>5, <1>6 DEF Pending

-----------------------------------------------------------------------------
(* Syncs *)

(* A sync of a directory that everything touches settles everything. *)
LEMMA RestNone ==
    ASSUME NEW d, ops = <<>> \/ (\E o : ops = <<o>> /\ Touches(o, d))
                  \/ (\E o, q : ops = <<o, q>> /\ Touches(o, d) /\ Touches(q, d))
    PROVE  Synced(d) = View /\ Unsynced(d) = <<>>
<1>0. Len(ops) \in Nat /\ Len(ops) <= 2 /\ \A i \in 1..Len(ops) : Touches(ops[i], d)
  <2>1. CASE ops = <<>>
    BY <2>1
  <2>2. ASSUME NEW o, ops = <<o>>, Touches(o, d)
        PROVE  Len(ops) \in Nat /\ Len(ops) <= 2 /\ \A i \in 1..Len(ops) : Touches(ops[i], d)
    <3>1. Len(ops) = 1 /\ ops[1] = o
      BY <2>2
    <3> QED
      BY <2>2, <3>1
  <2>3. ASSUME NEW o, NEW q, ops = <<o, q>>, Touches(o, d), Touches(q, d)
        PROVE  Len(ops) \in Nat /\ Len(ops) <= 2 /\ \A i \in 1..Len(ops) : Touches(ops[i], d)
    <3>1. Len(ops) = 2 /\ ops[1] = o /\ ops[2] = q
      BY <2>3
    <3> QED
      BY <2>3, <3>1
  <2> QED
    BY <2>1, <2>2, <2>3
<1>1. {i \in 1..Len(ops) : Touches(ops[i], d)} = 1..Len(ops)
  BY <1>0
<1>2. Synced(d) = View
  BY <1>1 DEF Synced, View
<1> DEFINE Left(op) == IF MovedOn(op, d) THEN [op EXCEPT !.to = Gone] ELSE op
           Rest(g) == g = [i \in 0..Len(ops) |->
                IF i = 0 THEN <<>>
                ELSE IF Touches(ops[i], d) THEN g[i - 1] ELSE Append(g[i - 1], Left(ops[i]))]
<1> HIDE DEF Left
<1>3. Rest([i \in 0..Len(ops) |-> <<>>])
  BY <1>0
<1>4. PICK g : g = (CHOOSE h : Rest(h))
  OBVIOUS
<1>5. Rest(g)
  BY <1>3, <1>4
<1>6. g[0] = <<>> /\ (Len(ops) >= 1 => g[1] = <<>>) /\ (Len(ops) = 2 => g[2] = <<>>)
  BY <1>0, <1>5
<1>7. g[Len(ops)] = <<>>
  BY <1>0, <1>6
<1>8. Unsynced(d) = g[Len(ops)]
  BY <1>4 DEF Unsynced, Left
<1> QED
  BY <1>2, <1>7, <1>8

(* Everything that waits touches the live directory. *)
LEMMA SyncLive ==
    ASSUME TypeOK, Pending
    PROVE  Synced(Live) = View /\ Unsynced(Live) = <<>>
<1>1. \A x, d : Touches(InstallOp(x), Live) /\ Touches(PreserveOp(x, d), Live) /\ Touches(RemoveOp(x), Live)
  BY DEF Touches, InstallOp, PreserveOp, RemoveOp, Temp, Main
<1> QED
  BY <1>1, RestNone DEF Pending

(* The three operations are told apart by their slots. *)
LEMMA OneOp ==
    /\ \A x, y, d : InstallOp(x) # PreserveOp(y, d)
    /\ \A x, y : InstallOp(x) # RemoveOp(y) /\ (InstallOp(x) = InstallOp(y) => x = y)
    /\ \A x, y, d : RemoveOp(x) # PreserveOp(y, d)
    /\ \A x, y, d, e : PreserveOp(x, d) = PreserveOp(y, e) => x = y /\ d = e
BY SlotFacts DEF InstallOp, PreserveOp, RemoveOp

(* A sync of the directory a file moved into settles that move, and leaves    *)
(* at most the end of an install before it.                                  *)
LEMMA SyncPreservedDir ==
    ASSUME TypeOK, Files(disk), Pending, NEW d \in dirs, NEW x \in Content,
           ops # <<>>, ops[Len(ops)] = PreserveOp(x, d)
    PROVE  /\ Files(Synced(d)) /\ Synced(d)[Main] = None /\ Synced(d)[Wal] = None
           /\ \/ Unsynced(d) = <<>>
              \/ Fresh(x) /\ Unsynced(d) = <<RemoveOp(x)>>
<1>0. disk \in [Slots -> Content] /\ d \in 1..MaxDirs
  BY DEF TypeOK
<1>1. Files(Synced(d))
  BY SurvivorsAreSound DEF Synced
<1>2. \A y, e : Touches(PreserveOp(y, e), d) <=> e = d
  BY <1>0 DEF Touches, PreserveOp, Main, Live
<1>3. \A y : ~Touches(InstallOp(y), d) /\ ~Touches(RemoveOp(y), d)
  BY <1>0 DEF Touches, InstallOp, RemoveOp, Temp, Main, Gone, Live
<1>4. CASE disk[Wal] = None /\ disk[Main] # None /\ ops = <<PreserveOp(disk[Main], d)>>
  <2>1. Synced(d) = View /\ Unsynced(d) = <<>>
    BY <1>2, <1>4, RestNone
  <2>2. View = Moved(disk, PreserveOp(disk[Main], d)) /\ disk[Main] \in Content
    BY <1>0, <1>4, ViewByShape, SlotFacts
  <2>3. View[Main] = None /\ View[Wal] = None
    BY <1>0, <1>4, <2>2, PreserveMoves, SlotFacts
  <2> QED
    BY <1>1, <2>1, <2>3
<1>5. CASE /\ disk[Wal] = None /\ disk[Main] = None /\ disk[MainOf(d)] = None /\ Fresh(x)
           /\ ops = <<InstallOp(x), PreserveOp(x, d)>>
  <2>1. {i \in 1..Len(ops) : Touches(ops[i], d)} = {2}
    BY <1>2, <1>3, <1>5
  <2>2. Synced(d) = Moved(disk, PreserveOp(x, d))
    BY <1>5, <2>1, AppliedTwo DEF Synced, Survivors
  <2>3. Synced(d)[Main] = None /\ Synced(d)[Wal] = None
    BY <1>0, <1>5, <2>2, PreserveMoves, SlotFacts
  <2>4. MovedOn(InstallOp(x), d)
    <3>1. 2 \in 1..Len(ops) /\ ops[2] = PreserveOp(x, d)
      BY <1>5
    <3> QED
      BY <1>2, <3>1 DEF MovedOn, InstallOp, PreserveOp
  <2> DEFINE Left(op) == IF MovedOn(op, d) THEN [op EXCEPT !.to = Gone] ELSE op
             Rest(g) == g = [i \in 0..Len(ops) |->
                  IF i = 0 THEN <<>>
                  ELSE IF Touches(ops[i], d) THEN g[i - 1] ELSE Append(g[i - 1], Left(ops[i]))]
  <2>5. Left(InstallOp(x)) = RemoveOp(x)
    BY <2>4 DEF InstallOp, RemoveOp
  <2> HIDE DEF Left
  <2>6. Rest([i \in 0..2 |-> IF i = 0 THEN <<>> ELSE <<RemoveOp(x)>>])
    BY <1>2, <1>3, <1>5, <2>5
  <2>7. PICK g : g = (CHOOSE h : Rest(h))
    OBVIOUS
  <2>8. Rest(g)
    BY <2>6, <2>7
  <2>9. /\ Len(ops) = 2 /\ ops[1] = InstallOp(x) /\ ops[2] = PreserveOp(x, d)
        /\ ~Touches(ops[1], d) /\ Touches(ops[2], d) /\ Left(ops[1]) = RemoveOp(x)
    BY <1>2, <1>3, <1>5, <2>5
  <2>10. g[0] = <<>> /\ g[1] = Append(g[0], Left(ops[1])) /\ g[2] = g[1]
    <3>1. ASSUME NEW i \in 0..2
          PROVE  g[i] = IF i = 0 THEN <<>>
                        ELSE IF Touches(ops[i], d) THEN g[i - 1] ELSE Append(g[i - 1], Left(ops[i]))
      BY <2>9, <2>8, Zenon
    <3>2. g[0] = <<>>
      BY <3>1
    <3>3. 1 \in 0..2 /\ 1 # 0 /\ 1 - 1 = 0 /\ 2 \in 0..2 /\ 2 # 0 /\ 2 - 1 = 1
      OBVIOUS
    <3>4. g[1] = Append(g[1 - 1], Left(ops[1]))
      BY <2>9, <3>1, <3>3, Zenon
    <3>5. g[2] = g[2 - 1]
      BY <2>9, <3>1, <3>3, Zenon
    <3> QED
      BY <3>2, <3>3, <3>4, <3>5, Zenon
  <2>11. g[Len(ops)] = <<RemoveOp(x)>>
    BY <2>9, <2>10
  <2>12. Unsynced(d) = g[Len(ops)]
    BY <2>7 DEF Unsynced, Left
  <2> QED
    BY <1>1, <1>5, <2>3, <2>11, <2>12
<1>6. \A o : ops = <<o>> => o = PreserveOp(x, d)
  OBVIOUS
<1>7. \A o, q : ops = <<o, q>> => q = PreserveOp(x, d)
  OBVIOUS
<1>8. CASE /\ disk[Wal] = None /\ disk[Main] = None
            /\ \E y \in Content : /\ Fresh(y)
                                  /\ \/ ops = <<InstallOp(y)>>
                                     \/ ops = <<RemoveOp(y)>>
                                     \/ \E e \in dirs : /\ disk[MainOf(e)] = None
                                                        /\ ops = <<InstallOp(y), PreserveOp(y, e)>>
  <2>1. PICK y \in Content : /\ Fresh(y)
                             /\ \/ ops = <<InstallOp(y)>>
                                \/ ops = <<RemoveOp(y)>>
                                \/ \E e \in dirs : /\ disk[MainOf(e)] = None
                                                   /\ ops = <<InstallOp(y), PreserveOp(y, e)>>
    BY <1>8
  <2>2. PICK e \in dirs : disk[MainOf(e)] = None /\ ops = <<InstallOp(y), PreserveOp(y, e)>>
    BY <1>6, <2>1, OneOp
  <2>3. PreserveOp(y, e) = PreserveOp(x, d)
    BY <1>7, <2>2
  <2>4. y = x /\ e = d
    BY <2>3, OneOp
  <2> QED
    BY <1>5, <1>8, <2>1, <2>2, <2>4
<1>9. CASE /\ disk[Wal] = None /\ disk[Main] # None
            /\ \E e \in dirs : disk[MainOf(e)] = None /\ ops = <<PreserveOp(disk[Main], e)>>
  <2>1. PICK e \in dirs : ops = <<PreserveOp(disk[Main], e)>>
    BY <1>9
  <2>2. PreserveOp(disk[Main], e) = PreserveOp(x, d)
    BY <1>6, <2>1
  <2> QED
    BY <1>4, <1>9, <2>1, <2>2, OneOp
<1> QED
  BY <1>8, <1>9 DEF Pending, MainOf

-----------------------------------------------------------------------------
(* Who moves *)

(* The lock keeps every other restore idle. *)
LEMMA NooneElse ==
    ASSUME TypeOK, NEW p \in Restores, lock \in {NoOne, p}, NEW next, step' = [step EXCEPT ![p] = next],
           ProgressOf(p)'
    PROVE  \A q \in Restores : ProgressOf(q)'
<1>1. ASSUME NEW q \in Restores, q # p
      PROVE  step'[q] = "idle"
  BY <1>1, RestoreAssumption DEF TypeOK, RestoreAssumption
<1> QED
  BY <1>1 DEF ProgressOf

(* While the server, or nobody, has the lock, every restore is idle. *)
LEMMA NobodyRestores ==
    ASSUME TypeOK, lock \in {NoOne, Server}, step' = step
    PROVE  \A q \in Restores : ProgressOf(q)'
<1>1. \A q \in Restores : step'[q] = "idle"
  BY RestoreAssumption DEF TypeOK, RestoreAssumption
<1> QED
  BY <1>1 DEF ProgressOf

(* The type of a step of a restore. *)
LEMMA TypeStep ==
    ASSUME TypeOK, NEW p \in Restores, lock \in {NoOne, p}, NEW next \in Steps,
           step' = [step EXCEPT ![p] = next], lock' = p \/ (next = "idle" /\ lock' = NoOne),
           disk' \in [Slots -> Content], ops' \in Seq([item : Content, from : Slots, to : Slots]),
           dirs' \subseteq 1..MaxDirs, into' \in [Restores -> 0..MaxDirs],
           committed' = committed, books' \in 1..MaxBooks, cuts' = cuts
    PROVE  TypeOK'
<1>1. \A q \in Restores : step'[q] # "idle" => lock' = q
  BY RestoreAssumption DEF TypeOK, RestoreAssumption
<1>2. step' \in [Restores -> Steps]
  BY DEF TypeOK
<1>3. lock' \in Restores \cup {NoOne, Server}
  OBVIOUS
<1> QED
  BY <1>1, <1>2, <1>3 DEF TypeOK

(* The type of a step of the server. *)
LEMMA TypeServer ==
    ASSUME TypeOK, lock \in {NoOne, Server}, lock' \in {NoOne, Server}, step' = step,
           disk' \in [Slots -> Content], ops' \in Seq([item : Content, from : Slots, to : Slots]),
           dirs' = dirs, into' = into,
           committed' \in [1..MaxBooks -> 0..MaxCommits], books' \in 1..MaxBooks, cuts' = cuts
    PROVE  TypeOK'
<1>1. \A q \in Restores : step'[q] = "idle"
  BY RestoreAssumption DEF TypeOK, RestoreAssumption
<1> QED
  BY <1>1 DEF TypeOK

-----------------------------------------------------------------------------
(* What a step does to the files *)

(* Nothing moved; a directory may be new. *)
LEMMA SameFiles ==
    ASSUME TypeOK, Files(disk), Pending, UNCHANGED <<disk, ops, committed, books>>,
           dirs \subseteq dirs'
    PROVE  Files(disk)' /\ Pending' /\ View' = View
<1>1. Files(disk)'
  BY DEF Files, Holds, Whole
<1>2. Pending'
  BY DEF Pending, Fresh, Whole
<1> QED
  BY <1>1, <1>2 DEF View, Survivors

(* Where nothing waits, what processes see is on disk. *)
LEMMA SettledView ==
    ASSUME ops' = <<>>
    PROVE  View' = disk'
BY AppliedNone DEF View, Survivors

(* Sound entries that are all synced. *)
LEMMA Settled ==
    ASSUME NEW fs, Files(fs), disk' = fs, ops' = <<>>, UNCHANGED <<dirs, committed, books>>
    PROVE  Files(disk)' /\ Pending' /\ View' = disk'
<1>1. Files(disk)'
  BY DEF Files, Holds, Whole
<1>2. Pending'
  BY DEF Pending
<1>3. View' = disk'
  BY AppliedNone DEF View, Survivors
<1> QED
  BY <1>1, <1>2, <1>3

(* Sequences of none, one and two. *)
LEMMA OpsSettled == <<>> \in Seq([item : Content, from : Slots, to : Slots])
OBVIOUS

LEMMA OneIsSeq ==
    ASSUME NEW S, NEW o \in S
    PROVE  <<o>> \in Seq(S)
OBVIOUS

LEMMA AppendSecond ==
    ASSUME NEW S, NEW a \in S, NEW b \in S
    PROVE  Append(<<a>>, b) = <<a, b>>
<1>1. <<a>> \in Seq(S) /\ <<a, b>> \in Seq(S) /\ Append(<<a>>, b) \in Seq(S)
  OBVIOUS
<1>2. Len(Append(<<a>>, b)) = 2 /\ Len(<<a, b>>) = 2
  OBVIOUS
<1>3. Append(<<a>>, b)[1] = a /\ Append(<<a>>, b)[2] = b
  OBVIOUS
<1>4. \A i \in 1..2 : Append(<<a>>, b)[i] = <<a, b>>[i]
  BY <1>3
<1> QED
  BY <1>1, <1>2, <1>4, SeqEqual

(* ViewFacts after a step. *)
LEMMA ViewStands ==
    TypeOK /\ Files(disk) /\ Pending =>
        /\ View[Wal] = disk[Wal]
        /\ View[Main] # None =>
              ops = <<>> \/ \E x \in Content : ops = <<InstallOp(x)>>
BY ViewFacts

LEMMA ViewAfterwards ==
    (TypeOK /\ Files(disk) /\ Pending)' =>
        (/\ View[Wal] = disk[Wal]
         /\ View[Main] # None =>
              ops = <<>> \/ \E x \in Content : ops = <<InstallOp(x)>>)'
BY ViewStands, PTL

(* Writing the copy, while there is no live file, leaves the rest alone. *)
LEMMA TempWritten ==
    ASSUME TypeOK, TypeOK', Files(disk), Pending, View[Main] = None, NEW c \in Content,
           disk' = [disk EXCEPT ![Temp] = c], books <= books', UNCHANGED <<ops, dirs, committed>>
    PROVE  Files(disk)' /\ Pending' /\ View'[Main] = None
<1>0. disk \in [Slots -> Content] /\ books \in Nat /\ books' \in Nat /\ dirs \subseteq 1..MaxDirs
  BY RestoreAssumption DEF TypeOK, RestoreAssumption
<1>1. Files(disk')
  BY <1>0, FilesAgree, SlotFacts
<1>2. \A f : Whole(f) => Whole(f)'
  BY <1>0 DEF Whole
<1>3. Files(disk)'
  BY <1>1, <1>2 DEF Files, Holds
<1>4. /\ disk'[Main] = disk[Main] /\ disk'[Wal] = disk[Wal]
      /\ \A d \in dirs : disk'[MainOf(d)] = disk[MainOf(d)]
  BY <1>0, SlotFacts
<1>5. Pending'
  BY <1>2, <1>4 DEF Pending, Fresh, MainOf
<1>6. ASSUME ops = <<>>
      PROVE  View'[Main] = None
  <2>1. View' = disk'
    BY <1>6, SettledView
  <2> QED
    BY <1>4, <1>6, <2>1, ViewByShape
<1>7. ASSUME NEW x \in Content, ops = <<InstallOp(x)>>
      PROVE  FALSE
  <2>1. Fresh(x)
    <3>1. PICK o : o = InstallOp(x)
      OBVIOUS
    <3>2. \A q : ops = <<q>> => q = o
      BY <1>7, <3>1
    <3>3. \A q, s : ops # <<q, s>>
      BY <1>7
    <3>4. ops # <<>>
      BY <1>7
    <3> QED
      BY <3>1, <3>2, <3>3, <3>4, OneOp DEF Pending
  <2> QED
    BY <1>0, <1>7, <2>1, ViewByShape, InstallMoves, NoneFacts DEF Fresh, Whole
<1>8. View'[Main] # None => ops = <<>> \/ \E x \in Content : ops = <<InstallOp(x)>>
  BY <1>3, <1>5, ViewAfterwards
<1> QED
  BY <1>3, <1>5, <1>6, <1>7, <1>8

(* A checkpoint moves the WAL's transactions into the file it belongs to. *)
LEMMA Checkpointed ==
    ASSUME TypeOK, Files(disk), Pending, View[Main] # None, Checkpoint,
           UNCHANGED <<dirs, committed, books>>
    PROVE  /\ disk' \in [Slots -> Content]
           /\ ops' \in Seq([item : Content, from : Slots, to : Slots])
           /\ Files(disk)' /\ Pending' /\ View'[Main] # None /\ View'[Wal] = None
<1>1. CASE View[Wal] = None
  <2>1. UNCHANGED <<disk, ops>>
    BY <1>1 DEF Checkpoint
  <2>2. Files(disk)' /\ Pending' /\ View' = View
    BY <2>1, SameFiles
  <2> QED
    BY <1>1, <2>1, <2>2 DEF TypeOK
<1>2. CASE View[Wal] # None
  <2>1. PICK fs : fs = View
    OBVIOUS
  <2>2. Files(fs) /\ fs \in [Slots -> Content]
    BY <2>1, ViewFacts DEF Files
  <2>3. PICK gs : gs = [fs EXCEPT ![Main].n = fs[Wal].n, ![Wal] = None]
    OBVIOUS
  <2>4. disk' = gs /\ ops' = <<>>
    BY <1>2, <2>1, <2>3 DEF Checkpoint
  <2>5. /\ Whole(fs[Main]) /\ fs[Wal] \in Content
        /\ fs[Wal].n = committed[fs[Main].book]
    BY <1>2, <2>1, <2>2, SlotFacts DEF Files
  <2>6. PICK main : main = [fs[Main] EXCEPT !.n = fs[Wal].n]
    OBVIOUS
  <2>7. /\ Whole(main) /\ main.book = fs[Main].book /\ main.n = fs[Wal].n
        /\ main.state = "whole"
    BY <2>5, <2>6 DEF Whole, Content
  <2>8. main # None
    BY <2>7, NoneFacts
  <2>9. /\ gs \in [Slots -> Content]
        /\ gs[Main] = main /\ gs[Wal] = None
        /\ \A s \in Slots \ {Main, Wal} : gs[s] = fs[s]
    <3>1. main \in Content
      BY <2>7 DEF Whole
    <3>2. gs = [[fs EXCEPT ![Main] = main] EXCEPT ![Wal] = None]
      BY <2>2, <2>3, <2>6, SlotFacts
    <3> QED
      BY <2>2, <3>1, <3>2, SlotFacts, NoneFacts
  <2>10. \A d \in 1..MaxDirs : gs[WalOf(d)] = fs[WalOf(d)] /\ gs[MainOf(d)] = fs[MainOf(d)]
    BY <2>9, SlotFacts
  <2>11. \A s \in Slots \ {Temp} : gs[s] = None \/ Whole(gs[s])
    BY <2>2, <2>7, <2>9 DEF Files
  <2>12. \A d \in 1..MaxDirs : gs[WalOf(d)] = None /\ (d \notin dirs => gs[MainOf(d)] = None)
    BY <2>2, <2>10 DEF Files, WalOf, MainOf
  <2>13. ASSUME NEW b \in 1..MaxBooks, committed[b] > 0
         PROVE  \E d \in Live..MaxDirs : Holds(gs, d, b)
    <3>1. PICK d \in Live..MaxDirs : Holds(fs, d, b)
      BY <2>2, <2>13 DEF Files
    <3>2. CASE d = Live
      <4>1. main.book = b /\ main.n = committed[b] /\ main.state # "torn"
        BY <2>5, <2>7, <3>1, <3>2, HoldsBy, SlotFacts
      <4> QED
        BY <2>9, <3>1, <3>2, <4>1, HoldsBy, SlotFacts
    <3>3. CASE d \in 1..MaxDirs
      BY <2>10, <3>1, <3>3, HoldsBy
    <3> QED
      BY <3>2, <3>3, DirFacts
  <2>14. Files(gs)
    BY <2>9, <2>11, <2>12, <2>13 DEF Files, WalOf, MainOf
  <2>15. Files(disk)' /\ Pending' /\ View' = disk'
    BY <2>4, <2>14, Settled
  <2> QED
    BY <2>4, <2>8, <2>9, <2>15, OpsSettled
<1> QED
  BY <1>1, <1>2

-----------------------------------------------------------------------------
(* The steps of the server *)

(* A server opens what there is, or makes an empty database (db.Open). *)
LEMMA OpenStep ==
    ASSUME RestoreInv, Open
    PROVE  RestoreInv'
<1>0. /\ TypeOK /\ Files(disk) /\ Pending /\ Progress
      /\ disk \in [Slots -> Content] /\ books \in 1..MaxBooks /\ lock = NoOne
  BY DEF RestoreInv, TypeOK, Open
<1>1. CASE View[Main] # None
  <2>1. UNCHANGED <<disk, ops, dirs, step, into, committed, books, cuts>> /\ lock' = Server
    BY <1>1 DEF Open
  <2>2. TypeOK'
    BY <1>0, <2>1, TypeServer DEF TypeOK
  <2>3. Files(disk)' /\ Pending' /\ View' = View
    BY <1>0, <2>1, SameFiles
  <2>4. \A q \in Restores : ProgressOf(q)'
    BY <1>0, <2>1, NobodyRestores
  <2> QED
    BY <1>0, <1>1, <2>1, <2>2, <2>3, <2>4 DEF RestoreInv, Progress
<1>2. CASE View[Main] = None
  <2>1. PICK fs : fs = View
    OBVIOUS
  <2>2. Files(fs) /\ fs \in [Slots -> Content] /\ fs[Main] = None /\ fs[Wal] = None
    BY <1>0, <1>2, <2>1, ViewFacts DEF Files
  <2>3. PICK new : new = File(books + 1, 0, "whole")
    OBVIOUS
  <2>4. /\ books < MaxBooks /\ books' = books + 1 /\ lock' = Server /\ ops' = <<>>
        /\ disk' = [fs EXCEPT ![Main] = new]
        /\ UNCHANGED <<dirs, step, into, committed, cuts>>
    BY <1>2, <2>1, <2>3 DEF Open
  <2>5. books \in Nat /\ books' \in 1..MaxBooks
    BY <1>0, <2>4, RestoreAssumption DEF RestoreAssumption
  <2> DEFINE WholeNow(f) == f \in Content /\ f.state = "whole" /\ f.book \in 1..books'
  <2>6. WholeNow(new) /\ new \in Content /\ new # None
    BY <2>3, <2>4, <2>5, RestoreAssumption, NoneFacts DEF File, Content, RestoreAssumption
  <2>7. /\ disk' \in [Slots -> Content]
        /\ disk'[Main] = new /\ \A s \in Slots \ {Main} : disk'[s] = fs[s]
    BY <2>2, <2>4, <2>6, SlotFacts
  <2>8. \A f : Whole(f) => WholeNow(f)
    BY <2>4, <2>5 DEF Whole
  <2>9. \A s \in Slots \ {Temp} : disk'[s] = None \/ Whole(disk[s])'
    <3> HIDE DEF WholeNow
    <3>1. \A s \in Slots \ {Temp} : disk'[s] = None \/ WholeNow(disk'[s])
      BY <2>2, <2>6, <2>7, <2>8 DEF Files
    <3> QED
      BY <3>1 DEF Whole, WholeNow
  <2>10. \A d \in 1..MaxDirs : disk'[WalOf(d)] = fs[WalOf(d)] /\ disk'[MainOf(d)] = fs[MainOf(d)]
    BY <2>7, SlotFacts
  <2>11. \A d \in 1..MaxDirs : disk'[WalOf(d)] = None /\ (d \notin dirs' => disk'[MainOf(d)] = None)
    BY <2>2, <2>4, <2>10 DEF Files, WalOf, MainOf
  <2>12. ASSUME NEW b \in 1..MaxBooks, committed'[b] > 0
         PROVE  \E d \in Live..MaxDirs : Holds(disk, d, b)'
    <3>1. PICK d \in Live..MaxDirs : Holds(fs, d, b)
      BY <2>2, <2>4, <2>12 DEF Files
    <3>2. d \in 1..MaxDirs
      BY <2>2, <3>1, HoldsBy, DirFacts, SlotFacts, NoneFacts
    <3>3. Holds(disk', d, b)
      BY <2>10, <3>1, <3>2, HoldsBy
    <3> QED
      BY <2>4, <3>3 DEF Holds
  <2>13. disk'[Wal] = None
    BY <2>2, <2>7, SlotFacts
  <2>14. Files(disk)'
    BY <2>7, <2>9, <2>11, <2>12, <2>13 DEF Files, WalOf, MainOf
  <2>15. Pending' /\ View' = disk'
    BY <2>4, SettledView DEF Pending
  <2>16. TypeOK'
    BY <1>0, <2>4, <2>5, <2>7, TypeServer, OpsSettled DEF TypeOK
  <2>17. \A q \in Restores : ProgressOf(q)'
    BY <1>0, <2>4, NobodyRestores
  <2>18. \A b \in 1..MaxBooks : b > books' => committed'[b] = 0
    BY <1>0, <2>4, <2>5 DEF Progress
  <2> QED
    BY <2>6, <2>7, <2>14, <2>15, <2>16, <2>17, <2>18 DEF RestoreInv, Progress
<1> QED
  BY <1>1, <1>2

(* A transaction is in the WAL before the client hears of it. *)
LEMMA CommitStep ==
    ASSUME RestoreInv, Commit
    PROVE  RestoreInv'
<1>0. /\ TypeOK /\ Files(disk) /\ Pending /\ Progress
      /\ books \in 1..MaxBooks /\ lock = Server /\ committed \in [1..MaxBooks -> 0..MaxCommits]
      /\ MaxBooks \in Nat /\ MaxCommits \in Nat
  BY RestoreAssumption DEF RestoreInv, TypeOK, Commit, RestoreAssumption
<1>1. PICK fs : fs = View
  OBVIOUS
<1>2. Files(fs) /\ fs \in [Slots -> Content] /\ fs[Main] # None
  BY <1>0, <1>1, ViewFacts DEF Files, Progress
<1>3. PICK b : b = fs[Main].book
  OBVIOUS
<1>4. b \in 1..books /\ b \in 1..MaxBooks /\ Whole(fs[Main])
  BY <1>0, <1>2, <1>3, SlotFacts DEF Files, Whole
<1>5. PICK new : new = File(b, committed[b] + 1, "whole")
  OBVIOUS
<1>6. /\ committed[b] < MaxCommits
      /\ committed' = [committed EXCEPT ![b] = @ + 1]
      /\ disk' = [fs EXCEPT ![Wal] = new]
      /\ ops' = <<>>
      /\ UNCHANGED <<lock, dirs, step, into, books, cuts>>
  BY <1>1, <1>3, <1>5 DEF Commit
<1>7. /\ new \in Content /\ new.book = b /\ new.n = committed[b] + 1 /\ Whole(new)
  BY <1>0, <1>4, <1>5, <1>6 DEF Whole, File, Content
<1>8. /\ committed' \in [1..MaxBooks -> 0..MaxCommits]
      /\ committed'[b] = new.n /\ \A c \in 1..MaxBooks : c # b => committed'[c] = committed[c]
  BY <1>0, <1>4, <1>6, <1>7
<1>9. /\ disk' \in [Slots -> Content]
      /\ disk'[Wal] = new /\ \A s \in Slots \ {Wal} : disk'[s] = fs[s]
  BY <1>2, <1>6, <1>7, SlotFacts
<1>10. disk'[Main] = fs[Main]
  BY <1>9, SlotFacts
<1>11. \A s \in Slots \ {Temp} : disk'[s] = None \/ Whole(disk[s])'
  <2>1. \A s \in Slots \ {Temp} : disk'[s] = None \/ Whole(disk'[s])
    BY <1>2, <1>7, <1>9 DEF Files
  <2> QED
    BY <1>6, <2>1 DEF Whole
<1>12. \A d \in 1..MaxDirs : disk'[WalOf(d)] = fs[WalOf(d)] /\ disk'[MainOf(d)] = fs[MainOf(d)]
  BY <1>9, SlotFacts
<1>13. \A d \in 1..MaxDirs : disk'[WalOf(d)] = None /\ (d \notin dirs' => disk'[MainOf(d)] = None)
  BY <1>2, <1>6, <1>12 DEF Files, WalOf, MainOf
<1>14. ASSUME NEW c \in 1..MaxBooks, committed'[c] > 0
       PROVE  \E d \in Live..MaxDirs : Holds(disk, d, c)'
  <2>1. ASSUME NEW d
        PROVE  Holds(disk, d, c)' <=>
                 /\ disk'[MainOf(d)].book = c
                 /\ disk'[MainOf(d)].state # "torn"
                 /\ \/ disk'[MainOf(d)].n = committed'[c]
                    \/ disk'[WalOf(d)].book = c /\ disk'[WalOf(d)].n = committed'[c]
    BY DEF Holds, MainOf, WalOf
  <2>2. CASE c = b
    <3>1. disk'[MainOf(Live)].book = c /\ disk'[MainOf(Live)].state # "torn"
      BY <1>3, <1>4, <1>10, <2>2, SlotFacts DEF Whole
    <3>2. disk'[WalOf(Live)].book = c /\ disk'[WalOf(Live)].n = committed'[c]
      BY <1>7, <1>8, <1>9, <2>2, SlotFacts
    <3> QED
      BY <2>1, <3>1, <3>2, DirFacts
  <2>3. CASE c # b
    <3>1. PICK d \in Live..MaxDirs : Holds(fs, d, c)
      BY <1>2, <1>8, <1>14, <2>3 DEF Files
    <3>2. d \in 1..MaxDirs
      BY <1>3, <2>3, <3>1, HoldsBy, DirFacts, SlotFacts
    <3> QED
      BY <1>8, <1>12, <2>1, <2>3, <3>1, <3>2, HoldsBy
  <2> QED
    BY <2>2, <2>3
<1>15. Files(disk)'
  BY <1>2, <1>3, <1>7, <1>8, <1>9, <1>10, <1>11, <1>13, <1>14 DEF Files, WalOf, MainOf
<1>16. Pending' /\ View' = disk'
  BY <1>6, SettledView DEF Pending
<1>17. TypeOK'
  BY <1>0, <1>6, <1>8, <1>9, TypeServer, OpsSettled DEF TypeOK
<1>18. \A q \in Restores : ProgressOf(q)'
  BY <1>0, <1>6, NobodyRestores
<1>19. \A c \in 1..MaxBooks : c > books' => committed'[c] = 0
  BY <1>0, <1>4, <1>6, <1>8 DEF Progress
<1> QED
  BY <1>2, <1>10, <1>15, <1>16, <1>17, <1>18, <1>19 DEF RestoreInv, Progress

(* A server stops in order. *)
LEMMA StopStep ==
    ASSUME RestoreInv, Stop
    PROVE  RestoreInv'
<1>0. /\ TypeOK /\ Files(disk) /\ Pending /\ Progress /\ View[Main] # None
      /\ lock = Server /\ lock' = NoOne /\ Checkpoint
      /\ UNCHANGED <<dirs, step, into, committed, books, cuts>>
  BY DEF RestoreInv, Stop, Progress
<1>1. /\ disk' \in [Slots -> Content]
      /\ ops' \in Seq([item : Content, from : Slots, to : Slots])
      /\ Files(disk)' /\ Pending'
  BY <1>0, Checkpointed
<1>2. TypeOK'
  BY <1>0, <1>1, TypeServer DEF TypeOK
<1>3. \A q \in Restores : ProgressOf(q)'
  BY <1>0, NobodyRestores
<1>4. lock' # Server
  BY <1>0, RestoreAssumption DEF RestoreAssumption
<1> QED
  BY <1>0, <1>1, <1>2, <1>3, <1>4 DEF RestoreInv, Progress

(* It crashes. *)
LEMMA CrashStep ==
    ASSUME RestoreInv, Crash
    PROVE  RestoreInv'
<1>0. /\ TypeOK /\ Files(disk) /\ Pending /\ Progress
      /\ lock = Server /\ lock' = NoOne
      /\ UNCHANGED <<disk, ops, dirs, step, into, committed, books, cuts>>
  BY DEF RestoreInv, Crash
<1>1. Files(disk)' /\ Pending'
  BY <1>0, SameFiles
<1>2. TypeOK'
  BY <1>0, TypeServer DEF TypeOK
<1>3. \A q \in Restores : ProgressOf(q)'
  BY <1>0, NobodyRestores
<1>4. lock' # Server
  BY <1>0, RestoreAssumption DEF RestoreAssumption
<1> QED
  BY <1>0, <1>1, <1>2, <1>3, <1>4 DEF RestoreInv, Progress

(* The power goes: some part of what waits has happened. *)
LEMMA PowerCutStep ==
    ASSUME RestoreInv, PowerCut
    PROVE  RestoreInv'
<1>0. /\ TypeOK /\ Files(disk) /\ Pending /\ Progress
      /\ lock' = NoOne /\ ops' = <<>> /\ step' = [p \in Restores |-> "idle"]
      /\ cuts \in Nat /\ MaxCuts \in Nat /\ cuts < MaxCuts /\ cuts' = cuts + 1
      /\ UNCHANGED <<dirs, into, committed, books>>
  BY RestoreAssumption DEF RestoreInv, PowerCut, TypeOK, RestoreAssumption
<1>1. PICK keep \in SUBSET (1..Len(ops)), torn \in BOOLEAN :
         disk' = [s \in Slots |-> Torn(Survivors(keep)[s], torn)]
  BY DEF PowerCut
<1>2. PICK fs : fs = Survivors(keep)
  OBVIOUS
<1>3. Files(fs) /\ fs \in [Slots -> Content]
  BY <1>0, <1>2, SurvivorsAreSound DEF Files
<1>4. \A f \in Content : Torn(f, torn) \in Content
  BY DEF Torn, Content
<1>5. disk' \in [Slots -> Content] /\ \A s \in Slots : disk'[s] = Torn(fs[s], torn)
  BY <1>1, <1>2, <1>3, <1>4
<1>6. \A s \in Slots \ {Temp} : disk'[s] = fs[s]
  BY <1>3, <1>5, NoneFacts DEF Files, Whole, Torn
<1>7. Files(disk')
  BY <1>3, <1>5, <1>6, FilesAgree
<1>8. Files(disk)' /\ Pending'
  BY <1>0, <1>7, Settled
<1>9. \A q \in Restores : ProgressOf(q)'
  BY <1>0 DEF ProgressOf
<1>10. TypeOK'
  BY <1>0, <1>5, OpsSettled DEF TypeOK, Steps
<1>11. lock' # Server
  BY <1>0, RestoreAssumption DEF RestoreAssumption
<1> QED
  BY <1>0, <1>8, <1>9, <1>10, <1>11 DEF RestoreInv, Progress

-----------------------------------------------------------------------------
(* The steps of a restore command *)

(* A step that leaves the files as they are. *)
LEMMA QuietStep ==
    ASSUME RestoreInv, NEW p \in Restores, lock \in {NoOne, p}, NEW next \in Steps,
           step' = [step EXCEPT ![p] = next], lock' = p \/ (next = "idle" /\ lock' = NoOne),
           dirs \subseteq dirs', dirs' \subseteq 1..MaxDirs, into' \in [Restores -> 0..MaxDirs],
           UNCHANGED <<disk, ops, committed, books, cuts>>,
           View' = View => ProgressOf(p)'
    PROVE  RestoreInv'
<1>0. TypeOK /\ Files(disk) /\ Pending /\ Progress
  BY DEF RestoreInv
<1>1. Files(disk)' /\ Pending' /\ View' = View
  BY <1>0, SameFiles
<1>2. TypeOK'
  BY <1>0, TypeStep DEF TypeOK
<1>3. \A q \in Restores : ProgressOf(q)'
  BY <1>0, <1>1, NooneElse
<1>4. lock' # Server
  BY RestoreAssumption DEF RestoreAssumption
<1> QED
  BY <1>0, <1>1, <1>2, <1>3, <1>4 DEF RestoreInv, Progress

(* A step that changes them. *)
LEMMA FileStep ==
    ASSUME RestoreInv, NEW p \in Restores, lock = p, NEW next \in Steps,
           step' = [step EXCEPT ![p] = next], lock' = p \/ (next = "idle" /\ lock' = NoOne),
           disk' \in [Slots -> Content], ops' \in Seq([item : Content, from : Slots, to : Slots]),
           books <= books', books' \in 1..MaxBooks,
           UNCHANGED <<dirs, into, committed, cuts>>,
           TypeOK' => Files(disk)' /\ Pending' /\ ProgressOf(p)'
    PROVE  RestoreInv'
<1>0. TypeOK /\ Progress
  BY DEF RestoreInv
<1>1. TypeOK'
  BY <1>0, TypeStep DEF TypeOK
<1>2. \A q \in Restores : ProgressOf(q)'
  BY <1>0, <1>1, NooneElse
<1>3. lock' # Server
  BY RestoreAssumption DEF RestoreAssumption
<1>4. \A b \in 1..MaxBooks : b > books' => committed'[b] = 0
  BY <1>0, RestoreAssumption DEF Progress, TypeOK, RestoreAssumption
<1> QED
  BY <1>1, <1>2, <1>3, <1>4 DEF RestoreInv, Progress

(* lockfile.Acquire. *)
LEMMA AcquireStep ==
    ASSUME RestoreInv, NEW p \in Restores, Acquire(p)
    PROVE  RestoreInv'
<1>1. /\ TypeOK /\ lock = NoOne /\ lock' = p /\ step' = [step EXCEPT ![p] = "inspect"]
      /\ UNCHANGED <<disk, ops, dirs, into, committed, books, cuts>>
  BY DEF RestoreInv, Acquire
<1>2. step'[p] = "inspect"
  BY <1>1 DEF TypeOK
<1>3. ProgressOf(p)'
  BY <1>2 DEF ProgressOf
<1> QED
  BY <1>1, <1>3, QuietStep DEF TypeOK, Steps

(* The backup passes; is there a live database? *)
LEMMA InspectStep ==
    ASSUME RestoreInv, NEW p \in Restores, Inspect(p)
    PROVE  RestoreInv'
<1>1. /\ TypeOK /\ step[p] = "inspect"
      /\ UNCHANGED <<lock, disk, ops, dirs, into, committed, books, cuts>>
  BY DEF RestoreInv, Inspect
<1>2. lock = p
  BY <1>1 DEF TypeOK
<1>3. CASE View[Main] = None
  <2>1. step' = [step EXCEPT ![p] = "create"] /\ step'[p] = "create"
    BY <1>1, <1>3 DEF Inspect, Then, TypeOK
  <2>2. View' = View => ProgressOf(p)'
    BY <1>3, <2>1 DEF ProgressOf
  <2> QED
    BY <1>1, <1>2, <2>1, <2>2, QuietStep DEF TypeOK, Steps
<1>4. CASE View[Main] # None
  <2>1. step' = [step EXCEPT ![p] = "checkpoint"] /\ step'[p] = "checkpoint"
    BY <1>1, <1>4 DEF Inspect, Then, TypeOK
  <2>2. View' = View => ProgressOf(p)'
    BY <1>4, <2>1 DEF ProgressOf
  <2> QED
    BY <1>1, <1>2, <2>1, <2>2, QuietStep DEF TypeOK, Steps
<1> QED
  BY <1>3, <1>4

(* checkpointStoppedDatabase. *)
LEMMA CheckpointStep ==
    ASSUME RestoreInv, NEW p \in Restores, checkpointStoppedDatabase(p)
    PROVE  RestoreInv'
<1>1. /\ TypeOK /\ Files(disk) /\ Pending /\ Progress /\ step[p] = "checkpoint" /\ Checkpoint
      /\ step' = [step EXCEPT ![p] = "mkdir"]
      /\ UNCHANGED <<lock, dirs, into, committed, books, cuts>>
  BY DEF RestoreInv, checkpointStoppedDatabase, Then
<1>2. lock = p /\ View[Main] # None /\ step'[p] = "mkdir"
  BY <1>1 DEF TypeOK, Progress, ProgressOf
<1>3. /\ disk' \in [Slots -> Content]
      /\ ops' \in Seq([item : Content, from : Slots, to : Slots])
      /\ Files(disk)' /\ Pending' /\ View'[Main] # None /\ View'[Wal] = None
  BY <1>1, <1>2, Checkpointed
<1>4. ProgressOf(p)'
  BY <1>2, <1>3 DEF ProgressOf
<1>5. books \in 1..MaxBooks /\ books <= books' /\ "mkdir" \in Steps
  BY <1>1, RestoreAssumption DEF TypeOK, Steps, RestoreAssumption
<1> QED
  BY <1>1, <1>2, <1>3, <1>4, <1>5, FileStep

(* createPreservedDir takes a directory that did not exist. *)
LEMMA MkdirStep ==
    ASSUME RestoreInv, NEW p \in Restores, createPreservedDir(p)
    PROVE  RestoreInv'
<1>1. /\ TypeOK /\ Files(disk) /\ Pending /\ Progress /\ step[p] = "mkdir"
      /\ step' = [step EXCEPT ![p] = "preserve_main"]
      /\ UNCHANGED <<lock, disk, ops, committed, books, cuts>>
  BY DEF RestoreInv, createPreservedDir, Then
<1>2. PICK d \in (1..MaxDirs) \ dirs : dirs' = dirs \cup {d} /\ into' = [into EXCEPT ![p] = d]
  BY DEF createPreservedDir
<1>3. lock = p /\ View[Main] # None /\ View[Wal] = None /\ step'[p] = "preserve_main"
  BY <1>1 DEF TypeOK, Progress, ProgressOf
<1>4. into'[p] = d /\ into' \in [Restores -> 0..MaxDirs] /\ dirs' \subseteq 1..MaxDirs
  BY <1>1, <1>2, RestoreAssumption DEF TypeOK, RestoreAssumption
<1>5. View[MainOf(d)] = None
  BY <1>1, ViewFacts DEF Files, MainOf
<1>6. View' = View => ProgressOf(p)'
  BY <1>2, <1>3, <1>4, <1>5 DEF ProgressOf, MainOf
<1> QED
  BY <1>1, <1>2, <1>3, <1>4, <1>6, QuietStep DEF Steps

(* The live file moves aside, behind an install that may still wait. *)
LEMMA PreserveMainStep ==
    ASSUME RestoreInv, NEW p \in Restores, PreserveMain(p)
    PROVE  RestoreInv'
<1>1. /\ TypeOK /\ Files(disk) /\ Pending /\ Progress /\ step[p] = "preserve_main"
      /\ Rename(Main, MainOf(into[p]))
      /\ step' = [step EXCEPT ![p] = "preserve_wal"]
      /\ UNCHANGED <<lock, disk, dirs, into, committed, books, cuts>>
  BY DEF RestoreInv, PreserveMain, Then, MainOf
<1>2. PICK d : d = into[p]
  OBVIOUS
<1>3. /\ lock = p /\ View[Main] # None /\ View[Wal] = None
      /\ d \in dirs /\ d \in 1..MaxDirs /\ View[MainOf(d)] = None
      /\ step'[p] = "preserve_wal" /\ into'[p] = d
  BY <1>1, <1>2 DEF TypeOK, Progress, ProgressOf, MainOf
<1>4. PICK x : x = View[Main]
  OBVIOUS
<1>5. Whole(x) /\ x \in Content
  BY <1>1, <1>3, <1>4, ViewFacts, SlotFacts DEF Files, Whole
<1>6. ops' = Append(ops, PreserveOp(x, d))
  BY <1>1, <1>2, <1>3, <1>4 DEF Rename, PreserveOp, MainOf
<1>7. disk[Wal] = None /\ disk[MainOf(d)] = None
  BY <1>1, <1>3, ViewFacts
<1>8. PreserveOp(x, d) \in [item : Content, from : Slots, to : Slots]
  BY <1>3, <1>5, SlotFacts DEF PreserveOp, MainOf
<1>9. ops \in Seq([item : Content, from : Slots, to : Slots])
  BY <1>1 DEF TypeOK
<1>10. ops' \in Seq([item : Content, from : Slots, to : Slots]) /\ ops' # <<>>
       /\ ops'[Len(ops')] = PreserveOp(x, d)
  BY <1>6, <1>8, <1>9
<1>11. Pending'
  <2>1. CASE ops = <<>>
    <3>1. disk[Main] = x /\ disk[Main] # None
      BY <1>3, <1>4, <2>1, ViewByShape
    <3>2. ops' = <<PreserveOp(x, d)>>
      BY <1>6, <2>1
    <3> QED
      BY <1>1, <1>3, <1>7, <3>1, <3>2 DEF Pending, MainOf
  <2>2. ASSUME NEW y \in Content, Fresh(y), ops = <<InstallOp(y)>>, View[Main] = y, disk[Main] = None
        PROVE  Pending'
    <3>1. ops' = <<InstallOp(x), PreserveOp(x, d)>>
      <4>1. InstallOp(x) \in [item : Content, from : Slots, to : Slots]
        BY <1>5, SlotFacts DEF InstallOp
      <4> QED
        BY <1>4, <1>6, <1>8, <2>2, <4>1, AppendSecond
    <3>2. Fresh(x)'
      BY <1>1, <1>4, <2>2 DEF Fresh, Whole
    <3> QED
      BY <1>1, <1>3, <1>5, <1>7, <2>2, <3>1, <3>2 DEF Pending, MainOf
  <2> QED
    BY <1>1, <1>3, <2>1, <2>2, ViewFacts
<1>12. Files(disk)'
  BY <1>1 DEF Files, Holds, Whole
<1>13. ProgressOf(p)'
  BY <1>1, <1>3, <1>5, <1>10 DEF ProgressOf
<1>14. books \in 1..MaxBooks /\ books <= books' /\ "preserve_wal" \in Steps
       /\ disk' \in [Slots -> Content]
  BY <1>1, RestoreAssumption DEF TypeOK, Steps, RestoreAssumption
<1> QED
  BY <1>1, <1>3, <1>10, <1>11, <1>12, <1>13, <1>14, FileStep

(* There is no WAL left to move. *)
LEMMA PreserveWalStep ==
    ASSUME RestoreInv, NEW p \in Restores, PreserveWal(p)
    PROVE  RestoreInv'
<1>1. /\ TypeOK /\ Files(disk) /\ Pending /\ Progress /\ step[p] = "preserve_wal"
      /\ Rename(Wal, WalOf(into[p]))
      /\ step' = [step EXCEPT ![p] = "sync_preserved"]
      /\ UNCHANGED <<lock, disk, dirs, into, committed, books, cuts>>
  BY DEF RestoreInv, PreserveWal, Then, WalOf
<1>2. /\ lock = p /\ into[p] \in dirs /\ ops # <<>>
      /\ \E x \in Content : ops[Len(ops)] = PreserveOp(x, into[p])
      /\ step'[p] = "sync_preserved"
  BY <1>1 DEF TypeOK, Progress, ProgressOf
<1>3. ops' = ops
  BY <1>1, <1>2, ViewFacts DEF Rename
<1>4. ProgressOf(p)'
  BY <1>1, <1>2, <1>3 DEF ProgressOf
<1> QED
  BY <1>1, <1>2, <1>3, <1>4, QuietStep DEF TypeOK, Steps

(* The move is settled before the copy is made. *)
LEMMA SyncPreservedStep ==
    ASSUME RestoreInv, NEW p \in Restores, SyncPreserved(p)
    PROVE  RestoreInv'
<1>1. /\ TypeOK /\ Files(disk) /\ Pending /\ Progress /\ step[p] = "sync_preserved"
      /\ disk' = Synced(into[p]) /\ ops' = Unsynced(into[p])
      /\ step' = [step EXCEPT ![p] = "create"]
      /\ UNCHANGED <<lock, dirs, into, committed, books, cuts>>
  BY DEF RestoreInv, SyncPreserved, SyncDirectory, Then
<1>2. /\ lock = p /\ into[p] \in dirs /\ ops # <<>>
      /\ \E x \in Content : ops[Len(ops)] = PreserveOp(x, into[p])
      /\ step'[p] = "create"
  BY <1>1 DEF TypeOK, Progress, ProgressOf
<1>3. PICK x \in Content : ops[Len(ops)] = PreserveOp(x, into[p])
  BY <1>2
<1>4. PICK fs : fs = Synced(into[p])
  OBVIOUS
<1>5. /\ Files(fs) /\ fs \in [Slots -> Content] /\ fs[Main] = None /\ fs[Wal] = None
      /\ \/ ops' = <<>>
         \/ Fresh(x) /\ ops' = <<RemoveOp(x)>>
  BY <1>1, <1>2, <1>3, <1>4, SyncPreservedDir DEF Files
<1>6. Files(disk)'
  BY <1>1, <1>4, <1>5 DEF Files, Holds, Whole
<1>7. Pending'
  <2>1. Fresh(x) => Fresh(x)'
    BY <1>1 DEF Fresh, Whole
  <2> QED
    BY <1>1, <1>4, <1>5, <2>1 DEF Pending
<1>8. RemoveOp(x) \in [item : Content, from : Slots, to : Slots]
  BY SlotFacts DEF RemoveOp
<1>9. ops' \in Seq([item : Content, from : Slots, to : Slots])
  <2>1. <<RemoveOp(x)>> \in Seq([item : Content, from : Slots, to : Slots])
    BY <1>8, OneIsSeq
  <2> QED
    BY <1>5, <2>1, OpsSettled
<1>10. View'[Main] = None
  <2>1. CASE ops' = <<>>
    BY <1>1, <1>4, <1>5, <2>1, SettledView
  <2>2. CASE ops' = <<RemoveOp(x)>>
    <3>1. View' = Moved(disk', RemoveOp(x))
      <4>1. 1..Len(ops') = 1..1
        BY <2>2
      <4> QED
        BY <2>2, <4>1, AppliedOne DEF View, Survivors
    <3> QED
      BY <1>1, <1>4, <1>5, <3>1, RemoveMoves, SlotFacts
  <2> QED
    BY <1>5, <2>1, <2>2
<1>11. ProgressOf(p)'
  BY <1>2, <1>10 DEF ProgressOf
<1>12. books \in 1..MaxBooks /\ books <= books' /\ "create" \in Steps
  BY <1>1, RestoreAssumption DEF TypeOK, Steps, RestoreAssumption
<1> QED
  BY <1>1, <1>2, <1>4, <1>5, <1>6, <1>7, <1>9, <1>11, <1>12, FileStep

(* The copy is created over what an earlier restore left. *)
LEMMA CreateCopyStep ==
    ASSUME RestoreInv, NEW p \in Restores, CreateCopy(p)
    PROVE  RestoreInv'
<1>1. PICK c : c = File(0, 0, "torn")
  OBVIOUS
<1>2. /\ TypeOK /\ Files(disk) /\ Pending /\ Progress /\ step[p] = "create"
      /\ disk' = [disk EXCEPT ![Temp] = c]
      /\ step' = [step EXCEPT ![p] = "copy"]
      /\ UNCHANGED <<lock, ops, dirs, into, committed, books, cuts>>
  BY <1>1 DEF RestoreInv, CreateCopy, Then
<1>3. c \in Content
  BY <1>1, RestoreAssumption DEF File, Content, RestoreAssumption
<1>4. lock = p /\ View[Main] = None /\ step'[p] = "copy"
  BY <1>2 DEF TypeOK, Progress, ProgressOf
<1>5. /\ disk' \in [Slots -> Content] /\ ops' \in Seq([item : Content, from : Slots, to : Slots])
      /\ books <= books' /\ books' \in 1..MaxBooks /\ "copy" \in Steps
  <2>1. disk' \in [Slots -> Content] /\ ops' \in Seq([item : Content, from : Slots, to : Slots])
    BY <1>2, <1>3 DEF TypeOK
  <2>2. books <= books' /\ books' \in 1..MaxBooks
    BY <1>2, <1>3, RestoreAssumption DEF TypeOK, RestoreAssumption
  <2> QED
    BY <2>1, <2>2 DEF Steps
<1>6. ASSUME TypeOK'
      PROVE  Files(disk)' /\ Pending' /\ View'[Main] = None
  BY <1>2, <1>3, <1>4, <1>5, <1>6, TempWritten
<1>7. TypeOK' => Files(disk)' /\ Pending' /\ ProgressOf(p)'
  BY <1>4, <1>6 DEF ProgressOf
<1> QED
  BY <1>2, <1>4, <1>5, <1>7, FileStep

(* Its bytes are another database's, not synced. *)
LEMMA CopyBytesStep ==
    ASSUME RestoreInv, NEW p \in Restores, CopyBytes(p)
    PROVE  RestoreInv'
<1>1. PICK c : c = File(books + 1, 0, "unsynced")
  OBVIOUS
<1>2. /\ TypeOK /\ Files(disk) /\ Pending /\ Progress /\ step[p] = "copy"
      /\ books < MaxBooks /\ books' = books + 1
      /\ disk' = [disk EXCEPT ![Temp] = c]
      /\ step' = [step EXCEPT ![p] = "sync_copy"]
      /\ UNCHANGED <<lock, ops, dirs, into, committed, cuts>>
  BY <1>1 DEF RestoreInv, CopyBytes, Then
<1>3. books \in Nat /\ books <= books' /\ books' \in 1..MaxBooks
  BY <1>2, RestoreAssumption DEF TypeOK, RestoreAssumption
<1>4. c \in Content /\ c.book = books' /\ c.state = "unsynced"
  BY <1>1, <1>2, <1>3, RestoreAssumption DEF File, Content, RestoreAssumption
<1>5. lock = p /\ View[Main] = None /\ step'[p] = "sync_copy"
  BY <1>2 DEF TypeOK, Progress, ProgressOf
<1>6. /\ disk' \in [Slots -> Content] /\ ops' \in Seq([item : Content, from : Slots, to : Slots])
      /\ "sync_copy" \in Steps /\ disk'[Temp] = c
  BY <1>2, <1>4, SlotFacts DEF TypeOK, Steps
<1>7. ASSUME TypeOK'
      PROVE  Files(disk)' /\ Pending' /\ View'[Main] = None
  BY <1>2, <1>3, <1>4, <1>5, <1>7, TempWritten
<1>8. committed'[books'] = 0
  BY <1>2, <1>3 DEF Progress
<1>9. PICK f : f = [c EXCEPT !.state = "whole"]
  OBVIOUS
<1>10. f \in Content /\ f.state = "whole" /\ f.book = books'
  BY <1>4, <1>9 DEF Content
<1>11. f \in Content /\ f.state = "whole" /\ f.book \in 1..books' /\ committed'[f.book] = 0
  BY <1>3, <1>8, <1>10
<1>12. Fresh([disk[Temp] EXCEPT !.state = "whole"])'
  BY <1>6, <1>9, <1>11 DEF Fresh, Whole
<1>13. TypeOK' => Files(disk)' /\ Pending' /\ ProgressOf(p)'
  BY <1>4, <1>5, <1>6, <1>7, <1>12 DEF ProgressOf
<1> QED
  BY <1>2, <1>3, <1>5, <1>6, <1>13, FileStep

(* It is removed. *)
LEMMA CopyFailsStep ==
    ASSUME RestoreInv, NEW p \in Restores, CopyFails(p)
    PROVE  RestoreInv'
<1>1. /\ TypeOK /\ Files(disk) /\ Pending /\ Progress /\ step[p] = "copy"
      /\ disk' = [disk EXCEPT ![Temp] = None]
      /\ step' = [step EXCEPT ![p] = "idle"] /\ lock' = NoOne
      /\ UNCHANGED <<ops, dirs, into, committed, books, cuts>>
  BY DEF RestoreInv, CopyFails
<1>2. lock = p /\ View[Main] = None /\ step'[p] = "idle"
  BY <1>1 DEF TypeOK, Progress, ProgressOf
<1>3. /\ disk' \in [Slots -> Content] /\ ops' \in Seq([item : Content, from : Slots, to : Slots])
      /\ books <= books' /\ books' \in 1..MaxBooks /\ "idle" \in Steps
  <2>1. disk' \in [Slots -> Content] /\ ops' \in Seq([item : Content, from : Slots, to : Slots])
    BY <1>1, NoneFacts DEF TypeOK
  <2>2. books <= books' /\ books' \in 1..MaxBooks
    BY <1>1, NoneFacts, RestoreAssumption DEF TypeOK, RestoreAssumption
  <2> QED
    BY <2>1, <2>2 DEF Steps
<1>4. ASSUME TypeOK'
      PROVE  Files(disk)' /\ Pending'
  BY <1>1, <1>2, <1>3, <1>4, NoneFacts, TempWritten
<1>5. ProgressOf(p)'
  BY <1>2 DEF ProgressOf
<1> QED
  BY <1>1, <1>2, <1>3, <1>4, <1>5, FileStep

(* The file and the directory are synced: nothing waits any more. *)
LEMMA SyncCopyStep ==
    ASSUME RestoreInv, NEW p \in Restores, SyncFileAndParent(p)
    PROVE  RestoreInv'
<1>1. /\ TypeOK /\ Files(disk) /\ Pending /\ Progress /\ step[p] = "sync_copy"
      /\ disk' = [Synced(Live) EXCEPT ![Temp].state = "whole"] /\ ops' = Unsynced(Live)
      /\ step' = [step EXCEPT ![p] = "install"]
      /\ UNCHANGED <<lock, dirs, into, committed, books, cuts>>
  BY DEF RestoreInv, SyncFileAndParent, Then
<1>2. /\ lock = p /\ View[Main] = None /\ step'[p] = "install"
      /\ disk[Temp].state = "unsynced" /\ Fresh([disk[Temp] EXCEPT !.state = "whole"])
  BY <1>1 DEF TypeOK, Progress, ProgressOf
<1>3. PICK fs : fs = View
  OBVIOUS
<1>4. Files(fs) /\ fs \in [Slots -> Content] /\ fs[Main] = None /\ fs[Temp] = disk[Temp]
  BY <1>1, <1>2, <1>3, ViewFacts DEF Files
<1>5. PICK c : c = [fs[Temp] EXCEPT !.state = "whole"]
  OBVIOUS
<1>6. Fresh(c) /\ c \in Content
  BY <1>2, <1>4, <1>5 DEF Fresh, Whole
<1>7. ops' = <<>> /\ disk' = [fs EXCEPT ![Temp] = c]
  BY <1>1, <1>3, <1>4, <1>5, SyncLive, SlotFacts
<1>8. /\ disk' \in [Slots -> Content] /\ disk'[Temp] = c
      /\ \A s \in Slots \ {Temp} : disk'[s] = fs[s]
  BY <1>4, <1>6, <1>7, SlotFacts
<1>9. Files(disk')
  BY <1>4, <1>8, FilesAgree
<1>10. Files(disk)' /\ Pending'
  BY <1>1, <1>7, <1>9, Settled
<1>11. disk'[Main] = None
  BY <1>4, <1>8, SlotFacts
<1>12. Fresh(disk[Temp])'
  BY <1>1, <1>6, <1>8 DEF Fresh, Whole
<1>13. ProgressOf(p)'
  BY <1>2, <1>7, <1>11, <1>12 DEF ProgressOf
<1>14. /\ ops' \in Seq([item : Content, from : Slots, to : Slots])
       /\ books <= books' /\ books' \in 1..MaxBooks /\ "install" \in Steps
  BY <1>1, <1>7, OpsSettled, RestoreAssumption DEF TypeOK, Steps, RestoreAssumption
<1> QED
  BY <1>1, <1>2, <1>8, <1>10, <1>13, <1>14, FileStep

(* The copy takes the live name. *)
LEMMA InstallStep ==
    ASSUME RestoreInv, NEW p \in Restores, Install(p)
    PROVE  RestoreInv'
<1>1. /\ TypeOK /\ Files(disk) /\ Pending /\ Progress /\ step[p] = "install"
      /\ Rename(Temp, Main)
      /\ step' = [step EXCEPT ![p] = "sync_installed"]
      /\ UNCHANGED <<lock, disk, dirs, into, committed, books, cuts>>
  BY DEF RestoreInv, Install, Then
<1>2. /\ lock = p /\ step'[p] = "sync_installed"
      /\ ops = <<>> /\ disk[Main] = None /\ Fresh(disk[Temp])
  BY <1>1 DEF TypeOK, Progress, ProgressOf
<1>3. PICK x : x = disk[Temp]
  OBVIOUS
<1>4. x \in Content /\ Fresh(x) /\ x # None /\ View = disk
  BY <1>2, <1>3, ViewByShape, NoneFacts DEF Fresh, Whole
<1>5. ops' = <<InstallOp(x)>>
  BY <1>1, <1>2, <1>3, <1>4 DEF Rename, InstallOp
<1>6. disk[Wal] = None
  BY <1>1, <1>2 DEF Files
<1>7. Files(disk)'
  BY <1>1 DEF Files, Holds, Whole
<1>8. Fresh(x)'
  BY <1>1, <1>4 DEF Fresh, Whole
<1>9. Pending'
  BY <1>1, <1>2, <1>4, <1>5, <1>6, <1>8 DEF Pending
<1>10. InstallOp(x) \in [item : Content, from : Slots, to : Slots]
  BY <1>4, SlotFacts DEF InstallOp
<1>11. /\ disk' \in [Slots -> Content] /\ ops' \in Seq([item : Content, from : Slots, to : Slots])
       /\ books <= books' /\ books' \in 1..MaxBooks /\ "sync_installed" \in Steps
  BY <1>1, <1>5, <1>10, OneIsSeq, RestoreAssumption DEF TypeOK, Steps, RestoreAssumption
<1>12. TypeOK' => View'[Wal] = None
  BY <1>1, <1>6, <1>7, <1>9, ViewAfterwards
<1>13. TypeOK' => Files(disk)' /\ Pending' /\ ProgressOf(p)'
  BY <1>2, <1>7, <1>9, <1>12 DEF ProgressOf
<1> QED
  BY <1>1, <1>2, <1>11, <1>13, FileStep

(* And that is settled. *)
LEMMA SyncInstalledStep ==
    ASSUME RestoreInv, NEW p \in Restores, SyncInstalled(p)
    PROVE  RestoreInv'
<1>1. /\ TypeOK /\ Files(disk) /\ Pending /\ Progress /\ step[p] = "sync_installed"
      /\ disk' = Synced(Live) /\ ops' = Unsynced(Live)
      /\ step' = [step EXCEPT ![p] = "remove_stale"]
      /\ UNCHANGED <<lock, dirs, into, committed, books, cuts>>
  BY DEF RestoreInv, SyncInstalled, SyncDirectory, Then
<1>2. lock = p /\ step'[p] = "remove_stale" /\ View[Wal] = None
  BY <1>1 DEF TypeOK, Progress, ProgressOf
<1>3. PICK fs : fs = View
  OBVIOUS
<1>4. Files(fs) /\ fs \in [Slots -> Content] /\ disk' = fs /\ ops' = <<>>
  BY <1>1, <1>3, ViewFacts, SyncLive DEF Files
<1>5. Files(disk)' /\ Pending' /\ View' = disk'
  BY <1>1, <1>4, Settled
<1>6. ProgressOf(p)'
  BY <1>2, <1>3, <1>4, <1>5 DEF ProgressOf
<1>7. /\ ops' \in Seq([item : Content, from : Slots, to : Slots])
      /\ books <= books' /\ books' \in 1..MaxBooks /\ "remove_stale" \in Steps
  BY <1>1, <1>4, OpsSettled, RestoreAssumption DEF TypeOK, Steps, RestoreAssumption
<1> QED
  BY <1>1, <1>2, <1>4, <1>5, <1>6, <1>7, FileStep

(* No WAL is beside it. *)
LEMMA RemoveStaleStep ==
    ASSUME RestoreInv, NEW p \in Restores, RemoveStale(p)
    PROVE  RestoreInv'
<1>1. /\ TypeOK /\ Progress /\ step[p] = "remove_stale" /\ Rename(Wal, Gone)
      /\ step' = [step EXCEPT ![p] = "done"]
      /\ UNCHANGED <<lock, disk, dirs, into, committed, books, cuts>>
  BY DEF RestoreInv, RemoveStale, Then
<1>2. lock = p /\ View[Wal] = None /\ step'[p] = "done"
  BY <1>1 DEF TypeOK, Progress, ProgressOf
<1>3. ops' = ops
  BY <1>1, <1>2 DEF Rename
<1>4. ProgressOf(p)'
  BY <1>2 DEF ProgressOf
<1> QED
  BY <1>1, <1>2, <1>3, <1>4, QuietStep DEF TypeOK, Steps

(* A restore ends or is killed. *)
LEMMA ExitStep ==
    ASSUME RestoreInv, NEW p \in Restores, Exit(p)
    PROVE  RestoreInv'
<1>1. /\ TypeOK /\ step[p] # "idle" /\ step' = [step EXCEPT ![p] = "idle"]
      /\ lock' = IF lock = p THEN NoOne ELSE lock
      /\ UNCHANGED <<disk, ops, dirs, into, committed, books, cuts>>
  BY DEF RestoreInv, Exit
<1>2. lock = p /\ lock' = NoOne /\ step'[p] = "idle"
  BY <1>1 DEF TypeOK
<1>3. ProgressOf(p)'
  BY <1>2 DEF ProgressOf
<1> QED
  BY <1>1, <1>2, <1>3, QuietStep DEF TypeOK, Steps

-----------------------------------------------------------------------------
(* The theorems *)

(* The initial state: a WAL beside its database. *)
LEMMA InitRestore ==
    ASSUME Init
    PROVE  RestoreInv
<1>0. /\ MaxBooks \in Nat \ {0} /\ MaxCommits \in Nat \ {0} /\ MaxDirs \in Nat /\ MaxCuts \in Nat
  BY RestoreAssumption DEF RestoreAssumption
<1>1. PICK main, wal : main = File(1, 0, "whole") /\ wal = File(1, 1, "whole")
  OBVIOUS
<1>2. /\ main \in Content /\ main.book = 1 /\ main.n = 0 /\ main.state = "whole"
      /\ wal \in Content /\ wal.book = 1 /\ wal.n = 1 /\ wal.state = "whole"
  BY <1>0, <1>1 DEF File, Content
<1>3. /\ disk = [s \in Slots |-> IF s = Main THEN main ELSE IF s = Wal THEN wal ELSE None]
      /\ lock = NoOne /\ ops = <<>> /\ dirs = {} /\ step = [p \in Restores |-> "idle"]
      /\ into = [p \in Restores |-> 0] /\ books = 1 /\ cuts = 0
      /\ committed = [b \in 1..MaxBooks |-> IF b = 1 THEN 1 ELSE 0]
  BY <1>1 DEF Init
<1>4. /\ disk \in [Slots -> Content] /\ disk[Main] = main /\ disk[Wal] = wal
      /\ \A s \in Slots \ {Main, Wal} : disk[s] = None
  BY <1>2, <1>3, SlotFacts, NoneFacts
<1>5. 1 \in 1..MaxBooks /\ committed[1] = 1 /\ \A b \in 1..MaxBooks : b # 1 => committed[b] = 0
  BY <1>0, <1>3
<1>6. Whole(main) /\ Whole(wal)
  BY <1>2, <1>3 DEF Whole
<1>7. \A d \in 1..MaxDirs : disk[WalOf(d)] = None /\ disk[MainOf(d)] = None
  BY <1>4, SlotFacts
<1>8. Holds(disk, Live, 1)
  BY <1>2, <1>4, <1>5, HoldsBy, SlotFacts
<1>9. \A s \in Slots \ {Temp} : disk[s] = None \/ Whole(disk[s])
  BY <1>4, <1>6
<1>10. main # None
  BY <1>2, NoneFacts
<1>11. \A b \in 1..MaxBooks : committed[b] > 0 => \E d \in Live..MaxDirs : Holds(disk, d, b)
  BY <1>5, <1>8, DirFacts
<1>12. Files(disk)
  BY <1>2, <1>4, <1>5, <1>7, <1>9, <1>10, <1>11 DEF Files, WalOf, MainOf
<1>13. TypeOK
  <2>1. committed \in [1..MaxBooks -> 0..MaxCommits]
    BY <1>0, <1>3
  <2> QED
    BY <1>0, <1>3, <1>4, <2>1, OpsSettled DEF TypeOK, Steps
<1>14. Pending
  BY <1>3 DEF Pending
<1>15. Progress
  BY <1>0, <1>3, <1>5, RestoreAssumption DEF Progress, ProgressOf, RestoreAssumption
<1> QED
  BY <1>12, <1>13, <1>14, <1>15 DEF RestoreInv

(* No step. *)
LEMMA StutterRestore ==
    ASSUME RestoreInv, UNCHANGED vars
    PROVE  RestoreInv'
<1>1. Files(disk)' /\ Pending' /\ View' = View
  BY SameFiles DEF RestoreInv, vars
<1>2. TypeOK' /\ Progress'
  BY <1>1 DEF RestoreInv, vars, TypeOK, Progress, ProgressOf, Fresh, Whole
<1> QED
  BY <1>1, <1>2 DEF RestoreInv

(* In every state the entries on disk are sound, what waits for a sync is    *)
(* one of a few shapes, and each restore finds what its next step relies on  *)
(* (RestoreSQLiteDatabase, runRestoreWith).                                  *)
THEOREM RestoreInvariance == Spec => []RestoreInv
<1>1. Init => RestoreInv
  BY InitRestore
<1>2. RestoreInv /\ [Next]_vars => RestoreInv'
  <2> SUFFICES ASSUME RestoreInv, [Next]_vars
               PROVE  RestoreInv'
    OBVIOUS
  <2>1. CASE Open
    BY <2>1, OpenStep
  <2>2. CASE Commit
    BY <2>2, CommitStep
  <2>3. CASE Stop
    BY <2>3, StopStep
  <2>4. CASE Crash
    BY <2>4, CrashStep
  <2>5. CASE PowerCut
    BY <2>5, PowerCutStep
  <2>6. ASSUME NEW p \in Restores, RestoreStep(p)
        PROVE  RestoreInv'
    BY <2>6, AcquireStep, InspectStep, CheckpointStep, MkdirStep, PreserveMainStep, PreserveWalStep,
       SyncPreservedStep, CreateCopyStep, CopyBytesStep, CopyFailsStep, SyncCopyStep, InstallStep,
       SyncInstalledStep, RemoveStaleStep, ExitStep DEF RestoreStep
  <2>7. CASE UNCHANGED vars
    BY <2>7, StutterRestore
  <2> QED
    BY <2>1, <2>2, <2>3, <2>4, <2>5, <2>6, <2>7 DEF Next
<1> QED
  BY <1>1, <1>2, PTL DEF Spec

(* The live entries that processes see are sound ones. *)
LEMMA SoundDirectory == RestoreInv => DirectoryIsSound
<1> SUFFICES ASSUME RestoreInv
             PROVE  DirectoryIsSound
  OBVIOUS
<1>1. Files(View)
  BY ViewFacts DEF RestoreInv
<1>2. View[Main].state # "torn"
  BY <1>1, SlotFacts, NoneFacts DEF Files, Whole
<1>3. LiveIsOneDatabase
  BY <1>1, <1>2 DEF LiveIsOneDatabase, Files
<1> QED
  BY <1>3 DEF DirectoryIsSound, RestoreInv

(* A server never opens a file cut short, nor a main file beside the WAL of  *)
(* another database, wherever a restore stopped (RestoreSQLiteDatabase).     *)
THEOREM DirectoryStaysSound == Spec => []DirectoryIsSound
BY RestoreInvariance, SoundDirectory, PTL

(* Every database is among them. *)
LEMMA WholeBooks == RestoreInv => NothingIsLost
BY ViewFacts DEF RestoreInv, Files, NothingIsLost

(* Every database that held a client's transaction is somewhere as a whole   *)
(* (createPreservedDir, RestoreSQLiteDatabase).                              *)
THEOREM NoBookIsLost == Spec => []NothingIsLost
BY RestoreInvariance, WholeBooks, PTL

(* The same of what a power cut would leave at any moment, whichever of the  *)
(* operations that wait have reached the disk.                               *)
CutLosesNothing ==
    \A keep \in SUBSET (1..Len(ops)), b \in 1..MaxBooks :
        committed[b] > 0 => \E d \in Live..MaxDirs : Holds(Survivors(keep), d, b)

(* And among what any cut leaves. *)
LEMMA CutsAreSound == RestoreInv => CutLosesNothing
BY SurvivorsAreSound DEF RestoreInv, Files, CutLosesNothing

(* No moment of a restore is one where a power cut loses a client's           *)
(* transaction, however many cuts there were (SyncDirectory between the      *)
(* steps of RestoreSQLiteDatabase).                                          *)
THEOREM AnyCutLosesNothing == Spec => []CutLosesNothing
BY RestoreInvariance, CutsAreSound, PTL
=============================================================================
