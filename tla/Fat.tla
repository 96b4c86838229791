-------------------------------- MODULE Fat --------------------------------
(***************************************************************************)
(* FatFs (ff.c) on the volume the Makefile formats: FAT16 with a static    *)
(* root table, sub-directories as cluster chains, one sector window shared *)
(* by FAT and directory accesses (fs->win, winsect, wflag), a data buffer  *)
(* per open file.  Every step is a run of sector reads followed by at most *)
(* one disk write or one change of the window, so the power may fail       *)
(* between any two disk writes; memory is then lost and the volume is      *)
(* mounted again from what is on the disk.                                 *)
(*                                                                         *)
(* The callers are those of the kernel: theme_save_to_disk and             *)
(* execute_actual_save (open, write, close), the explorer (unlink, mkdir,  *)
(* rename inside one directory) and the readers.  One call runs at a time. *)
(* A disk access never reports an error (diskio.c returns RES_OK always),  *)
(* so the FR_DISK_ERR paths are dead.  The mirror of the FAT that          *)
(* sync_window writes after the first one is never read and is left out,   *)
(* and so is free_clst, which stays 0xFFFFFFFF on FAT16.                   *)
(***************************************************************************)
EXTENDS Integers, Sequences, FiniteSets, TLC

CONSTANTS
  NClst,       \* clusters of the data area
  FatPer,      \* FAT entries in a sector (256 in the code)
  DirPer,      \* directory entries in a sector (16)
  RootSects,   \* sectors of the static root table (32)
  Csize,       \* sectors in a cluster (fs->csize)
  Names,       \* object names
  Long,        \* the names that need an LFN entry before the SFN entry
  SubNames,    \* the names used inside a sub-directory
  Docs,        \* texts that are saved
  DocLen(_),   \* length of a text in sectors; the last one is partial
  MaxCalls,    \* bound: calls from one formatting on
  MaxCrashes   \* bound: power failures

ASSUME FatConstants ==
  /\ {NClst, FatPer, DirPer, RootSects, Csize, MaxCalls} \subseteq Nat \ {0}
  /\ MaxCrashes \in Nat
  /\ DirPer >= 2
  /\ Long \subseteq Names
  /\ SubNames \subseteq Names
  /\ \A d \in Docs : DocLen(d) \in Nat \ {0}

VARIABLES
  disk,        \* sector -> contents
  winsect, win, wflag,   \* fs->winsect, fs->win, fs->wflag
  last_clst,   \* fs->last_clst, 0 when it is not valid
  pc,          \* where the call in progress is
  op,          \* the call in progress
  r,           \* its local variables
  res,         \* what the last call returned
  calls, crashes,
  torn,        \* the power failed in a section that is not crash safe
  tree         \* auxiliary: what a mount would find on the disk

mem == <<winsect, win, wflag, last_clst>>
vars == <<disk, mem, pc, op, r, res, calls, crashes, torn, tree>>

n_fatent == NClst + 2
Clusters == 2..(n_fatent - 1)
EOC == n_fatent

FatSec(c) == <<"fat", c \div FatPer>>
RootSec(i) == <<"root", i>>
DataSec(c, i) == <<"data", c, i>>
Sectors ==
  {FatSec(c) : c \in Clusters} \cup {RootSec(i) : i \in 1..RootSects}
    \cup {DataSec(c, i) : c \in Clusters, i \in 0..(Csize - 1)}

FatEntry(x) == [k |-> "fat", next |-> x]

(***************************************************************************)
(* Directory entries.  A sector of text read as a directory shows "text"   *)
(* entries, which match no name.                                           *)
(***************************************************************************)
End == [k |-> "end"]
Del == [k |-> "del"]
Dot == [k |-> "dot"]
Lfn(n) == [k |-> "lfn", name |-> n]
Sfn(n, dir, cl, size) == [k |-> "sfn", name |-> n, dir |-> dir, cl |-> cl, size |-> size]
Text(d, u) == [i \in 0..(DirPer - 1) |-> [k |-> "text", doc |-> d, unit |-> u]]
Zeros == [i \in 0..(DirPer - 1) |-> End]
DotTable == [Zeros EXCEPT ![0] = Dot, ![1] = Dot]

(***************************************************************************)
(* The volume as FatFs sees it: the disk under a dirty window.             *)
(***************************************************************************)
Vol == IF wflag THEN [disk EXCEPT ![winsect] = win] ELSE disk

get_fat(v, c) == v[FatSec(c)][c % FatPer].next

(* The member of a singleton. *)
The(S) == CHOOSE x \in S : TRUE
Least(S) == CHOOSE x \in S : \A y \in S : x <= y

(* The chain that starts at c; a link that is not a cluster ends it. *)
Chain(v, c) ==
  LET link == [x \in 0..EOC |-> IF x \in Clusters THEN get_fat(v, x) ELSE x]
      hop[i \in 0..NClst] == IF i = 0 THEN c ELSE link[hop[i - 1]]
  IN [i \in 1..Cardinality({j \in 1..NClst : hop[j - 1] \in Clusters}) |-> hop[i - 1]]

(* The sectors of a directory table, from its start cluster (0: root). *)
Table(v, s) ==
  IF s = 0 THEN [i \in 1..RootSects |-> RootSec(i)]
  ELSE LET ch == Chain(v, s)
       IN [j \in 1..(Len(ch) * Csize) |->
             DataSec(ch[(j - 1) \div Csize + 1], (j - 1) % Csize)]

(* Its slots, numbered from 0. *)
Entries(v, s) ==
  The({[k \in 0..(Len(t) * DirPer - 1) |-> v[t[k \div DirPer + 1]][k % DirPer]] :
         t \in {Table(v, s)}})
SlotSec(v, s, k) == Table(v, s)[k \div DirPer + 1]

Matches(es, k, n) ==
  /\ es[k].k = "sfn"
  /\ es[k].name = n
  /\ n \in Long => k > 0 /\ es[k - 1] = Lfn(n)

(* The first slot in S, or the number of slots. *)
FirstSlot(es, S) == Least(S \cup {Cardinality(DOMAIN es)})

(***************************************************************************)
(* A walk through the table of directory s up to slot k (or to its end):   *)
(* the entry there, the sectors move_window visits and the last of them.   *)
(***************************************************************************)
ChainReads(s, t, q) == {FatSec(t[i * Csize][2]) : i \in 1..(IF s = 0 THEN 0 ELSE q \div Csize)}

Walk(v, s, es, k) ==
  The({LET q == k \div DirPer IN
       [s |-> s, k |-> k, path |-> TRUE,
        e |-> IF k \in DOMAIN es THEN es[k] ELSE End,
        reads |-> {t[j] : j \in 1..(IF q < Len(t) THEN q + 1 ELSE Len(t))} \cup ChainReads(s, t, q),
        at |-> IF q < Len(t) THEN t[q + 1]
               ELSE IF s = 0 THEN t[Len(t)] ELSE FatSec(t[Len(t)][2])] : t \in {Table(v, s)}})

dir_find(v, s, n) ==
  The({Walk(v, s, es, FirstSlot(es, {k \in DOMAIN es : es[k] = End \/ Matches(es, k, n)})) :
         es \in {Entries(v, s)}})

(* dir_read from the start of the directory: an object, or the end. *)
dir_read(v, s) ==
  The({Walk(v, s, es, FirstSlot(es, {k \in DOMAIN es : es[k].k \in {"end", "sfn", "text"}})) :
         es \in {Entries(v, s)}})

(***************************************************************************)
(* follow_path: a path is <<name>> or <<directory, name>>.  The walk ends  *)
(* at the object, or at an end mark when there is none; path is FALSE when *)
(* the directory is missing.                                               *)
(***************************************************************************)
Paths == {<<n>> : n \in Names} \cup (Names \X SubNames)

follow_path(v, p) ==
  The({IF Len(p) = 1 THEN top
       ELSE IF top.e = End \/ ~top.e.dir THEN [top EXCEPT !.e = End, !.path = FALSE]
       ELSE The({[f EXCEPT !.reads = @ \cup top.reads] : f \in {dir_find(v, top.e.cl, p[2])}}) :
         top \in {dir_find(v, 0, p[1])}})

(***************************************************************************)
(* The window.  Only the first of a run of moves can find it dirty, so a   *)
(* run that leaves the sector at all is one flush.                         *)
(***************************************************************************)
move_window(reads, s) ==
  /\ disk' = IF reads \cup {s} = {winsect} THEN disk ELSE Vol
  /\ winsect' = s

Look(reads, s) ==
  /\ move_window(reads, s)
  /\ win' = Vol[s]
  /\ wflag' = (wflag /\ reads \cup {s} = {winsect})

Poke(reads, s, i, x) ==
  /\ move_window(reads, s)
  /\ win' = [Vol[s] EXCEPT ![i] = x]
  /\ wflag' = TRUE

put_fat(reads, c, x) == Poke(reads, FatSec(c), c % FatPer, FatEntry(x))
PutSlot(reads, k, x) == \E s \in {SlotSec(Vol, r.s, k)} : Poke(reads, s, k % DirPer, x)

\* Mutant: the dirty mark is cleared and the sector is not written.
sync_window_Forgets ==
  /\ wflag' = FALSE
  /\ UNCHANGED disk

sync_window ==
  /\ disk' = Vol
  /\ wflag' = FALSE

(***************************************************************************)
(* What a mount finds on the volume v.                                     *)
(***************************************************************************)
Used(es) == {k \in DOMAIN es : \A j \in 0..k : es[j] # End}
Objects(v, s) ==
  UNION {{es[k] @@ [at |-> <<s, k>>] : k \in {j \in Used(es) : es[j].k = "sfn"}} :
           es \in {Entries(v, s)}}
Dirs(v) == {0} \cup {e.cl : e \in {x \in Objects(v, 0) : x.dir}}
Live(v) == UNION {Objects(v, s) : s \in Dirs(v)}

ClustersOf(v, e) ==
  IF e.cl = 0 THEN {} ELSE UNION {{ch[i] : i \in 1..Len(ch)} : ch \in {Chain(v, e.cl)}}

(* f_read of the whole file. *)
f_read(v, e) ==
  The({[u \in 1..e.size |-> v[DataSec(ch[(u - 1) \div Csize + 1], (u - 1) % Csize)][0]] :
         ch \in {Chain(v, e.cl)}})

Tree(v) ==
  [p \in Paths |->
     The({IF e = End THEN [k |-> "absent"]
          ELSE IF e.dir THEN [k |-> "dir"]
          ELSE [k |-> "file", data |-> f_read(v, e)] : e \in {follow_path(v, p).e}})]

Remember == tree' = IF disk' = disk THEN tree ELSE Tree(disk')

(***************************************************************************)
(* The locals of a call: the directory (s), the slot of the entry (k), the *)
(* slot of the entry to remove (old), the entry to store (ent), the        *)
(* cluster to stretch or free (clst), the first cluster of the object      *)
(* (head), a cluster just taken (ncl), the sectors written or cleared (u), *)
(* and whether the directory itself is being stretched (grow).             *)
(***************************************************************************)
R0 == [s |-> 0, k |-> 0, old |-> 0, ent |-> End, clst |-> 0, head |-> 0,
       ncl |-> 0, u |-> 0, grow |-> FALSE]
NoOp == [kind |-> "none"]

Result(code, data) == [code |-> code, data |-> data]

Leave(code) ==
  /\ pc' = "idle"
  /\ op' = NoOp
  /\ r' = R0
  /\ res' = Result(code, <<>>)
  /\ Remember

Goto(l, locals) ==
  /\ pc' = l
  /\ r' = locals
  /\ UNCHANGED <<op, res>>
  /\ Remember

Begin(o, l, locals) ==
  /\ pc' = l
  /\ r' = locals
  /\ op' = o
  /\ UNCHANGED res
  /\ Remember

Step(l) == pc = l /\ UNCHANGED <<calls, crashes, torn>>

Call ==
  /\ pc = "idle"
  /\ ~torn
  /\ calls < MaxCalls
  /\ calls' = calls + 1
  /\ UNCHANGED <<last_clst, crashes, torn>>

Leaf(p) == p[Len(p)]

Unlink(p, f) ==
  Begin([kind |-> "unlink", path |-> p], IF Leaf(p) \in Long THEN "remove" ELSE "remove2",
        [R0 EXCEPT !.s = f.s, !.old = f.k, !.clst = f.e.cl])

(***************************************************************************)
(* The calls, up to the end of their first run of reads.                   *)
(***************************************************************************)
\* Mutant: only the size of a file that is overwritten is reset.
SaveOpen_KeepsCluster(p, d) ==
  /\ Call
  /\ \E f \in {follow_path(Vol, p)}, o \in {[kind |-> "save", path |-> p, doc |-> d]} :
       \/ /\ f.e # End
          /\ ~f.e.dir
          /\ Poke(f.reads, f.at, f.k % DirPer, [f.e EXCEPT !.size = 0])
          /\ Begin(o, IF f.e.cl = 0 THEN "chain" ELSE "rm",
                   [R0 EXCEPT !.s = f.s, !.k = f.k, !.clst = f.e.cl, !.head = f.e.cl])
       \/ /\ f.path
          /\ f.e = End
          /\ Look(f.reads, f.at)
          /\ Begin(o, "alloc", [R0 EXCEPT !.s = f.s, !.ent = Sfn(Leaf(p), FALSE, 0, 0)])

SaveOpen(p, d) ==
  /\ Call
  /\ \E f \in {follow_path(Vol, p)}, o \in {[kind |-> "save", path |-> p, doc |-> d]} :
       \/ /\ ~f.path
          /\ Look(f.reads, f.at)
          /\ Leave("FR_NO_PATH")
       \/ /\ f.e # End
          /\ f.e.dir
          /\ Look(f.reads, f.at)
          /\ Leave("FR_DENIED")
       \/ /\ f.e # End
          /\ ~f.e.dir
          /\ Poke(f.reads, f.at, f.k % DirPer, [f.e EXCEPT !.cl = 0, !.size = 0])
          /\ Begin(o, IF f.e.cl = 0 THEN "chain" ELSE "rm",
                   [R0 EXCEPT !.s = f.s, !.k = f.k, !.clst = f.e.cl, !.head = f.e.cl])
       \/ /\ f.path
          /\ f.e = End
          /\ Look(f.reads, f.at)
          /\ Begin(o, "alloc", [R0 EXCEPT !.s = f.s, !.ent = Sfn(Leaf(p), FALSE, 0, 0)])

f_unlink(p) ==
  /\ Call
  /\ \E v \in {Vol} : \E f \in {follow_path(v, p)} :
       \/ /\ f.e = End
          /\ Look(f.reads, f.at)
          /\ Leave(IF f.path THEN "FR_NO_FILE" ELSE "FR_NO_PATH")
       \/ /\ f.e # End
          /\ f.e.dir
          /\ \E g \in {dir_read(v, f.e.cl)} :
               /\ Look(f.reads \cup g.reads, g.at)
               /\ IF g.e = End THEN Unlink(p, f) ELSE Leave("FR_DENIED")
       \/ /\ f.e # End
          /\ ~f.e.dir
          /\ Look(f.reads, f.at)
          /\ Unlink(p, f)

f_mkdir(p) ==
  /\ Call
  /\ \E f \in {follow_path(Vol, p)} :
       /\ Look(f.reads, f.at)
       /\ IF f.e # End THEN Leave("FR_EXIST")
          ELSE Begin([kind |-> "mkdir", path |-> p], "chain", [R0 EXCEPT !.s = f.s])

(* Renaming inside a directory, the only form the explorer asks for. *)
f_rename(p, n) ==
  /\ Call
  /\ \E v \in {Vol}, q \in {[p EXCEPT ![Len(p)] = n]} :
     \E f \in {follow_path(v, p)}, g \in {follow_path(v, q)} :
       \/ /\ f.e = End
          /\ Look(f.reads, f.at)
          /\ Leave(IF f.path THEN "FR_NO_FILE" ELSE "FR_NO_PATH")
       \/ /\ f.e # End
          /\ g.e # End /\ g.k # f.k
          /\ Look(f.reads \cup g.reads, g.at)
          /\ Leave("FR_EXIST")
       \/ /\ f.e # End
          /\ g.e = End \/ g.k = f.k
          /\ Look(f.reads \cup g.reads, g.at)
          /\ Begin([kind |-> "rename", path |-> p, to |-> q], "alloc",
                   [R0 EXCEPT !.s = f.s, !.old = f.k, !.ent = [f.e EXCEPT !.name = n]])

(* The readers open, read and close in one go: f_read follows the chain.  *)
ReadFile(p) ==
  /\ pc = "idle"
  /\ \E v \in {Vol} : \E f \in {follow_path(v, p)} :
       \/ /\ f.e = End
          /\ Look(f.reads, f.at)
          /\ Leave(IF f.path THEN "FR_NO_FILE" ELSE "FR_NO_PATH")
       \/ /\ f.e # End
          /\ f.e.dir
          /\ Look(f.reads, f.at)
          /\ Leave("FR_NO_FILE")
       \/ /\ f.e # End
          /\ ~f.e.dir
          /\ \E links \in {{FatSec(Chain(v, f.e.cl)[i]) : i \in 1..((f.e.size - 1) \div Csize)}} :
             \E s \in {IF links = {} THEN f.at
                       ELSE FatSec(Chain(v, f.e.cl)[(f.e.size - 1) \div Csize])} :
               Look(f.reads \cup links, s)
          /\ res' = Result("FR_OK", f_read(v, f.e))
          /\ Remember
          /\ UNCHANGED <<pc, op, r>>
  /\ UNCHANGED <<last_clst, calls, crashes, torn>>

(***************************************************************************)
(* dir_register: dir_alloc finds the first block of free slots (r.k is its *)
(* last one), stretching a sub-directory that has none; then the LFN entry *)
(* and the SFN entry are stored.  f_mkdir and f_rename complete the SFN    *)
(* entry before the window can move.                                       *)
(***************************************************************************)
Free(e) == e.k \in {"del", "end"}
EntCount(n) == IF n \in Long THEN 2 ELSE 1

(* The block ends in the slot of the SFN entry. *)
FreeBlock(es, n) ==
  FirstSlot(es, {k \in DOMAIN es :
                   /\ k + 1 >= EntCount(n)
                   /\ \A j \in 0..(EntCount(n) - 1) : Free(es[k - j])})

\* Mutant: f_mkdir does not give its cluster back.
NotRegistered_Keeps == Leave("FR_DENIED")

(* f_mkdir gives its cluster back; f_open and f_rename just return. *)
NotRegistered ==
  IF op.kind = "mkdir"
  THEN Goto("rm", [r EXCEPT !.clst = r.head, !.grow = FALSE])
  ELSE Leave("FR_DENIED")

dir_alloc ==
  /\ Step("alloc")
  /\ UNCHANGED last_clst
  /\ \E v \in {Vol} : \E es \in {Entries(v, r.s)} : \E k \in {FreeBlock(es, r.ent.name)} :
     \E f \in {Walk(v, r.s, es, k)} :
       /\ Look(f.reads, f.at)
       /\ IF k \in DOMAIN es
          THEN Goto(IF r.ent.name \in Long THEN "lfn" ELSE "sfn",
                    [r EXCEPT !.k = k, !.grow = FALSE, !.ncl = 0, !.clst = 0])
          ELSE IF r.s = 0 THEN NotRegistered
          ELSE Goto("chain", [r EXCEPT !.grow = TRUE, !.clst = SlotSec(v, r.s, k - 1)[2]])

put_lfn ==
  /\ Step("lfn")
  /\ PutSlot({}, r.k - 1, Lfn(r.ent.name))
  /\ Goto("sfn", r)
  /\ UNCHANGED last_clst

PutSfn ==
  /\ Step("sfn")
  /\ PutSlot({}, r.k, r.ent)
  /\ Goto(CASE op.kind = "save" -> "chain"
            [] op.kind = "mkdir" -> "flush"
            [] op.kind = "rename" -> IF Leaf(op.path) \in Long THEN "remove" ELSE "remove2",
          [r EXCEPT !.ent = End])
  /\ UNCHANGED last_clst

(***************************************************************************)
(* create_chain: the next cluster when a chain is stretched, else the      *)
(* first free one in cyclic order after the suggested cluster.             *)
(***************************************************************************)
After(scl, c) == (c - scl - 1) % NClst

NextFree(v, scl) ==
  The({IF free = {}
       THEN [ncl |-> 0, at |-> IF scl = 1 THEN n_fatent - 1 ELSE scl, seen |-> Clusters]
       ELSE The({[ncl |-> b, at |-> b, seen |-> {c \in Clusters : After(scl, c) <= After(scl, b)}] :
                   b \in {x \in free : \A y \in free : After(scl, x) <= After(scl, y)}}) :
         free \in {{c \in Clusters : get_fat(v, c) = 0}}})

FindCluster(v, clst) ==
  IF clst = 0 THEN NextFree(v, IF last_clst = 0 THEN 1 ELSE last_clst)
  ELSE The({IF get_fat(v, nxt) = 0 THEN [ncl |-> nxt, at |-> nxt, seen |-> {clst, nxt}]
            ELSE The({[f EXCEPT !.seen = @ \cup {clst, nxt}] :
                        f \in {NextFree(v, IF last_clst \in Clusters THEN last_clst ELSE clst)}}) :
              nxt \in {IF clst + 1 = n_fatent THEN 2 ELSE clst + 1}})

(* With the new cluster the caller goes on. *)
Chained(ncl) ==
  IF op.kind = "save" /\ ~r.grow
  THEN Goto("data", [r EXCEPT !.clst = ncl, !.ncl = 0, !.head = IF @ = 0 THEN ncl ELSE @])
  ELSE Goto("clear", [r EXCEPT !.ncl = ncl, !.head = IF r.grow THEN @ ELSE ncl])

create_chain ==
  /\ Step("chain")
  /\ \E f \in {FindCluster(Vol, r.clst)} : \E reads \in {{FatSec(c) : c \in f.seen}} :
       \/ /\ f.ncl = 0
          /\ Look(reads, FatSec(f.at))
          /\ UNCHANGED last_clst
          /\ IF op.kind = "save" /\ ~r.grow THEN Goto("entry", r) ELSE Leave("FR_DENIED")
       \/ /\ f.ncl # 0
          /\ put_fat(reads, f.ncl, EOC)
          /\ IF r.clst = 0
             THEN last_clst' = f.ncl /\ Chained(f.ncl)
             ELSE UNCHANGED last_clst /\ Goto("link", [r EXCEPT !.ncl = f.ncl])

LinkChain ==
  /\ Step("link")
  /\ put_fat({}, r.clst, r.ncl)
  /\ last_clst' = r.ncl
  /\ Chained(r.ncl)

(***************************************************************************)
(* dir_clear: the window is flushed and becomes the first sector of the    *)
(* new table, then every sector is written.  f_mkdir puts the dot entries  *)
(* into the window.                                                        *)
(***************************************************************************)
dir_clear ==
  /\ Step("clear")
  /\ sync_window
  /\ winsect' = DataSec(r.ncl, 0)
  /\ win' = Zeros
  /\ Goto("zero", r)
  /\ UNCHANGED last_clst

\* Mutant: the loop over the sectors does not count.
ZeroSector_Stuck ==
  /\ Step("zero")
  /\ disk' = [disk EXCEPT ![DataSec(r.ncl, r.u)] = Zeros]
  /\ Goto("zero", r)
  /\ UNCHANGED mem

ZeroSector ==
  LET done == r.u + 1 = Csize
      dots == done /\ ~r.grow
  IN /\ Step("zero")
     /\ disk' = [disk EXCEPT ![DataSec(r.ncl, r.u)] = Zeros]
     /\ win' = IF dots THEN DotTable ELSE win
     /\ wflag' = dots
     /\ IF done
        THEN Goto("alloc", [r EXCEPT !.u = 0,
                                     !.ent = IF dots THEN Sfn(Leaf(op.path), TRUE, r.head, 0) ELSE @])
        ELSE Goto("zero", [r EXCEPT !.u = @ + 1])
     /\ UNCHANGED <<winsect, last_clst>>

(***************************************************************************)
(* dir_remove, LFN entry first; dir_sdi rereads the chain up to the block. *)
(***************************************************************************)
dir_sdi(k) == ChainReads(r.s, Table(Vol, r.s), k \div DirPer)

RemoveLfn ==
  /\ Step("remove")
  /\ PutSlot(dir_sdi(r.old - 1), r.old - 1, Del)
  /\ Goto("remove2", r)
  /\ UNCHANGED last_clst

RemoveSfn ==
  /\ Step("remove2")
  /\ PutSlot({}, r.old, Del)
  /\ Goto(IF op.kind = "unlink" /\ r.clst # 0 THEN "rm" ELSE "flush", r)
  /\ UNCHANGED last_clst

(* remove_chain, a cluster at a time from the first one. *)
remove_chain ==
  LET nxt == get_fat(Vol, r.clst)
  IN /\ Step("rm")
     /\ put_fat({}, r.clst, 0)
     /\ UNCHANGED last_clst
     /\ IF nxt \in Clusters THEN Goto("rm", [r EXCEPT !.clst = nxt])
        ELSE CASE op.kind = "save" -> Goto("reopen", [r EXCEPT !.clst = 0])
               [] op.kind = "unlink" -> Goto("flush", r)
               [] op.kind = "mkdir" -> Leave("FR_DENIED")

(* f_open goes back to the entry and suggests the freed clusters. *)
ReopenEntry ==
  /\ Step("reopen")
  /\ Look({}, SlotSec(Vol, r.s, r.k))
  /\ last_clst' = r.head - 1
  /\ Goto("chain", [r EXCEPT !.head = 0])

(***************************************************************************)
(* f_write puts full sectors on the disk at once and keeps the last one in *)
(* fp->buf, which f_sync writes first; then f_sync stores the entry.       *)
(***************************************************************************)
\* Mutant: the partial last sector stays in fp->buf.
WriteSector_KeepsLast ==
  LET more == r.u + 1 < DocLen(op.doc)
  IN /\ Step("data")
     /\ disk' = IF more THEN [disk EXCEPT ![DataSec(r.clst, r.u % Csize)] = Text(op.doc, r.u)]
                ELSE disk
     /\ Goto(IF ~more THEN "entry" ELSE IF (r.u + 1) % Csize = 0 THEN "chain" ELSE "data",
             [r EXCEPT !.u = @ + 1])
     /\ UNCHANGED mem

WriteSector ==
  LET more == r.u + 1 < DocLen(op.doc)
  IN /\ Step("data")
     /\ disk' = [disk EXCEPT ![DataSec(r.clst, r.u % Csize)] = Text(op.doc, r.u)]
     /\ Goto(IF ~more THEN "entry" ELSE IF (r.u + 1) % Csize = 0 THEN "chain" ELSE "data",
             [r EXCEPT !.u = @ + 1])
     /\ UNCHANGED mem

SyncEntry ==
  /\ Step("entry")
  /\ PutSlot({}, r.k, Sfn(Leaf(op.path), FALSE, r.head, r.u))
  /\ Goto("flush", r)
  /\ UNCHANGED last_clst

\* Mutant: the call returns with its last change in the window.
sync_fs_NoFlush ==
  /\ Step("flush")
  /\ UNCHANGED <<disk, mem>>
  /\ Leave("FR_OK")

sync_fs ==
  /\ Step("flush")
  /\ sync_window
  /\ Leave("FR_OK")
  /\ UNCHANGED <<winsect, win, last_clst>>

(***************************************************************************)
(* The power fails and the volume is mounted again.  Two sections are not  *)
(* crash safe: f_rename from the moment the new entry can be on the disk   *)
(* to the one the old entry is off it, and the stretching of a directory   *)
(* from the flush of the FAT to the clearing of the new cluster.           *)
(***************************************************************************)
NotCrashSafe ==
  \/ op.kind = "rename" /\ pc \in {"remove2", "flush"}
  \/ r.grow /\ pc = "zero"

VBR == <<"vbr", 0>>

Mounted ==
  /\ winsect' = VBR
  /\ win' = Zeros
  /\ wflag' = FALSE
  /\ last_clst' = 0

PowerFails ==
  /\ crashes < MaxCrashes
  /\ ~torn
  /\ crashes' = crashes + 1
  /\ torn' = NotCrashSafe
  /\ UNCHANGED <<disk, calls>>
  /\ Mounted
  /\ Leave("none")

Formatted ==
  [s \in Sectors \cup {VBR} |->
     IF s[1] = "fat" THEN [i \in 0..(FatPer - 1) |-> FatEntry(0)] ELSE Zeros]

Init ==
  /\ disk = Formatted
  /\ winsect = VBR /\ win = Zeros /\ wflag = FALSE /\ last_clst = 0
  /\ pc = "idle" /\ op = NoOp /\ r = R0 /\ res = Result("none", <<>>)
  /\ calls = 0 /\ crashes = 0 /\ torn = FALSE
  /\ tree = Tree(disk)

Work ==
  \/ dir_alloc \/ put_lfn \/ PutSfn \/ create_chain \/ LinkChain
  \/ dir_clear \/ ZeroSector \/ RemoveLfn \/ RemoveSfn \/ remove_chain
  \/ ReopenEntry \/ WriteSector \/ SyncEntry \/ sync_fs

Request ==
  \/ \E p \in Paths, d \in Docs : SaveOpen(p, d)
  \/ \E p \in Paths : ReadFile(p) \/ f_unlink(p)
  \/ \E n \in Names : f_mkdir(<<n>>)
  \/ \E p \in Paths : \E n \in IF Len(p) = 1 THEN Names ELSE SubNames : f_rename(p, n)

Next == Request \/ Work \/ PowerFails

Spec == Init /\ [][Next]_vars /\ WF_vars(Work)

(* Tables hold entries only, every object has a chain that ends and is as  *)
(* long as the object, and no cluster is in two chains.                    *)
Sound(v) ==
  \A live \in {Live(v)} :
    /\ \A s \in Dirs(v) : \A es \in {Entries(v, s)} : \A k \in Used(es) : es[k].k # "text"
    /\ \A e \in live :
         IF e.cl = 0 THEN ~e.dir /\ e.size = 0
         ELSE \A ch \in {Chain(v, e.cl)} :
                /\ get_fat(v, ch[Len(ch)]) = EOC
                /\ e.size <= Len(ch) * Csize
    /\ \A e, x \in live : e # x => ClustersOf(v, e) \cap ClustersOf(v, x) = {}

(* Outside the two sections that are not crash safe, the sectors on the    *)
(* disk form a sound volume after every single disk write, so a power      *)
(* failure there never cross-links, cuts or garbles an object: the order   *)
(* in which the window is flushed by f_open, f_sync, f_unlink and f_mkdir. *)
CrashConsistent == torn \/ NotCrashSafe \/ Sound(disk)

(* Without a power failure no cluster is lost: between calls the clusters  *)
(* marked in the FAT are those of the objects, also after calls that       *)
(* failed half way on a full volume or a full directory.                   *)
NoLostCluster ==
  crashes = 0 /\ pc = "idle" =>
    {c \in Clusters : get_fat(Vol, c) # 0} = UNION {ClustersOf(Vol, e) : e \in Live(Vol)}

(* A file on the disk is always the beginning of one text, never a mixture *)
(* of two saves nor what a cluster held before: f_sync writes the data     *)
(* before the entry.                                                       *)
WholeTexts ==
  \A e \in Live(disk) :
    ~e.dir => \E d \in Docs : f_read(disk, e) = [u \in 1..e.size |-> Text(d, u - 1)[0]]

(* A clean window is a copy of its sector, although file data is written   *)
(* past it: only dir_clear holds zeros before they are on the disk.        *)
WindowCoherent == ~wflag /\ pc # "zero" => win = disk[winsect]

(* Every call returns, on a full volume as well. *)
CallsReturn == pc # "idle" ~> pc = "idle"

(* The sectors on the disk implement the volume of Volume.tla: a call      *)
(* changes nothing but its own object, has its whole effect on the disk    *)
(* when it returns FR_OK, and none when it returns an error.               *)
V == INSTANCE Volume
ImplementsVolume == V!Spec

=============================================================================
