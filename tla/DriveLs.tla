-------------------------------- MODULE DriveLs -------------------------------
(***************************************************************************)
(* U07/drive-ls.c: list a directory of a FAT16 image, given by a path.     *)
(* ls walks down the path: in each directory an iterator looks at one      *)
(* entry after another, first for the next part of the path and in the     *)
(* end to print the names.                                                 *)
(*                                                                         *)
(* The image is any image: what a directory entry or a cell of the FAT     *)
(* holds is chosen when it is first read (and kept from then on).          *)
(* Addresses are the byte offsets that the code computes, so that a wrong  *)
(* one reads something else: an entry that spans two, or past the end.     *)
(***************************************************************************)
EXTENDS Stream

CONSTANTS
  Boots,          \* boot sectors
  Entries,        \* what a directory entry may hold
  Junk,           \* what bytes that are none may look like, read as one
  Links,          \* what a cell of the FAT may hold
  Paths,          \* paths to list, as lists of names
  ImageBytes,     \* the size of the image
  MaxHops         \* bound: how often iterators go on to another cluster

DIR_ENT_BYTES == 32
Blank    == "blank"
EndMark  == "0x00"     \* as the first byte of a name: no entry from here on
Deleted  == "0xe5"     \* as the first byte of a name: this entry is unused
U16(n)   == n % 65536

ASSUME DriveAssumption ==
  /\ ImageBytes \in Nat /\ MaxHops \in Nat
  /\ Junk \subseteq Entries
  /\ \A e \in Entries :
       /\ e.base \in Seq(STRING) /\ e.ext \in Seq(STRING) \ {<<>>}
       /\ e.clus \in Nat /\ U16(e.clus) = e.clus
  /\ \A p \in Paths : p \in Seq(Seq(STRING))
\* As in any FAT16 volume, entries do not lie across sectors, directories have
\* entries, and their numbers fit 16 bits.
ASSUME BootAssumption == \A b \in Boots :
  /\ {b.RsvdSecCnt, b.NumFATs, b.FATSz16, b.FATSz32[1], b.FATSz32[2], b.FATSz32[3],
      b.FATSz32[4]} \subseteq Nat
  /\ {b.BytsPerSec, b.SecPerClus} \subseteq Nat \ {0} /\ b.BytsPerSec % DIR_ENT_BYTES = 0
  /\ \A n \in {b.RootEntCnt, (b.BytsPerSec * b.SecPerClus) \div DIR_ENT_BYTES} :
       n \in Nat \ {0} /\ U16(n) = n

VARIABLES
  boot, path, sec_num,
  it,        \* the iterator: is_root_dir, max_entry_cnt, cluster_nr, cluster_offset, entry_nr
  offset,    \* where next_dir_entry reads
  dir, fat,  \* the image, as far as it was read: entries and FAT cells by offset
  asked,     \* history: the whole path
  hops       \* history: how often an iterator has gone on to another cluster

image  == <<boot, dir, fat>>
lsVars == <<image, path, sec_num, it, offset, asked, hops>>
-------------------------------------------------------------------------------
(* The geometry (main).  read_32 takes its upper half from one byte too    *)
(* early.                                                                  *)
read_16(b, i) == b[i] + 256 * b[i + 1]
read_32(b, i) == read_16(b, i) + 65536 * read_16(b, i + 1)

fat_size == IF boot.FATSz16 # 0 THEN boot.FATSz16 ELSE read_32(boot.FATSz32, 1)
root_dir_sectors ==
  (boot.RootEntCnt * 32 + boot.BytsPerSec - 1) \div boot.BytsPerSec
first_root_dir_sec_num == boot.RsvdSecCnt + boot.NumFATs * fat_size
first_data_sector      == first_root_dir_sec_num + root_dir_sectors
dir_ents_per_cluster   == U16((boot.BytsPerSec * boot.SecPerClus) \div DIR_ENT_BYTES)

cluster_to_sec(cluster_nr) ==
  IF cluster_nr = 0 THEN first_root_dir_sec_num
  ELSE (cluster_nr - 2) * boot.SecPerClus + first_data_sector
sec_to_offset(sec_nr) == sec_nr * boot.BytsPerSec

is_eoc(link) == link >= 65528
FatOffset(cluster_nr) ==
  sec_to_offset(boot.RsvdSecCnt + (cluster_nr * 2) \div boot.BytsPerSec)
    + U16((cluster_nr * 2) % boot.BytsPerSec)
-------------------------------------------------------------------------------
(* Names.  sprint_filename puts the dot at the first blank of the padded   *)
(* name; where there is none strpbrk returns NULL, which is written to.    *)
HasExt(e)      == e.ext[1] # Blank
BlankIn(s)     == SelectInSeq(s, LAMBDA ch : ch = Blank)
NameCrashes(e) == HasExt(e) /\ BlankIn(e.base) = 0

CutAtBlank(s) == IF BlankIn(s) = 0 THEN s ELSE SubSeq(s, 1, BlankIn(s) - 1)
Overlay(s, i, t) ==
  [k \in 1 .. Len(s) + Len(t) |->
     IF k \in i .. i + Len(t) - 1 THEN t[k - i + 1] ELSE IF k <= Len(s) THEN s[k] ELSE Blank]
sprint_filename(e) ==
  CutAtBlank(IF HasExt(e) THEN Overlay(e.base, BlankIn(e.base), <<".">> \o e.ext) ELSE e.base)
-------------------------------------------------------------------------------
LsStart ==
  /\ path = asked /\ sec_num = first_root_dir_sec_num
  /\ it = [is_root_dir |-> TRUE] /\ offset = 0
  /\ dir = <<>> /\ fat = <<>> /\ hops = 0
LsIdle == boot = (CHOOSE b \in Boots : TRUE) /\ asked = <<>> /\ LsStart
LsInit ==
  /\ prog = "drive-ls" /\ pc = "ls" /\ text = <<>> /\ pos = 0 /\ out = <<>>
  /\ boot \in Boots /\ asked \in Paths /\ LsStart

Listing == path = <<>>

\* entry_nr is incremented before it is used.  (Variant: from 0.)
FromZero == 0
FirstNr  == U16(-1)

\* new_dir_entry_iterator, for the listing or to find the next part of path.
NewIterator ==
  /\ pc = "ls" /\ pc' = "next"
  /\ it' = IF sec_num = first_root_dir_sec_num
           THEN [is_root_dir |-> TRUE, max_entry_cnt |-> boot.RootEntCnt,
                 cluster_nr |-> U16(-1), cluster_offset |-> sec_to_offset(sec_num),
                 entry_nr |-> FirstNr]
           ELSE [is_root_dir |-> FALSE, max_entry_cnt |-> dir_ents_per_cluster,
                 cluster_nr |-> U16((sec_num - first_data_sector) \div boot.SecPerClus + 2),
                 cluster_offset |-> sec_to_offset(sec_num),
                 entry_nr |-> FirstNr]
  /\ UNCHANGED <<image, path, sec_num, offset, out, asked, hops>>

(* next_dir_entry: first, where the next entry is.                         *)
NextNr == U16(it.entry_nr + 1)
AtMax  == pc = "next" /\ NextNr = it.max_entry_cnt

NoMoreEntries == pc' = IF Listing THEN "exit_ok" ELSE "not_found"

MoveTo(iter) ==
  /\ it' = iter
  /\ offset' = iter.cluster_offset + iter.entry_nr * DIR_ENT_BYTES
  /\ pc' = "entry"
  /\ UNCHANGED <<path, sec_num, out, asked>>

NextInCluster ==
  /\ pc = "next" /\ ~AtMax
  /\ MoveTo([it EXCEPT !.entry_nr = NextNr])
  /\ UNCHANGED <<image, hops>>

EndOfRoot ==
  /\ AtMax /\ it.is_root_dir
  /\ NoMoreEntries
  /\ UNCHANGED <<image, path, sec_num, it, offset, out, asked, hops>>

\* The cell of the FAT for the current cluster.
ReadLink(link) ==
  LET cell == FatOffset(it.cluster_nr) IN
  /\ link \in IF cell \in DOMAIN fat THEN {fat[cell]} ELSE Links
  /\ fat' = [o \in DOMAIN fat \cup {cell} |-> IF o = cell THEN link ELSE fat[o]]
  /\ UNCHANGED <<boot, dir>>

EndOfChain ==
  /\ AtMax /\ ~it.is_root_dir
  /\ \E link \in Links : ReadLink(link) /\ is_eoc(link)
  /\ NoMoreEntries
  /\ UNCHANGED <<path, sec_num, it, offset, out, asked, hops>>

\* cluster_offset is given a sector number, and the entry number wraps only
\* with the next call's increment.
NextCluster ==
  /\ AtMax /\ ~it.is_root_dir /\ hops < MaxHops
  /\ \E link \in Links :
       /\ ReadLink(link) /\ ~is_eoc(link)
       /\ MoveTo([it EXCEPT !.cluster_nr = link, !.cluster_offset = cluster_to_sec(link),
                            !.entry_nr = U16(-1)])
  /\ hops' = hops + 1

(* Then, what it is.                                                       *)
IsEntrySlot(o) ==
  o >= sec_to_offset(first_root_dir_sec_num)
    /\ (o - sec_to_offset(first_root_dir_sec_num)) % DIR_ENT_BYTES = 0
PastEnd == offset + DIR_ENT_BYTES > ImageBytes

\* The read fails, in any case past the end of the image.
LsReadFails ==
  /\ pc = "entry" \/ (AtMax /\ ~it.is_root_dir)
  /\ pc' = "exit_error"
  /\ UNCHANGED <<lsVars, out>>

ReadEntry(e) ==
  /\ pc = "entry" /\ ~PastEnd
  /\ e \in IF offset \in DOMAIN dir THEN {dir[offset]}
           ELSE IF IsEntrySlot(offset) THEN Entries ELSE Junk
  /\ dir' = IF IsEntrySlot(offset)
            THEN [o \in DOMAIN dir \cup {offset} |-> IF o = offset THEN e ELSE dir[o]]
            ELSE dir
  /\ UNCHANGED <<boot, fat, offset, asked, hops>>

IsVolume(e) == "volume" \in e.attr
IsEnd(e)    == e.base[1] = EndMark
\* (char) 0xe5 is negative where char is signed, and never equals 0xe5.
LooksDeleted(e) == e.base[1] = Deleted /\ ~CharIsSigned
Returned(e)     == ~IsVolume(e) /\ ~IsEnd(e) /\ ~LooksDeleted(e)
\* The value that stands for "no more entries" may also be in the image.
IsSentinel(e)   == e.attr = {} /\ e.clus = 0
\* (Variant: any entry of the name is found.)
AnyNamed(e) == sprint_filename(e) = Head(path)
IsSought(e) == "directory" \in e.attr /\ sprint_filename(e) = Head(path)

SkipEntry(e) ==
  /\ ReadEntry(e) /\ (IsVolume(e) \/ LooksDeleted(e))
  /\ pc' = "next"
  /\ UNCHANGED <<path, sec_num, it, out>>

LastEntry(e) ==
  /\ ReadEntry(e)
  /\ \/ ~IsVolume(e) /\ IsEnd(e) /\ it' = [it EXCEPT !.entry_nr = U16(it.entry_nr - 1)]
     \/ Returned(e) /\ IsSentinel(e) /\ UNCHANGED it
  /\ NoMoreEntries
  /\ UNCHANGED <<path, sec_num, out>>

PrintName(e) ==
  /\ ReadEntry(e) /\ Returned(e) /\ ~IsSentinel(e) /\ Listing
  /\ IF NameCrashes(e)
     THEN pc' = "crashed" /\ UNCHANGED out
     ELSE pc' = "next" /\ out' = Append(out, sprint_filename(e))
  /\ UNCHANGED <<path, sec_num, it>>

\* find_path_sec_num looks at the name of directories only.
Compare(e) ==
  /\ ReadEntry(e) /\ Returned(e) /\ ~IsSentinel(e) /\ ~Listing
  /\ \/ /\ "directory" \in e.attr /\ NameCrashes(e)
        /\ pc' = "crashed" /\ UNCHANGED <<path, sec_num>>
     \/ /\ ~("directory" \in e.attr /\ NameCrashes(e)) /\ IsSought(e)
        /\ path' = Tail(path) /\ sec_num' = cluster_to_sec(e.clus)
        /\ pc' = "ls"
     \/ /\ ~("directory" \in e.attr /\ NameCrashes(e)) /\ ~IsSought(e)
        /\ pc' = "next" /\ UNCHANGED <<path, sec_num>>
  /\ UNCHANGED <<it, out>>

LsStep ==
  /\ \/ NewIterator \/ NextInCluster \/ EndOfRoot \/ EndOfChain \/ NextCluster
     \/ LsReadFails
     \/ \E e \in Entries : SkipEntry(e) \/ LastEntry(e) \/ PrintName(e) \/ Compare(e)
  /\ UNCHANGED <<prog, text, pos>>

LsSpec == LsInit /\ [][LsStep]_<<streamVars, lsVars>>
-------------------------------------------------------------------------------
(* What a FAT directory holds.  The root is directory 0; another one is    *)
(* taken to have one cluster.                                              *)
TrueFatSize == IF boot.FATSz16 # 0 THEN boot.FATSz16
               ELSE read_16(boot.FATSz32, 1) + 65536 * read_16(boot.FATSz32, 3)
RootStart   == (boot.RsvdSecCnt + boot.NumFATs * TrueFatSize) * boot.BytsPerSec
ClusterSize == boot.SecPerClus * boot.BytsPerSec
ClusterStart(c) ==
  RootStart + root_dir_sectors * boot.BytsPerSec + (c - 2) * ClusterSize
NrSlots(c) == IF c = 0 THEN boot.RootEntCnt ELSE ClusterSize \div 32
Slot(c, i) == (IF c = 0 THEN RootStart ELSE ClusterStart(c)) + 32 * (i - 1)

Seen(o)   == o \in DOMAIN dir
EndsAt(o) == Seen(o) /\ IsEnd(dir[o])
InUse(o)  == Seen(o) /\ ~IsVolume(dir[o]) /\ dir[o].base[1] # Deleted

\* The numbers of the slots before the end mark, and of those with an entry.
BeforeEnd(c)  == {i \in 1 .. NrSlots(c) : \A j \in 1 .. i : ~EndsAt(Slot(c, j))}
EntriesOf(c)  == {i \in BeforeEnd(c) : InUse(Slot(c, i))}
EntryAt(c, i) == dir[Slot(c, i)]
AllSeen(c)    == \A i \in BeforeEnd(c) : Seen(Slot(c, i))

Trim(s) == SubSeq(s, 1, Max({0} \cup {i \in 1 .. Len(s) : s[i] # Blank}))
PrettyName(e) == Trim(e.base) \o (IF HasExt(e) THEN <<".">> \o Trim(e.ext) ELSE <<>>)

NamesOf(c) ==   \* of its first entries, up to each slot
  LET names[i \in 0 .. NrSlots(c)] ==
        IF i = 0 THEN <<>>
        ELSE IF i \in EntriesOf(c) THEN Append(names[i - 1], PrettyName(EntryAt(c, i)))
        ELSE names[i - 1]
  IN  names

Nowhere == -1
Named(c, n) ==
  {i \in EntriesOf(c) : "directory" \in EntryAt(c, i).attr /\ PrettyName(EntryAt(c, i)) = n}
Reached ==   \* the directory that each part of the path leads to
  LET r[k \in 0 .. Len(asked)] ==
        IF k = 0 THEN 0
        ELSE IF r[k - 1] = Nowhere \/ Named(r[k - 1], asked[k]) = {} THEN Nowhere
        ELSE EntryAt(r[k - 1], Min(Named(r[k - 1], asked[k]))).clus
  IN  r

(* The images that the code gets right: a FAT whose size it reads right;   *)
(* directories of one cluster, none with the number 1; no file that is     *)
(* empty and has no attributes; no deleted entry where char is signed; no  *)
(* end mark that is marked as a volume's name, too; no blank within a      *)
(* name, and no name of full length with an extension.                     *)
Padded(s) == \A i, j \in 1 .. Len(s) : i < j /\ s[i] = Blank => s[j] = Blank
Supported ==
  fat_size = TrueFatSize /\ hops = 0 /\ \A o \in DOMAIN dir :
    /\ ~IsSentinel(dir[o]) /\ ~NameCrashes(dir[o]) /\ dir[o].clus # 1
    /\ Padded(dir[o].base) /\ Padded(dir[o].ext)
    /\ CharIsSigned => dir[o].base[1] # Deleted
    /\ ~(IsEnd(dir[o]) /\ IsVolume(dir[o]))

\* The chain that the iterator follows, as far as it was read, is a cycle.
GoesRound ==
  LET chain[k \in 0 .. Cardinality(Links)] ==
        IF k = 0 THEN it.cluster_nr
        ELSE LET cell == FatOffset(chain[k - 1])
             IN  IF cell \in DOMAIN fat THEN fat[cell] ELSE 65535
  IN  pc \in {"next", "entry"} /\ ~is_eoc(chain[Cardinality(Links)])

(* drive-ls.c:132-133.  On these, what is listed is the directory that the *)
(* path leads to, through any directories and back: each of its entries,   *)
(* once, in order, by its name.                                            *)
ListsTheDirectory ==
  prog = "drive-ls" /\ pc = "exit_ok" /\ Supported =>
    LET d == Reached[Len(asked)] IN
    d # Nowhere /\ AllSeen(d) /\ out = NamesOf(d)[NrSlots(d)]

(* "There is no entry with name ..." is said only where there is none.     *)
NotFoundIsTrue ==
  pc = "not_found" /\ Supported =>
    \E k \in 1 .. Len(asked) :
      Reached[k] = Nowhere /\ Reached[k - 1] # Nowhere /\ AllSeen(Reached[k - 1])

(* drive-ls.c:274, "Otherwise go to the next cluster in the chain if it    *)
(* exists": each entry read is one of the cluster the iterator is in.      *)
EntryInCluster ==
  pc = "entry" /\ ~it.is_root_dir =>
    \E i \in 1 .. NrSlots(it.cluster_nr) : offset = Slot(it.cluster_nr, i)
===============================================================================
