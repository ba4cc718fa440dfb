--------------------------- MODULE OrderingProofs ---------------------------
(***************************************************************************)
(* The two algorithms that put things in an order: cursor pagination, for  *)
(* any rows, times, page sizes and changes made while a client pages       *)
(* through; and the splitting of a converter's files, for any sizes.       *)
(***************************************************************************)
EXTENDS Pagination, ChunkSplit, FiniteSetTheorems, TLAPS

-----------------------------------------------------------------------------
(* Pages.                                                                  *)

(* What was seen lies in front of the cursor; what was there all the time  *)
(* and was not seen lies behind it.                                        *)
PagesInv ==
    /\ PageTypeOK
    /\ repeated = {}
    /\ ~ done => \A r \in seen : ~ After(r)
    /\ ~ done => \A r \in steady : r \in seen \/ After(r)
    /\ done => steady \subseteq seen

LEMMA InitPages == PageInit => PagesInv
  BY DEF PageInit, PagesInv, PageTypeOK, After

(* The order of the rows is strict and transitive.                         *)
LEMMA NewerOrder ==
    ASSUME PageTypeOK, NEW r \in RowIds, NEW q \in RowIds
    PROVE  /\ ~ (Newer(r, q) /\ Newer(q, r))
           /\ \A s \in RowIds : Newer(r, q) /\ Newer(q, s) => Newer(r, s)
<1>1. RowIds \subseteq Nat /\ \A s \in RowIds : created[s] \in Nat
  BY PageOK DEF PageTypeOK
<1> QED BY <1>1 DEF Newer

(* A page that is not the last ends at the new cursor, and everything that *)
(* matched and is not on it comes after that cursor.                       *)
LEMMA PageTaken ==
    ASSUME PagesInv, ~ done,
           NEW rows \in SUBSET RowIds, NEW page \in SUBSET RowIds,
           fetch(rows, page), NEW r \in page, Last(page, r)
    PROVE  /\ \A q \in seen \cup page : ~ Newer(r, q)
           /\ \A q \in visible : q \in page \/ ~ After(q) \/ Newer(r, q)
<1>1. page \subseteq rows /\ \A q \in rows : q \in visible /\ After(q)
  BY DEF fetch, FirstOf
<1>2. ASSUME NEW q \in page  PROVE ~ Newer(r, q)
  <2>1. q = r \/ Newer(q, r)
    BY DEF Last
  <2> QED BY <2>1, NewerOrder DEF PagesInv
<1>3. ASSUME NEW q \in seen  PROVE ~ Newer(r, q)
  <2>1. ~ After(q) /\ After(r) /\ q \in RowIds
    BY <1>1 DEF PagesInv, PageTypeOK
  <2>2. cursor \in RowIds /\ ~ Newer(cursor, q) /\ Newer(cursor, r)
    BY <2>1 DEF After, PagesInv, PageTypeOK
  <2> QED BY <2>1, <2>2, NewerOrder DEF PagesInv
<1>4. ASSUME NEW q \in visible, q \notin page, After(q)  PROVE Newer(r, q)
  <2>1. CASE q \in rows
    BY <1>4, <2>1 DEF fetch, FirstOf
  <2>2. CASE q \notin rows
    BY <1>1, <1>4, <2>2 DEF fetch, FirstOf
  <2> QED BY <2>1, <2>2
<1> QED BY <1>2, <1>3, <1>4

(* The last page has all that matched.                                     *)
LEMMA LastPageTaken ==
    ASSUME PagesInv,
           NEW rows \in SUBSET RowIds, NEW page \in SUBSET RowIds,
           fetch(rows, page), ~ (Cardinality(rows) > limit)
    PROVE  page = {r \in visible : After(r)}
<1>1. IsFiniteSet(rows) /\ IsFiniteSet(page)
  BY PageOK, FS_Subset
<1>2. limit \in Nat /\ Cardinality(rows) \in Nat /\ Cardinality(page) \in Nat
  BY <1>1, PageOK, FS_CardinalityType DEF PagesInv, PageTypeOK
<1>3. rows = {r \in visible : After(r)}
  BY <1>2 DEF fetch, FirstOf
<1>4. page = rows
  <2>1. page \subseteq rows /\ (Cardinality(page) = limit \/ page = rows)
    BY DEF fetch, FirstOf
  <2>2. CASE Cardinality(page) = limit
    <3>1. Cardinality(page) = Cardinality(rows)
      BY <1>1, <1>2, <2>1, <2>2, FS_Subset
    <3> QED BY <1>1, <2>1, <3>1, FS_Subset
  <2> QED BY <2>1, <2>2
<1> QED BY <1>3, <1>4

LEMMA NextPages == PagesInv /\ [PageNext]_pageVars => PagesInv'
<1> SUFFICES ASSUME PagesInv, [PageNext]_pageVars  PROVE PagesInv'
  OBVIOUS
<1>1. CASE UNCHANGED pageVars
  BY <1>1 DEF pageVars, PagesInv, PageTypeOK, After, Newer
<1>2. CASE list_page
  <2>1. PICK rows \in SUBSET RowIds, page \in SUBSET RowIds :
          /\ fetch(rows, page)
          /\ seen' = seen \cup page
          /\ repeated' = repeated \cup (seen \cap page)
          /\ IF Cardinality(rows) > limit
             THEN \E r \in page : /\ Last(page, r)
                                  /\ cursor' = r
                                  /\ UNCHANGED done
             ELSE done' = TRUE /\ UNCHANGED cursor
    BY <1>2 DEF list_page
  <2>2. ~ done /\ UNCHANGED <<created, visible, limit, steady>>
    BY <1>2 DEF list_page
  <2>3. repeated' = {}
    BY <2>1, <2>2 DEF fetch, FirstOf, PagesInv
  <2>4. CASE Cardinality(rows) > limit
    <3>1. PICK r \in page : Last(page, r) /\ cursor' = r /\ done' = done
      BY <2>1, <2>4
    <3>2. /\ \A q \in seen \cup page : ~ Newer(r, q)
          /\ \A q \in visible : q \in page \/ ~ After(q) \/ Newer(r, q)
      BY <2>1, <2>2, <3>1, PageTaken
    <3>3. \A q : After(q)' <=> Newer(r, q)
      BY <2>2, <3>1, PageOK DEF After, Newer
    <3>4. PageTypeOK'
      BY <2>1, <2>2, <2>3, <3>1 DEF PagesInv, PageTypeOK
    <3>5. \A q \in steady : q \in seen \cup page \/ Newer(r, q)
      BY <2>2, <3>2 DEF PagesInv, PageTypeOK
    <3> QED BY <2>1, <2>2, <2>3, <3>1, <3>2, <3>3, <3>4, <3>5 DEF PagesInv
  <2>5. CASE ~ (Cardinality(rows) > limit)
    <3>1. done' = TRUE /\ cursor' = cursor
      BY <2>1, <2>5
    <3>2. page = {r \in visible : After(r)}
      BY <2>1, <2>5, LastPageTaken
    <3>3. steady \subseteq seen \cup page
      BY <2>2, <3>2 DEF PagesInv, PageTypeOK
    <3>4. PageTypeOK'
      BY <2>1, <2>2, <2>3, <3>1 DEF PagesInv, PageTypeOK
    <3> QED BY <2>1, <2>2, <2>3, <3>1, <3>3, <3>4 DEF PagesInv
  <2> QED BY <2>4, <2>5
<1>3. ASSUME NEW r \in RowIds, row_appears(r) \/ row_disappears(r)
      PROVE  PagesInv'
  BY <1>3 DEF row_appears, row_disappears, PagesInv, PageTypeOK, After, Newer
<1> QED BY <1>1, <1>2, <1>3 DEF PageNext

(***************************************************************************)
(* No row is on two pages, whatever is inserted, deleted or changed while  *)
(* the client turns them.                                                  *)
(***************************************************************************)
THEOREM PagesDoNotRepeat == PageSpec => []NoRowTwice
<1>1. PagesInv => NoRowTwice
  BY DEF PagesInv, NoRowTwice
<1> QED BY <1>1, InitPages, NextPages, PTL DEF PageSpec

(***************************************************************************)
(* The pages miss no row that was there all the time.                      *)
(***************************************************************************)
THEOREM PagesAreComplete == PageSpec => []SteadySeen
<1>1. PagesInv => SteadySeen
  BY DEF PagesInv, SteadySeen
<1> QED BY <1>1, InitPages, NextPages, PTL DEF PageSpec

-----------------------------------------------------------------------------
(* Parts.                                                                  *)

(* Where the next part begins: a file whose last byte was read is over,    *)
(* although the loop has yet to find that out.                             *)
Position == IF from > 0 /\ from = outputs[file]
            THEN [file |-> file + 1, from |-> 0]
            ELSE [file |-> file, from |-> from]

(* A file is read only if it exceeds the limit, and not past its end.      *)
Reading ==
    from > 0 => /\ file <= Len(outputs)
                /\ ~ Fits(outputs[file])
                /\ from <= outputs[file]

Joined ==
    /\ \A n \in 1 .. Len(parts) :
          /\ parts[n].file \in 1 .. Len(outputs)
          /\ parts[n].file = StartOf(n).file
          /\ parts[n].from = StartOf(n).from
    /\ StartOf(Len(parts) + 1) = Position

SplitInv == SplitTypeOK /\ Reading /\ Joined /\ PartsFit

(* A part of n bytes from the loop's position on extends the list, if it   *)
(* leaves the loop where it ends.                                          *)
LEMMA PartAdded ==
    ASSUME SplitInv, NEW n \in Nat, file <= Len(outputs),
           from = 0 \/ from < outputs[file],
           AddPart(n), UNCHANGED outputs,
           n <= MaxBytes, n = 0 => outputs[file] = 0
    PROVE  /\ parts' \in Seq(Part)
           /\ Len(parts') = Len(parts) + 1
           /\ \A k \in 1 .. Len(parts') :
                 /\ parts'[k].file \in 1 .. Len(outputs)
                 /\ parts'[k].file = StartOf(k)'.file
                 /\ parts'[k].from = StartOf(k)'.from
           /\ StartOf(Len(parts) + 1)' =
                 IF from + n = outputs[file]
                 THEN [file |-> file + 1, from |-> 0]
                 ELSE [file |-> file, from |-> from + n]
           /\ PartsFit'
<1> DEFINE p == [file |-> file, from |-> from, size |-> n]
<1>1. /\ parts \in Seq(Part) /\ p \in Part /\ parts' = Append(parts, p)
      /\ outputs \in Seq(Sizes) /\ file \in 1 .. Len(outputs) /\ outputs' = outputs
  BY DEF SplitInv, SplitTypeOK, Part, AddPart
<1>2. /\ parts' \in Seq(Part) /\ Len(parts') = Len(parts) + 1
      /\ parts'[Len(parts) + 1] = p
      /\ \A k \in 1 .. Len(parts) : parts'[k] = parts[k]
  BY <1>1
<1>3. \A k \in 1 .. Len(parts) + 1 : StartOf(k)' = StartOf(k)
  BY <1>1, <1>2 DEF StartOf, EndOf
<1>4. StartOf(Len(parts) + 1) = [file |-> file, from |-> from]
  <2>1. ~ (from > 0 /\ from = outputs[file])
    BY <1>1, SplitOK DEF SplitInv, SplitTypeOK
  <2> QED BY <2>1 DEF SplitInv, Joined, Position
<1>5. \A k \in 1 .. Len(parts') :
         /\ parts'[k].file \in 1 .. Len(outputs)
         /\ parts'[k].file = StartOf(k)'.file
         /\ parts'[k].from = StartOf(k)'.from
  <2>1. ASSUME NEW k \in 1 .. Len(parts)
        PROVE  /\ parts'[k].file \in 1 .. Len(outputs)
               /\ parts'[k].file = StartOf(k)'.file
               /\ parts'[k].from = StartOf(k)'.from
    BY <1>2, <1>3 DEF SplitInv, Joined
  <2>2. ASSUME NEW k, k = Len(parts) + 1
        PROVE  /\ parts'[k].file \in 1 .. Len(outputs)
               /\ parts'[k].file = StartOf(k)'.file
               /\ parts'[k].from = StartOf(k)'.from
    <3>1. k \in 1 .. Len(parts) + 1
      BY <1>1, <2>2
    <3>2. StartOf(k)' = [file |-> file, from |-> from]
      BY <1>3, <1>4, <2>2, <3>1
    <3> QED BY <1>1, <1>2, <2>2, <3>2
  <2>3. \A k \in 1 .. Len(parts') : k \in 1 .. Len(parts) \/ k = Len(parts) + 1
    BY <1>1, <1>2
  <2> HIDE DEF p
  <2> QED BY <2>1, <2>2, <2>3
<1>6. StartOf(Len(parts) + 1)' = EndOf(p)
  BY <1>1, <1>2 DEF StartOf, EndOf
<1>7. PartsFit'
  BY <1>1, <1>2 DEF SplitInv, PartsFit
<1> QED BY <1>2, <1>5, <1>6, <1>7 DEF EndOf

LEMMA InitSplit == SplitInit => SplitInv
<1> SUFFICES ASSUME SplitInit  PROVE SplitInv
  OBVIOUS
<1>1. outputs \in Seq(Sizes) /\ Len(outputs) \in Nat
  BY SplitOK DEF SplitInit
<1>2. SplitTypeOK
  BY <1>1 DEF SplitInit, SplitTypeOK
<1> QED BY <1>2
  DEF SplitInit, SplitInv, Reading, Joined, Position, StartOf, PartsFit

LEMMA NextSplit == SplitInv /\ [SplitNext]_splitVars => SplitInv'
<1> SUFFICES ASSUME SplitInv, [SplitNext]_splitVars  PROVE SplitInv'
  OBVIOUS
<1>1. CASE UNCHANGED splitVars
  BY <1>1 DEF splitVars, SplitInv, SplitTypeOK, Reading, Joined, PartsFit,
     Position, StartOf, EndOf
<1>0. /\ outputs \in Seq(Sizes) /\ from \in Nat /\ Len(outputs) \in Nat
      /\ parts \in Seq(Part) /\ Len(parts) \in Nat
      /\ file \in 1 .. Len(outputs) + 1 /\ MaxBytes \in Nat \ {0}
      /\ \A k \in 1 .. Len(outputs) : outputs[k] \in Nat
  <2>1. outputs \in Seq(Sizes) /\ parts \in Seq(Part)
    BY DEF SplitInv, SplitTypeOK
  <2>2. Len(outputs) \in Nat /\ Len(parts) \in Nat
        /\ \A k \in 1 .. Len(outputs) : outputs[k] \in Sizes
    BY <2>1
  <2> QED BY <2>1, <2>2, SplitOK DEF SplitInv, SplitTypeOK
<1>2. CASE keep_whole
  <2>1. from = 0
    BY <1>0, <1>2 DEF SplitInv, Reading, keep_whole
  <2>2. /\ file <= Len(outputs) /\ outputs' = outputs
        /\ outputs[file] \in Nat /\ outputs[file] <= MaxBytes
        /\ AddPart(outputs[file]) /\ file' = file + 1 /\ from' = 0
    BY <1>0, <1>2 DEF keep_whole, NextFile, Fits
  <2>3. /\ parts' \in Seq(Part) /\ Len(parts') = Len(parts) + 1
        /\ \A k \in 1 .. Len(parts') :
              /\ parts'[k].file \in 1 .. Len(outputs)
              /\ parts'[k].file = StartOf(k)'.file
              /\ parts'[k].from = StartOf(k)'.from
        /\ StartOf(Len(parts) + 1)' = [file |-> file + 1, from |-> 0]
        /\ PartsFit'
    <3> DEFINE n == outputs[file]
    <3>1. n \in Nat /\ n <= MaxBytes /\ AddPart(n) /\ (n = 0 => outputs[file] = 0)
          /\ from + n = outputs[file]
      BY <2>1, <2>2
    <3> HIDE DEF n
    <3> QED BY <2>1, <2>2, <3>1, PartAdded
  <2>4. SplitTypeOK' /\ Reading'
    BY <1>0, <2>2, <2>3 DEF SplitTypeOK, Reading
  <2>5. Position' = [file |-> file + 1, from |-> 0]
    BY <2>2 DEF Position
  <2>6. Joined'
    BY <2>2, <2>3, <2>5 DEF Joined
  <2> QED BY <2>3, <2>4, <2>6 DEF SplitInv
<1>3. CASE read_part
  <2> DEFINE n == Read(outputs[file] - from)
  <2>1. /\ file \in 1 .. Len(outputs) /\ outputs' = outputs
        /\ outputs[file] \in Nat /\ ~ Fits(outputs[file])
        /\ from <= outputs[file]
    BY <1>0, <1>3 DEF read_part, SplitInv, Reading, Fits
  <2>2. n \in Nat /\ n <= MaxBytes /\ from + n <= outputs[file]
        /\ (n = 0 <=> from = outputs[file])
    BY <1>0, <2>1 DEF Read
  <2>3. CASE n = 0
    <3>1. file' = file + 1 /\ from' = 0 /\ parts' = parts
      BY <1>3, <2>3 DEF read_part, NextFile
    <3>2. from > 0 /\ from = outputs[file]
      <4> HIDE DEF n
      <4> QED BY <1>0, <2>1, <2>2, <2>3 DEF Fits
    <3>3. Position = [file |-> file + 1, from |-> 0] /\ Position' = Position
      BY <1>0, <3>1, <3>2 DEF Position
    <3>4. SplitTypeOK' /\ Reading'
      BY <1>0, <2>1, <3>1 DEF SplitTypeOK, Reading
    <3>5. Joined' /\ PartsFit'
      BY <2>1, <3>1, <3>3 DEF SplitInv, Joined, PartsFit, StartOf, EndOf
    <3> QED BY <3>4, <3>5 DEF SplitInv
  <2>4. CASE n # 0
    <3>1. AddPart(n) /\ from' = from + n /\ file' = file
      BY <1>3, <2>4 DEF read_part
    <3>2. from < outputs[file]
      BY <1>0, <2>1, <2>2, <2>4
    <3> HIDE DEF n
    <3>3. /\ parts' \in Seq(Part) /\ Len(parts') = Len(parts) + 1
          /\ \A k \in 1 .. Len(parts') :
                /\ parts'[k].file \in 1 .. Len(outputs)
                /\ parts'[k].file = StartOf(k)'.file
                /\ parts'[k].from = StartOf(k)'.from
          /\ StartOf(Len(parts) + 1)' =
                IF from + n = outputs[file]
                THEN [file |-> file + 1, from |-> 0]
                ELSE [file |-> file, from |-> from + n]
          /\ PartsFit'
      BY <1>0, <2>1, <2>2, <2>4, <3>1, <3>2, PartAdded
    <3>4. SplitTypeOK' /\ Reading'
      BY <1>0, <2>1, <2>2, <3>1, <3>3 DEF SplitTypeOK, Reading, Fits
    <3>5. Position' = IF from + n = outputs[file]
                      THEN [file |-> file + 1, from |-> 0]
                      ELSE [file |-> file, from |-> from + n]
      BY <1>0, <2>1, <2>2, <2>4, <3>1 DEF Position
    <3>6. Joined'
      BY <2>1, <3>3, <3>5 DEF Joined
    <3> QED BY <3>3, <3>4, <3>6 DEF SplitInv
  <2> QED BY <2>3, <2>4
<1> QED BY <1>1, <1>2, <1>3 DEF SplitNext

(***************************************************************************)
(* The parts that _split_xkt_chunks and split_binary_chunks return are the *)
(* files, in order and without a gap.                                      *)
(***************************************************************************)
THEOREM SplitJoins == SplitSpec => []PartsJoin
<1>1. SplitInv => PartsJoin
  <2> SUFFICES ASSUME SplitInv, file > Len(outputs)
               PROVE  Position = [file |-> Len(outputs) + 1, from |-> 0]
    BY DEF SplitInv, Joined, PartsJoin
  <2>1. file = Len(outputs) + 1 /\ from = 0
    BY DEF SplitInv, SplitTypeOK, Reading
  <2> QED BY <2>1 DEF Position
<1> QED BY <1>1, InitSplit, NextSplit, PTL DEF SplitSpec

(***************************************************************************)
(* Each of them fits the limit, and none is empty unless its file is.      *)
(***************************************************************************)
THEOREM SplitFits == SplitSpec => []PartsFit
<1>1. SplitInv => PartsFit
  BY DEF SplitInv
<1> QED BY <1>1, InitSplit, NextSplit, PTL DEF SplitSpec

=============================================================================
