--------------------------- MODULE WalIngestProofs --------------------------
(***************************************************************************)
(* The safety properties of WalIngest hold for every page size, number of  *)
(* buffers, WAL and set of readers.  IngestInv is inductive.               *)
(***************************************************************************)
EXTENDS WalIngest, FiniteSetTheorems, WellFoundedInduction, TLAPS

\* A step that names no prover has 30 seconds of SMT.
USE SMTT(30)

-----------------------------------------------------------------------------
(* Extremes of sets of numbers *)

\* A non-empty set of naturals has a least element, and Min names it.
LEMMA MinNat ==
  ASSUME NEW S \in SUBSET Nat, S # {}
  PROVE  Min(S) \in S /\ \A x \in S : Min(S) <= x
<1>1. PICK x \in S : \A y \in S : ~ (<<y, x>> \in OpToRel(<, Nat))
  BY ZenonT(60), NatLessThanWellFounded, WFMin
<1>2. \A y \in S : ~ (y < x)
  BY ZenonT(60), <1>1 DEF OpToRel
<1>3. \A y \in S : x <= y
  BY <1>2
<1> QED BY ZenonT(60), <1>3 DEF Min

\* The minimum of two numbers is one of them and above neither.
LEMMA MinPair ==
  \A a, b \in Nat : /\ Min({a, b}) \in {a, b}
                    /\ Min({a, b}) <= a /\ Min({a, b}) <= b
<1> SUFFICES ASSUME NEW a \in Nat, NEW b \in Nat
             PROVE  /\ Min({a, b}) \in {a, b}
                    /\ Min({a, b}) <= a /\ Min({a, b}) <= b
  OBVIOUS
<1>1. {a, b} \in SUBSET Nat /\ {a, b} # {} /\ a \in {a, b} /\ b \in {a, b}
  OBVIOUS
<1> QED BY <1>1, MinNat

\* The maximum of two numbers.
LEMMA MaxPair == \A a, b \in Nat : Max({a, b}) = IF a <= b THEN b ELSE a
<1> SUFFICES ASSUME NEW a \in Nat, NEW b \in Nat
             PROVE  Max({a, b}) = IF a <= b THEN b ELSE a
  OBVIOUS
<1>1. \E x \in {a, b} : \A y \in {a, b} : x >= y
  <2>1. CASE a <= b BY <2>1
  <2>2. CASE ~ (a <= b) BY <2>2
  <2> QED BY <2>1, <2>2
<1>2. Max({a, b}) \in {a, b} /\ \A y \in {a, b} : Max({a, b}) >= y
  BY <1>1 DEF Max
<1> QED BY <1>2

\* A finite non-empty set of naturals has a greatest element: otherwise take a
\* counterexample of least cardinality and remove an element of it.
LEMMA GreatestExists ==
  ASSUME NEW S \in SUBSET Nat, S # {}, IsFiniteSet(S)
  PROVE  \E m \in S : \A e \in S : e <= m
<1> DEFINE HasMax(T) == \E m \in T : \A e \in T : e <= m
           Bad == {T \in SUBSET S : T # {} /\ ~ HasMax(T)}
           Sizes == {Cardinality(T) : T \in Bad}
<1>1. \A T \in SUBSET S : IsFiniteSet(T) /\ Cardinality(T) \in Nat
  BY ZenonT(60), FS_Subset, FS_CardinalityType
<1>2. SUFFICES ASSUME S \in Bad PROVE FALSE
  OBVIOUS
<1>3. Sizes \in SUBSET Nat /\ Sizes # {}
  BY <1>1, <1>2
<1>4. PICK T \in Bad : \A U \in Bad : Cardinality(T) <= Cardinality(U)
  <2>1. Min(Sizes) \in Sizes /\ \A n \in Sizes : Min(Sizes) <= n
    <3> HIDE DEF Sizes
    <3> QED BY <1>3, MinNat
  <2>2. PICK T \in Bad : Min(Sizes) = Cardinality(T)
    BY ZenonT(60), <2>1
  <2>3. \A U \in Bad : Cardinality(U) \in Sizes
    OBVIOUS
  <2> QED BY ZenonT(60), <2>1, <2>2, <2>3
<1>5. PICK x : x \in T
  BY <1>4
<1>6. IsFiniteSet(T) /\ Cardinality(T \ {x}) = Cardinality(T) - 1
  BY <1>1, <1>5, FS_RemoveElement
<1>7. T \ {x} \notin Bad
  <2>1. T \ {x} \in Bad => Cardinality(T) <= Cardinality(T) - 1
    BY <1>4, <1>6
  <2> QED BY <2>1, <1>1
<1>8. CASE T \ {x} = {}
  <2>1. T = {x} BY <1>5, <1>8
  <2> QED BY <2>1, <1>4
<1>9. CASE T \ {x} # {}
  <2>1. PICK m \in T \ {x} : \A e \in T \ {x} : e <= m
    BY ZenonT(60), <1>7, <1>9
  <2>2. x \in Nat /\ m \in Nat /\ T \in SUBSET Nat BY <1>5, <2>1
  <2>3. CASE x <= m BY <2>1, <2>2, <2>3, <1>4
  <2>4. CASE ~ (x <= m)
    <3>1. \A e \in T : e <= x BY <2>1, <2>2, <2>4
    <3> QED BY <3>1, <1>5, <1>4
  <2> QED BY <2>3, <2>4
<1> QED BY <1>8, <1>9

\* MaxLsn is the end of the last record.
LEMMA MaxLsnType ==
  /\ MaxLsn \in RecordEnds /\ MaxLsn \in Nat /\ MaxLsn > 0
  /\ \A e \in RecordEnds : e \in Nat /\ 0 < e /\ e <= MaxLsn
<1>1. PICK m \in RecordEnds : \A e \in RecordEnds : e <= m
  <2>1. RecordEnds \in SUBSET Nat /\ RecordEnds # {} /\ IsFiniteSet(RecordEnds)
    BY WalAssumption
  <2> QED BY <2>1, GreatestExists
<1>2. \A e \in RecordEnds : e \in Nat /\ 0 < e
  BY WalAssumption
<1>3. \A y \in RecordEnds : m >= y
  BY <1>1, <1>2
<1>4. MaxLsn \in RecordEnds /\ \A y \in RecordEnds : MaxLsn >= y
  BY <1>3 DEF MaxLsn, Max
<1> QED BY <1>2, <1>4

\* The record at lsn ends beyond lsn, and no record ends in between; only
\* behind the last one there is none.
LEMMA RecordEndType ==
  ASSUME NEW lsn \in Lsns
  PROVE  /\ RecordEnd(lsn) \in Nat /\ RecordEnd(lsn) > lsn
         /\ RecordEnd(lsn) <= MaxLsn + 1
         /\ RecordEnd(lsn) \in RecordEnds \/ RecordEnd(lsn) = MaxLsn + 1
         /\ \A e \in RecordEnds : e > lsn => RecordEnd(lsn) <= e
<1> DEFINE S == {e \in RecordEnds \cup {MaxLsn + 1} : e > lsn}
<1>1. S \in SUBSET Nat /\ MaxLsn + 1 \in S
  <2>1. MaxLsn \in Nat /\ lsn \in Nat /\ lsn <= MaxLsn /\ RecordEnds \subseteq Nat
    BY MaxLsnType DEF Lsns
  <2>2. MaxLsn + 1 \in Nat /\ MaxLsn + 1 > lsn
    BY <2>1
  <2>3. S \in SUBSET Nat
    BY ZenonT(60), <2>1, <2>2
  <2>4. MaxLsn + 1 \in S
    BY <2>2
  <2> QED BY <2>3, <2>4
<1>2. Min(S) \in S /\ \A x \in S : Min(S) <= x
  BY <1>1, MinNat
<1>3. RecordEnd(lsn) = Min(S)
  BY DEF RecordEnd
<1>4. lsn \in Nat /\ MaxLsn \in Nat BY MaxLsnType DEF Lsns
<1> HIDE DEF S
<1>5. RecordEnd(lsn) \in S /\ \A x \in S : RecordEnd(lsn) <= x
  BY <1>2, <1>3
<1> QED BY <1>1, <1>4, <1>5 DEF S

\* The record the startup thread is at after a step.
LEMMA NextRecordEnd ==
  ASSUME NEW n, ps'.start = n
  PROVE  RecordEnd(ps.start)' = RecordEnd(n)
BY DEF RecordEnd

-----------------------------------------------------------------------------
(* Pages *)

\* The page of an LSN and its limits.
LEMMA PageBounds ==
  \A n \in Nat : /\ PageOf(n) \in Nat
                 /\ PageOf(n) * PageSize <= n
                 /\ n < EndOf(PageOf(n))
BY WalAssumption DEF PageOf, EndOf

\* Ends of pages are distinct, and none is 0.
LEMMA EndOfType ==
  \A p, q \in Nat : /\ EndOf(p) \in Nat /\ EndOf(p) > 0
                    /\ EndOf(p) = p * PageSize + PageSize
                    /\ p * PageSize \in Nat
                    /\ p < q => EndOf(p) <= q * PageSize
                    /\ EndOf(p) = EndOf(q) => p = q
BY WalAssumption DEF EndOf

\* The page of an LSN is the one whose limits enclose it.
LEMMA PageLimits ==
  \A n, p \in Nat : /\ p * PageSize <= n => p <= PageOf(n)
                    /\ n < EndOf(p) => PageOf(n) <= p
                    /\ p < PageOf(n) => EndOf(p) <= n
BY WalAssumption DEF PageOf, EndOf

\* Later LSNs are on later pages.
LEMMA PageMono == \A a, b \in Nat : a <= b => PageOf(a) <= PageOf(b)
<1> SUFFICES ASSUME NEW a \in Nat, NEW b \in Nat, a <= b
             PROVE  PageOf(a) <= PageOf(b)
  OBVIOUS
<1>1. PageOf(a) \in Nat /\ PageOf(a) * PageSize \in Nat
  BY PageBounds, EndOfType
<1>2. PageOf(a) * PageSize <= b
  BY <1>1, PageBounds
<1> QED BY <1>1, <1>2, PageLimits

\* Every LSN of the WAL has its page.
LEMMA PagesType ==
  /\ Pages \subseteq Nat
  /\ \A n \in Nat : n <= MaxLsn => PageOf(n) \in Pages
  /\ \A p \in Nat : p * PageSize <= MaxLsn => p \in Pages
BY PageBounds, PageLimits, PageMono, MaxLsnType DEF Pages

\* Buffers that follow one another without wrapping around are distinct.
LEMMA SlotOfSum ==
  \A f, d \in Nat : SlotOf(f) + d < XLOGbuffers => SlotOf(f + d) = SlotOf(f) + d
BY WalAssumption DEF SlotOf

\* The buffer of a page.
LEMMA SlotOfType == \A p \in Nat : SlotOf(p) \in Slots
BY WalAssumption DEF SlotOf, Slots

-----------------------------------------------------------------------------
(* The contents of the file *)

\* How much of a page a WAL up to lsn fills.
LEMMA ContentValue ==
  \A lsn \in Nat, p \in Pages :
    /\ Content(lsn)[p] \in 0 .. PageSize
    /\ EndOf(p) <= lsn => Content(lsn)[p] = PageSize
    /\ lsn <= p * PageSize => Content(lsn)[p] = 0
    /\ p * PageSize <= lsn /\ lsn <= EndOf(p) => Content(lsn)[p] = lsn - p * PageSize
<1> SUFFICES ASSUME NEW lsn \in Nat, NEW p \in Pages
             PROVE  /\ Content(lsn)[p] \in 0 .. PageSize
                    /\ EndOf(p) <= lsn => Content(lsn)[p] = PageSize
                    /\ lsn <= p * PageSize => Content(lsn)[p] = 0
                    /\ p * PageSize <= lsn /\ lsn <= EndOf(p)
                         => Content(lsn)[p] = lsn - p * PageSize
  OBVIOUS
<1>1. PICK b \in Nat : b = p * PageSize
  BY EndOfType, PagesType
<1>2. EndOf(p) = b + PageSize /\ PageSize \in Nat /\ PageSize > 0
  BY <1>1, EndOfType, PagesType, WalAssumption
<1>3. Content(lsn)[p] = IF lsn >= EndOf(p) THEN PageSize
                        ELSE IF lsn <= p * PageSize THEN 0 ELSE lsn - p * PageSize
  BY DEF Content
<1>4. Content(lsn)[p] = IF lsn >= b + PageSize THEN PageSize
                        ELSE IF lsn <= b THEN 0 ELSE lsn - b
  BY <1>1, <1>2, <1>3
<1> QED BY <1>1, <1>2, <1>4

\* A longer WAL fills no page less.
LEMMA ContentMono ==
  \A a, b \in Nat, p \in Pages : a <= b => Content(a)[p] <= Content(b)[p]
<1> SUFFICES ASSUME NEW a \in Nat, NEW b \in Nat, NEW p \in Pages, a <= b
             PROVE  Content(a)[p] <= Content(b)[p]
  OBVIOUS
<1>1. PICK c \in Nat : c = p * PageSize /\ EndOf(p) = c + PageSize
  BY EndOfType, PagesType
<1>2. PageSize \in Nat BY WalAssumption
<1>3. CASE a <= c
  BY <1>1, <1>2, <1>3, ContentValue
<1>4. CASE c <= a /\ a <= c + PageSize /\ b <= c + PageSize
  BY <1>1, <1>2, <1>4, ContentValue
<1>5. CASE c + PageSize <= b
  BY <1>1, <1>2, <1>5, ContentValue
<1> QED BY <1>1, <1>2, <1>3, <1>4, <1>5

\* Content is a function from pages to their filling.
LEMMA ContentType ==
  ASSUME NEW lsn \in Nat
  PROVE  Content(lsn) \in [Pages -> 0 .. PageSize]
<1>1. Content(lsn) = [p \in Pages |-> Content(lsn)[p]]
  BY DEF Content
<1> QED BY <1>1, ContentValue

\* The file holds the WAL up to lsn if it holds the pages in front of page q
\* and the part of q in front of lsn.
LEMMA StoredUpTo ==
  ASSUME disk \in [Pages -> 0 .. PageSize], NEW lsn \in Nat, NEW q \in Pages,
         \A p \in Pages : p < q => disk[p] = PageSize,
         lsn <= EndOf(q), lsn - q * PageSize <= disk[q]
  PROVE  Stored(lsn)
<1> SUFFICES ASSUME NEW p \in Pages
             PROVE  Content(lsn)[p] <= disk[p]
  BY DEF Stored
<1>1. p \in Nat /\ q \in Nat /\ PageSize \in Nat /\ disk[p] \in 0 .. PageSize
  BY PagesType, WalAssumption
<1>2. Content(lsn)[p] \in 0 .. PageSize
  BY ContentValue
<1>3. CASE p < q
  <2>1. disk[p] = PageSize BY <1>3
  <2> QED BY <1>1, <1>2, <2>1
<1>4. CASE p = q
  <2>1. PICK b \in Nat : b = q * PageSize
    BY <1>1, EndOfType
  <2>2. CASE lsn <= b
    BY <1>1, <1>4, <2>1, <2>2, ContentValue
  <2>3. CASE b <= lsn
    BY <1>4, <2>1, <2>3, ContentValue
  <2> QED BY <2>1, <2>2, <2>3
<1>5. CASE q < p
  <2>1. lsn <= p * PageSize /\ p * PageSize \in Nat
    <3>1. EndOf(q) <= p * PageSize /\ EndOf(q) \in Nat /\ p * PageSize \in Nat
      BY <1>1, <1>5, EndOfType
    <3> QED BY <3>1
  <2>2. Content(lsn)[p] = 0
    BY <2>1, ContentValue
  <2> QED BY <1>1, <2>2
<1> QED BY <1>1, <1>3, <1>4, <1>5

\* Conversely, the pages in front of the one lsn lies in are full.
LEMMA StoredBelow ==
  ASSUME disk \in [Pages -> 0 .. PageSize], NEW lsn \in Nat, Stored(lsn),
         NEW p \in Pages, p < PageOf(lsn)
  PROVE  disk[p] = PageSize
<1>1. EndOf(p) <= lsn
  BY PagesType, PageLimits
<1>2. Content(lsn)[p] = PageSize
  BY <1>1, ContentValue
<1>3. PageSize <= disk[p] /\ disk[p] \in 0 .. PageSize
  BY <1>2 DEF Stored
<1> QED BY <1>3, WalAssumption

\* What the file holds it keeps holding as long as it only grows.
LEMMA StoredGrows ==
  ASSUME disk \in [Pages -> 0 .. PageSize], disk' \in [Pages -> 0 .. PageSize],
         \A p \in Pages : disk[p] <= disk'[p],
         NEW lsn \in Nat, Stored(lsn)
  PROVE  Stored(lsn)'
<1> SUFFICES ASSUME NEW p \in Pages
             PROVE  Content(lsn)[p] <= disk'[p]
  BY DEF Stored, Content
<1>1. Content(lsn)[p] <= disk[p] /\ disk[p] <= disk'[p]
  BY DEF Stored
<1>2. Content(lsn)[p] \in 0 .. PageSize /\ disk[p] \in 0 .. PageSize
        /\ disk'[p] \in 0 .. PageSize
  BY ContentValue
<1>3. PageSize \in Nat BY WalAssumption
<1> QED BY <1>1, <1>2, <1>3

\* Nothing beyond the last record is ever in the file.
LEMMA StoredAtMost ==
  ASSUME DiskInv, LocalsInv, NEW lsn \in Nat, Stored(lsn), lsn <= MaxLsn + 1
  PROVE  lsn <= MaxLsn
<1> SUFFICES ASSUME lsn = MaxLsn + 1 PROVE FALSE
  BY MaxLsnType
<1>1. PICK l \in 0 .. wr.lsn : disk = Content(l)
  BY DEF DiskInv
<1>2. l \in Nat /\ l <= MaxLsn /\ MaxLsn \in Nat
  BY <1>1, MaxLsnType DEF LocalsInv, Lsns
<1>3. PICK q \in Pages : q = PageOf(MaxLsn)
  <2>1. MaxLsn \in Nat /\ MaxLsn <= MaxLsn
    BY <1>2
  <2>2. PageOf(MaxLsn) \in Pages
    BY <2>1, PagesType
  <2> QED BY <2>2
<1>4. PICK b \in Nat : b = q * PageSize /\ EndOf(q) = b + PageSize
  BY EndOfType, PagesType
<1>5. b <= MaxLsn /\ MaxLsn < b + PageSize /\ PageSize \in Nat
  BY <1>2, <1>3, <1>4, PageBounds, WalAssumption
<1>6. Content(lsn)[q] = MaxLsn + 1 - b /\ Content(MaxLsn)[q] = MaxLsn - b
  BY <1>2, <1>4, <1>5, ContentValue
<1>7. Content(l)[q] <= Content(MaxLsn)[q] /\ Content(lsn)[q] <= Content(l)[q]
        /\ Content(l)[q] \in 0 .. PageSize
  BY <1>1, <1>2, ContentMono, ContentValue DEF Stored
<1> QED BY <1>2, <1>4, <1>5, <1>6, <1>7

-----------------------------------------------------------------------------
(* Frames: what a step of the one side leaves to the other *)

\* The startup thread and the waiting threads leave what RpcXLogWrite writes
\* alone.
LEMMA WriterFrame ==
  ASSUME IngestInv, UNCHANGED walVars
  PROVE  DiskInv' /\ WriterInv' /\ BufferInv'
<1>1. DiskInv /\ WriterInv /\ BufferInv
  BY DEF IngestInv
<1>2. /\ disk' = disk /\ RpcXlblocks' = RpcXlblocks /\ RpcXLogPages' = RpcXLogPages
      /\ lockedSlots' = lockedSlots /\ RpcXLogFlushedLsn' = RpcXLogFlushedLsn
      /\ wr' = wr
  BY DEF walVars
<1>3. DiskInv'
  BY <1>1, <1>2 DEF DiskInv
<1>4. Written' = Written /\ (Writing <=> Writing') /\ Complete' = Complete
  BY <1>2 DEF Written, Writing, Complete
<1>5. WriterInv'
  BY <1>1, <1>2, <1>4 DEF WriterInv
<1>6. BufferInv'
  BY <1>1, <1>2, <1>4 DEF BufferInv
<1> QED BY <1>3, <1>5, <1>6

\* To the startup thread RpcXLogWrite only adds to the file, advances
\* RpcXLogFlushedLsn and locks buffers other than the one it has locked.
LEMMA ParserFrame ==
  ASSUME IngestInv, UNCHANGED parseVars,
         disk' \in [Pages -> 0 .. PageSize],
         \A p \in Pages : disk[p] <= disk'[p],
         RpcXLogFlushedLsn' \in Lsns, RpcXLogFlushedLsn <= RpcXLogFlushedLsn',
         ps.pc = "copy" => slotRead \notin lockedSlots'
  PROVE  ParserInv' /\ FullPageComplete' /\ ParsedIsIndexed'
<1> USE DEF IngestInv
<1>1. /\ slotRead' = slotRead /\ XLogParseUpto' = XLogParseUpto /\ ps' = ps
      /\ indexed' = indexed
  BY DEF parseVars
<1>2. /\ disk \in [Pages -> 0 .. PageSize] /\ PageSize \in Nat
      /\ ps.start \in Lsns /\ ps.start \in Nat /\ ps.page \in Pages
      /\ ps.image \in 0 .. PageSize
      /\ indexed \subseteq RecordEnds /\ RecordEnds \subseteq Nat
  BY WalAssumption, MaxLsnType DEF WalTypeOK, LocalsInv, Lsns
<1>3. Stored(ps.start)'
  <2>1. PICK n \in Nat : n = ps.start
    BY <1>2
  <2>2. Stored(n)'
    BY <1>2, <2>1, StoredGrows DEF ParserInv
  <2> QED BY <1>1, <2>1, <2>2 DEF Stored
<1>4. \A p \in Pages : p < ps'.page => disk'[p] = PageSize
  <2> SUFFICES ASSUME NEW p \in Pages, p < ps.page
               PROVE  disk'[p] = PageSize
    BY <1>1
  <2>1. disk[p] = PageSize /\ disk'[p] \in 0 .. PageSize /\ disk[p] <= disk'[p]
    BY DEF ParserInv
  <2> QED BY <1>2, <2>1
<1>5. ps'.pc = "validate" => ps'.image <= disk'[ps'.page]
  <2> SUFFICES ASSUME ps.pc = "validate"
               PROVE  ps.image <= disk'[ps.page]
    BY <1>1
  <2>1. ps.image <= disk[ps.page] /\ disk[ps.page] <= disk'[ps.page]
        /\ disk[ps.page] \in 0 .. PageSize /\ disk'[ps.page] \in 0 .. PageSize
    BY <1>2 DEF ParserInv
  <2> QED BY <1>2, <2>1
<1>6. ps'.pc \in {"lock", "copy"} /\ ps'.source = "rpc" /\ ps'.readLen = PageSize
       => ps'.page < PageOf(RpcXLogFlushedLsn')
  <2>1. RpcXLogFlushedLsn \in Nat /\ RpcXLogFlushedLsn' \in Nat
    BY MaxLsnType DEF WalTypeOK, Lsns
  <2>2. PageOf(RpcXLogFlushedLsn) \in Nat /\ PageOf(RpcXLogFlushedLsn') \in Nat
        /\ PageOf(RpcXLogFlushedLsn) <= PageOf(RpcXLogFlushedLsn')
    BY <2>1, PageBounds, PageMono
  <2>3. ps.page \in Nat BY ZenonT(60), <1>2, PagesType
  <2> QED BY <1>1, <2>2, <2>3 DEF ParserInv
<1>7. ps'.pc \in {"index", "advance"}
        => RecordEnd(ps'.start) \in RecordEnds /\ Stored(RecordEnd(ps.start))'
  <2> SUFFICES ASSUME ps.pc \in {"index", "advance"}
               PROVE  RecordEnd(ps.start) \in RecordEnds /\ Stored(RecordEnd(ps.start))'
    BY <1>1
  <2>1. PICK e \in RecordEnds : e = RecordEnd(ps.start) /\ Stored(e)
    BY DEF ParserInv
  <2>2. Stored(e)'
    BY <1>2, <2>1, StoredGrows
  <2>3. RecordEnd(ps.start)' = RecordEnd(ps.start)
    BY <1>1 DEF RecordEnd
  <2> QED BY <1>1, <2>1, <2>2, <2>3 DEF Stored
<1>8. \A e \in indexed' : Stored(e)'
  BY <1>1, <1>2, StoredGrows DEF ParserInv
<1>9. ParserInv'
  <2>1. RecordEnd(ps.start)' = RecordEnd(ps.start)
    BY <1>1 DEF RecordEnd
  <2> QED BY <1>1, <1>3, <1>4, <1>5, <1>6, <1>7, <1>8, <2>1 DEF ParserInv
<1>10. FullPageComplete' /\ ParsedIsIndexed'
  BY <1>1 DEF FullPageComplete, ParsedIsIndexed
<1> QED BY <1>9, <1>10

-----------------------------------------------------------------------------
(* RpcXLogWrite *)

\* A new write: its pages have buffers of their own, as it does not wrap
\* around the ring.
LEMMA XLogWritePreserves ==
  ASSUME IngestInv, NEW lsn \in Lsns, XLogWrite(lsn)
  PROVE  IngestInv'
<1> USE DEF IngestInv
<1>1. /\ wr.pc = "idle" /\ lsn > wr.lsn
      /\ SlotOf(PageOf(wr.lsn)) + (PageOf(lsn - 1) - PageOf(wr.lsn)) < XLOGbuffers
      /\ wr' = [pc |-> "pwrite", lsn |-> lsn, first |-> PageOf(wr.lsn)]
      /\ UNCHANGED <<disk, RpcXlblocks, RpcXLogPages, lockedSlots, RpcXLogFlushedLsn>>
      /\ UNCHANGED parseVars
  BY DEF XLogWrite
<1>2. PICK old \in Nat : /\ old = wr.lsn /\ lsn \in Nat /\ lsn <= MaxLsn /\ old < lsn
                         /\ lsn - 1 \in Nat
  BY <1>1, MaxLsnType DEF LocalsInv, Lsns
<1>3. PICK f \in Pages : f = PageOf(old) /\ f \in Nat
  <2>1. old <= MaxLsn
    BY <1>2, MaxLsnType
  <2>2. PageOf(old) \in Pages
    BY <2>1, PagesType
  <2> QED BY ZenonT(60), <2>2, PagesType
<1>4. wr'.pc = "pwrite" /\ wr'.lsn = lsn /\ wr'.first = f
  BY <1>1, <1>2, <1>3
<1>5. LocalsInv'
  BY <1>1, <1>2, <1>3 DEF LocalsInv, parseVars
<1>6. WalTypeOK'
  BY <1>1 DEF WalTypeOK, parseVars
<1>7. DiskInv'
  <2>1. disk = Content(old)
    BY <1>1, <1>2 DEF DiskInv
  <2>2. old \in 0 .. lsn
    BY <1>2
  <2>3. disk' = Content(old)
    BY <1>1, <2>1
  <2> QED BY <1>3, <1>4, <2>2, <2>3 DEF DiskInv, Content
<1>8. Complete = f /\ Complete' = f
  BY <1>1, <1>2, <1>3, <1>4 DEF Complete, Writing
<1>9. WriterInv'
  <2>1. RpcXLogFlushedLsn' <= wr'.lsn
    BY <1>1, <1>2, <1>4, MaxLsnType DEF WriterInv, WalTypeOK, Lsns
  <2>2. PageOf(RpcXLogFlushedLsn') <= Complete'
    BY <1>1, <1>8 DEF WriterInv
  <2>3. lockedSlots' = {}
    BY <1>1 DEF WriterInv
  <2>4. ASSUME NEW p \in Written', NEW q \in Written', SlotOf(p) = SlotOf(q)
        PROVE  p = q
    <3>1. \A x \in Written' : x \in Nat /\ f <= x /\ x <= PageOf(lsn - 1)
      <4> SUFFICES ASSUME NEW x \in Written'
                   PROVE  x \in Nat /\ f <= x /\ x <= PageOf(lsn - 1)
        OBVIOUS
      <4>1. x \in Pages /\ f <= x /\ x * PageSize < lsn
        BY <1>4 DEF Written
      <4>2. x \in Nat /\ x * PageSize \in Nat
        BY <4>1, PagesType, EndOfType
      <4>3. x * PageSize <= lsn - 1
        BY <1>2, <4>1, <4>2
      <4> QED BY <1>2, <4>1, <4>2, <4>3, PageLimits
    <3>2. PICK l \in Nat : l = PageOf(lsn - 1)
      BY <1>2, PageBounds
    <3>3. PICK b \in Nat : b = SlotOf(f)
      BY <1>3, SlotOfType DEF Slots
    <3>4. \A x \in Written' : SlotOf(x) = b + (x - f)
      <4> SUFFICES ASSUME NEW x \in Written'
                   PROVE  SlotOf(x) = b + (x - f)
        OBVIOUS
      <4>1. PICK d \in Nat : x = f + d /\ d <= l - f
        <5>1. x \in Nat /\ f <= x /\ x <= l
          BY <3>1, <3>2
        <5>2. x - f \in Nat /\ x = f + (x - f) /\ x - f <= l - f
          BY <5>1, <1>3, <3>2
        <5> QED BY <5>2
      <4>2. SlotOf(f) + d < XLOGbuffers
        BY <1>1, <1>2, <1>3, <3>2, <3>3, <4>1, WalAssumption
      <4>3. SlotOf(f + d) = SlotOf(f) + d
        BY <1>3, <4>2, SlotOfSum
      <4> QED BY <1>3, <3>3, <4>1, <4>3
    <3> QED BY <1>3, <2>4, <3>1, <3>3, <3>4
  <2>5. wr'.first <= PageOf(wr'.lsn)
    BY <1>2, <1>3, <1>4, PageMono
  <2> QED BY <1>4, <2>1, <2>2, <2>3, <2>4, <2>5 DEF WriterInv
<1>10. BufferInv'
  BY <1>1, <1>8 DEF BufferInv
<1>11. ParserInv' /\ FullPageComplete' /\ ParsedIsIndexed'
  <2>1. disk' = disk /\ disk \in [Pages -> 0 .. PageSize]
    BY <1>1 DEF WalTypeOK
  <2>2. \A p \in Pages : disk[p] <= disk'[p]
    BY <2>1, WalAssumption
  <2>3. RpcXLogFlushedLsn' \in Lsns /\ RpcXLogFlushedLsn <= RpcXLogFlushedLsn'
    BY <1>1, MaxLsnType DEF WalTypeOK, Lsns
  <2>4. ps.pc = "copy" => slotRead \notin lockedSlots'
    BY <1>1 DEF ParserInv
  <2> QED BY <1>1, <2>1, <2>2, <2>3, <2>4, ParserFrame
<1> QED BY <1>5, <1>6, <1>7, <1>9, <1>10, <1>11

\* The file is written: it then holds the WAL up to wr.lsn.
LEMMA PwritePreserves ==
  ASSUME IngestInv, Pwrite
  PROVE  IngestInv'
<1> USE DEF IngestInv
<1>1. /\ wr.pc = "pwrite"
      /\ disk' = [p \in Pages |-> IF p \in Written THEN Content(wr.lsn)[p] ELSE disk[p]]
      /\ wr' = [wr EXCEPT !.pc = "lock"]
      /\ UNCHANGED <<RpcXlblocks, RpcXLogPages, lockedSlots, RpcXLogFlushedLsn>>
      /\ UNCHANGED parseVars
  BY DEF Pwrite
<1>2. PICK lsn \in Nat : lsn = wr.lsn /\ lsn <= MaxLsn
  BY MaxLsnType DEF LocalsInv, Lsns
<1>3. PICK old \in Nat : old <= lsn /\ disk = Content(old) /\ PageOf(old) = wr.first
  BY <1>1, <1>2 DEF DiskInv
<1>4. wr'.pc = "lock" /\ wr'.lsn = lsn /\ wr'.first = wr.first
  BY <1>1, <1>2 DEF LocalsInv
<1>5. \A p \in Pages : disk'[p] = Content(lsn)[p]
  <2> SUFFICES ASSUME NEW p \in Pages, p \notin Written
               PROVE  disk[p] = Content(lsn)[p]
    BY <1>1, <1>2
  <2>1. p \in Nat /\ p * PageSize \in Nat /\ EndOf(p) \in Nat
    BY PagesType, EndOfType
  <2>2. CASE p < wr.first
    <3>1. EndOf(p) <= old /\ EndOf(p) <= lsn
      BY <1>3, <2>1, <2>2, PageLimits
    <3> QED BY <1>3, <3>1, ContentValue
  <2>3. CASE ~ (p < wr.first)
    <3>1. wr.first \in Nat
      BY ZenonT(60), PagesType DEF LocalsInv
    <3>2. lsn <= p * PageSize
      BY <1>2, <2>1, <2>3, <3>1 DEF Written
    <3>3. old <= p * PageSize
      BY <1>3, <2>1, <3>2
    <3> QED BY <1>3, <3>2, <3>3, ContentValue
  <2> QED BY <2>2, <2>3
<1>6. disk' = Content(lsn) /\ disk' \in [Pages -> 0 .. PageSize]
  <2>1. disk' = [p \in Pages |-> disk'[p]]
    BY <1>1
  <2>2. Content(lsn) = [p \in Pages |-> Content(lsn)[p]]
    BY DEF Content
  <2> QED BY <1>5, <2>1, <2>2, ContentType
<1>7. \A p \in Pages : disk[p] <= disk'[p]
  BY <1>3, <1>5, ContentMono
<1>8. LocalsInv' /\ WalTypeOK'
  <2>1. LocalsInv'
    BY <1>1 DEF LocalsInv, parseVars
  <2>2. WalTypeOK'
    BY <1>1, <1>6 DEF WalTypeOK, parseVars
  <2> QED BY <2>1, <2>2
<1>9. DiskInv'
  BY <1>2, <1>4, <1>6 DEF DiskInv, Content
<1>10. Written' = Written /\ Complete' = Complete /\ Writing /\ Writing'
  BY <1>1, <1>2, <1>4 DEF Written, Complete, Writing
<1>11. WriterInv'
  BY <1>1, <1>2, <1>4, <1>10 DEF WriterInv
<1>12. BufferInv'
  <2> SUFFICES ASSUME NEW s \in Slots, NEW p \in Pages, RpcXlblocks[s] = EndOf(p)
               PROVE  /\ s = SlotOf(p)
                      /\ s \notin lockedSlots => RpcXLogPages[s] <= disk'[p]
                      /\ p < Complete => RpcXLogPages[s] = PageSize
    BY <1>1, <1>10 DEF BufferInv
  <2>1. /\ s = SlotOf(p)
        /\ s \notin lockedSlots => RpcXLogPages[s] <= disk[p]
        /\ p < Complete => RpcXLogPages[s] = PageSize
    BY DEF BufferInv
  <2>2. disk[p] <= disk'[p] /\ disk[p] \in 0 .. PageSize /\ disk'[p] \in 0 .. PageSize
        /\ RpcXLogPages[s] \in 0 .. PageSize /\ PageSize \in Nat
    BY <1>6, <1>7, WalAssumption DEF WalTypeOK
  <2> QED BY <2>1, <2>2
<1>13. ParserInv' /\ FullPageComplete' /\ ParsedIsIndexed'
  <2>1. RpcXLogFlushedLsn' \in Lsns /\ RpcXLogFlushedLsn <= RpcXLogFlushedLsn'
    BY <1>1, MaxLsnType DEF WalTypeOK, Lsns
  <2>2. ps.pc = "copy" => slotRead \notin lockedSlots'
    BY <1>1 DEF ParserInv
  <2> QED BY <1>1, <1>6, <1>7, <2>1, <2>2, ParserFrame
<1> QED BY <1>8, <1>9, <1>11, <1>12, <1>13

\* One more buffer is locked and labelled.  The startup thread is not reading
\* it, and its page is not among the complete ones.
LEMMA LockSlotPreserves ==
  ASSUME IngestInv, LockSlot
  PROVE  IngestInv'
<1> USE DEF IngestInv
<1> DEFINE todo == {q \in Written : SlotOf(q) \notin lockedSlots}
<1>1. /\ wr.pc = "lock" /\ todo # {}
      /\ slotRead # SlotOf(Min(todo))
      /\ lockedSlots' = lockedSlots \cup {SlotOf(Min(todo))}
      /\ RpcXlblocks' = [RpcXlblocks EXCEPT ![SlotOf(Min(todo))] = EndOf(Min(todo))]
      /\ wr' = [wr EXCEPT !.pc = IF todo = {Min(todo)} THEN "copy" ELSE "lock"]
      /\ UNCHANGED <<disk, RpcXLogPages, RpcXLogFlushedLsn>>
      /\ UNCHANGED parseVars
  BY DEF LockSlot
<1>2. Written \subseteq Pages /\ Written \subseteq Nat
  BY ZenonT(60), PagesType DEF Written
<1>3. Min(todo) \in todo
  <2>1. todo \in SUBSET Nat
    BY ZenonT(60), <1>2
  <2> HIDE DEF todo
  <2> QED BY <1>1, <2>1, MinNat
<1>4. PICK p \in Written : /\ p = Min(todo) /\ SlotOf(p) \notin lockedSlots
                           /\ p \in Pages /\ p \in Nat
  BY ZenonT(60), <1>2, <1>3
<1>5. PICK z \in Slots : z = SlotOf(p)
  BY <1>4, SlotOfType
<1>6. /\ lockedSlots' = lockedSlots \cup {z}
      /\ RpcXlblocks' = [RpcXlblocks EXCEPT ![z] = EndOf(p)]
      /\ slotRead # z /\ z \notin lockedSlots
  BY <1>1, <1>4, <1>5
<1>7. /\ wr'.pc \in {"lock", "copy"} /\ wr'.lsn = wr.lsn /\ wr'.first = wr.first
      /\ wr'.pc = "copy" => todo = {p}
  BY <1>1, <1>4 DEF LocalsInv
<1>8. Written' = Written /\ Complete' = Complete /\ Complete = wr.first /\ Writing /\ Writing'
  BY <1>1, <1>7 DEF Written, Complete, Writing
<1>9. LocalsInv'
  BY <1>1 DEF LocalsInv, parseVars
<1>10. WalTypeOK'
  <2>1. EndOf(p) \in 0 .. EndOf(PageOf(MaxLsn))
    <3>1. PICK m \in Nat : m = PageOf(MaxLsn) /\ p <= m
      <4>1. PageOf(MaxLsn) \in Nat
        BY MaxLsnType, PageBounds
      <4>2. p \in 0 .. PageOf(MaxLsn)
        BY <1>4 DEF Pages
      <4> QED BY <4>1, <4>2
    <3>2. EndOf(p) \in Nat /\ EndOf(m) \in Nat /\ (p < m => EndOf(p) <= m * PageSize)
          /\ EndOf(m) = m * PageSize + PageSize /\ m * PageSize \in Nat
      BY <1>4, <3>1, EndOfType
    <3>3. CASE p = m BY <3>1, <3>2, <3>3
    <3>4. CASE p < m BY <3>1, <3>2, <3>4, WalAssumption
    <3> QED BY <1>4, <3>1, <3>3, <3>4
  <2>2. RpcXlblocks' \in [Slots -> 0 .. EndOf(PageOf(MaxLsn))]
    BY <1>6, <2>1 DEF WalTypeOK
  <2>3. lockedSlots' \subseteq Slots
    BY <1>6 DEF WalTypeOK
  <2> QED BY <1>1, <2>2, <2>3 DEF WalTypeOK, parseVars
<1>11. DiskInv'
  BY <1>1, <1>7 DEF DiskInv
<1>12. \A q \in Written : SlotOf(q) = z => q = p
  BY <1>4, <1>5, <1>8 DEF WriterInv
<1>13. RpcXlblocks \in [Slots -> Nat]
  <2>1. EndOf(PageOf(MaxLsn)) \in Nat
    BY MaxLsnType, PageBounds, EndOfType
  <2> QED BY <2>1 DEF WalTypeOK
<1>14. WriterInv'
  <2>1. RpcXLogFlushedLsn' <= wr'.lsn /\ PageOf(RpcXLogFlushedLsn') <= Complete'
    BY <1>1, <1>7, <1>8 DEF WriterInv
  <2>2. lockedSlots' \subseteq {SlotOf(q) : q \in Written'}
    BY <1>4, <1>5, <1>6, <1>8 DEF WriterInv
  <2>3. ASSUME NEW q \in Written', SlotOf(q) \in lockedSlots'
        PROVE  RpcXlblocks'[SlotOf(q)] = EndOf(q)
    <3>1. CASE SlotOf(q) = z
      BY <1>6, <1>8, <1>12, <1>13, <3>1
    <3>2. CASE SlotOf(q) # z
      <4>1. SlotOf(q) \in Slots
        BY <1>2, <1>8, SlotOfType
      <4>2. RpcXlblocks'[SlotOf(q)] = RpcXlblocks[SlotOf(q)]
        BY <1>6, <1>13, <3>2, <4>1
      <4>3. RpcXlblocks[SlotOf(q)] = EndOf(q)
        BY <1>6, <1>8, <2>3, <3>2 DEF WriterInv
      <4> QED BY <4>2, <4>3
    <3> QED BY <3>1, <3>2
  <2>4. wr'.pc = "copy" => \A q \in Written' : SlotOf(q) \in lockedSlots'
    BY <1>5, <1>6, <1>7, <1>8
  <2>5. Writing' => \A x, y \in Written' : SlotOf(x) = SlotOf(y) => x = y
    BY <1>8 DEF WriterInv
  <2>6. wr'.first <= PageOf(wr'.lsn)
    BY <1>7, <1>8 DEF WriterInv
  <2> QED BY <1>7, <2>1, <2>2, <2>3, <2>4, <2>5, <2>6 DEF WriterInv
<1>15. BufferInv'
  <2> SUFFICES ASSUME NEW s \in Slots, NEW q \in Pages, RpcXlblocks'[s] = EndOf(q)
               PROVE  /\ s = SlotOf(q)
                      /\ s \notin lockedSlots' => RpcXLogPages[s] <= disk[q]
                      /\ q < Complete => RpcXLogPages[s] = PageSize
    BY <1>1, <1>8 DEF BufferInv
  <2>1. CASE s = z
    <3>1. EndOf(q) = EndOf(p) /\ q \in Nat
      BY <1>6, <1>13, <2>1, PagesType
    <3>2. q = p
      BY <1>4, <3>1, EndOfType
    <3>3. ~ (p < Complete)
      <4>1. wr.first <= p /\ wr.first \in Nat
        BY ZenonT(60), <1>4, PagesType DEF Written, LocalsInv
      <4> QED BY <1>4, <1>8, <4>1
    <3> QED BY <1>5, <1>6, <2>1, <3>2, <3>3
  <2>2. CASE s # z
    <3>1. RpcXlblocks[s] = EndOf(q)
      BY <1>6, <1>13, <2>2
    <3> QED BY <1>6, <2>2, <3>1 DEF BufferInv
  <2> QED BY <2>1, <2>2
<1>16. ParserInv' /\ FullPageComplete' /\ ParsedIsIndexed'
  <2>1. disk' = disk /\ disk \in [Pages -> 0 .. PageSize]
    BY <1>1 DEF WalTypeOK
  <2>2. \A q \in Pages : disk[q] <= disk'[q]
    BY <2>1, WalAssumption
  <2>3. RpcXLogFlushedLsn' \in Lsns /\ RpcXLogFlushedLsn <= RpcXLogFlushedLsn'
    BY <1>1, MaxLsnType DEF WalTypeOK, Lsns
  <2>4. ps.pc = "copy" => slotRead \notin lockedSlots'
    BY <1>6 DEF ParserInv
  <2> QED BY <1>1, <2>1, <2>2, <2>3, <2>4, ParserFrame
<1> QED BY <1>9, <1>10, <1>11, <1>14, <1>15, <1>16

\* The pages are copied and all buffers unlocked.  A buffer that has not been
\* written is labelled with a page in front of the write or with none of it.
LEMMA CopyPagesPreserves ==
  ASSUME IngestInv, CopyPages
  PROVE  IngestInv'
<1> USE DEF IngestInv
<1>1. /\ wr.pc = "copy"
      /\ RpcXLogPages' = [s \in Slots |->
           IF \E p \in Written : SlotOf(p) = s
             THEN Content(wr.lsn)[CHOOSE p \in Written : SlotOf(p) = s]
             ELSE RpcXLogPages[s]]
      /\ lockedSlots' = {}
      /\ wr' = [wr EXCEPT !.pc = "publish"]
      /\ UNCHANGED <<disk, RpcXlblocks, RpcXLogFlushedLsn>>
      /\ UNCHANGED parseVars
  BY DEF CopyPages
<1>2. PICK lsn \in Nat : lsn = wr.lsn /\ lsn \in Lsns
  BY MaxLsnType DEF LocalsInv, Lsns
<1>3. wr'.pc = "publish" /\ wr'.lsn = lsn /\ wr'.first = wr.first
  BY <1>1, <1>2 DEF LocalsInv
<1>4. Written \subseteq Pages /\ Written \subseteq Nat
  BY ZenonT(60), PagesType DEF Written
<1>5. \A p, q \in Written : SlotOf(p) = SlotOf(q) => p = q
  BY <1>1 DEF WriterInv, Writing
<1>6. \A p \in Written : /\ SlotOf(p) \in lockedSlots
                         /\ RpcXlblocks[SlotOf(p)] = EndOf(p)
  BY <1>1 DEF WriterInv
<1>7. \A p \in Written : RpcXLogPages'[SlotOf(p)] = Content(lsn)[p]
  <2> SUFFICES ASSUME NEW p \in Written
               PROVE  RpcXLogPages'[SlotOf(p)] = Content(lsn)[p]
    OBVIOUS
  <2>1. SlotOf(p) \in Slots
    BY <1>4, SlotOfType
  <2>2. (CHOOSE q \in Written : SlotOf(q) = SlotOf(p)) = p
    BY <1>5
  <2> QED BY <1>1, <1>2, <2>1, <2>2
<1>8. \A s \in Slots : (\A p \in Written : SlotOf(p) # s) => RpcXLogPages'[s] = RpcXLogPages[s]
  BY <1>1
<1>9. LocalsInv'
  BY <1>1 DEF LocalsInv, parseVars
<1>10. WalTypeOK'
  <2>1. \A s \in Slots : RpcXLogPages'[s] \in 0 .. PageSize
    <3> SUFFICES ASSUME NEW s \in Slots
                 PROVE  RpcXLogPages'[s] \in 0 .. PageSize
      OBVIOUS
    <3>1. CASE \A p \in Written : SlotOf(p) # s
      BY <1>8, <3>1 DEF WalTypeOK
    <3>2. CASE \E p \in Written : SlotOf(p) = s
      BY <1>4, <1>7, <3>2, ContentValue
    <3> QED BY <3>1, <3>2
  <2>2. RpcXLogPages' = [s \in Slots |-> RpcXLogPages'[s]]
    BY <1>1
  <2>3. RpcXLogPages' \in [Slots -> 0 .. PageSize]
    BY <2>1, <2>2
  <2> QED BY <1>1, <2>3 DEF WalTypeOK, parseVars
<1>11. disk = Content(lsn) /\ DiskInv'
  BY <1>1, <1>2, <1>3 DEF DiskInv
<1>12. Complete = wr.first /\ Complete' = PageOf(lsn) /\ ~ Writing'
  BY <1>1, <1>3 DEF Complete, Writing
<1>13. WriterInv'
  <2>1. RpcXLogFlushedLsn \in Nat /\ RpcXLogFlushedLsn <= lsn
    BY <1>2, MaxLsnType DEF WriterInv, WalTypeOK, Lsns
  <2>2. PageOf(RpcXLogFlushedLsn) <= PageOf(lsn)
    BY <2>1, PageMono
  <2> QED BY <1>1, <1>3, <1>12, <2>1, <2>2 DEF WriterInv
<1>14. BufferInv'
  <2> SUFFICES ASSUME NEW s \in Slots, NEW q \in Pages, RpcXlblocks[s] = EndOf(q)
               PROVE  /\ s = SlotOf(q)
                      /\ RpcXLogPages'[s] <= disk[q]
                      /\ q < PageOf(lsn) => RpcXLogPages'[s] = PageSize
    BY <1>1, <1>12 DEF BufferInv
  <2>1. /\ s = SlotOf(q)
        /\ s \notin lockedSlots => RpcXLogPages[s] <= disk[q]
        /\ q < wr.first => RpcXLogPages[s] = PageSize
    BY <1>12 DEF BufferInv
  <2>2. /\ q \in Nat /\ q * PageSize \in Nat /\ EndOf(q) \in Nat
        /\ EndOf(q) = q * PageSize + PageSize /\ PageSize \in Nat /\ PageSize > 0
    BY PagesType, EndOfType, WalAssumption
  <2>3. q < PageOf(lsn) => EndOf(q) <= lsn
    BY <2>2, PageLimits
  <2>4. CASE q \in Written
    <3>1. RpcXLogPages'[s] = Content(lsn)[q]
      BY <1>7, <2>1, <2>4
    <3>2. Content(lsn)[q] <= disk[q]
      BY <1>11, ContentValue, WalAssumption
    <3>3. q < PageOf(lsn) => Content(lsn)[q] = PageSize
      BY <2>3, ContentValue
    <3> QED BY <2>1, <3>1, <3>2, <3>3
  <2>5. CASE q \notin Written
    <3>1. \A p \in Written : SlotOf(p) # s
      <4> SUFFICES ASSUME NEW p \in Written, SlotOf(p) = s
                   PROVE  FALSE
        OBVIOUS
      <4>1. EndOf(p) = EndOf(q)
        BY <1>6
      <4>2. p = q
        BY <1>4, <2>2, <4>1, EndOfType
      <4> QED BY <2>5, <4>2
    <3>2. RpcXLogPages'[s] = RpcXLogPages[s]
      BY <1>8, <3>1
    <3>3. s \notin lockedSlots
      BY <3>1 DEF WriterInv
    <3>4. q < PageOf(lsn) => q < wr.first
      <4>1. wr.first \in Nat
        BY ZenonT(60), PagesType DEF LocalsInv
      <4>2. q < PageOf(lsn) => q * PageSize < lsn
        BY <2>2, <2>3
      <4>3. ~ (wr.first <= q /\ q * PageSize < lsn)
        BY <1>2, <2>5 DEF Written
      <4> QED BY <2>2, <4>1, <4>2, <4>3
    <3> QED BY <2>1, <3>2, <3>3, <3>4
  <2> QED BY <2>4, <2>5
<1>15. ParserInv' /\ FullPageComplete' /\ ParsedIsIndexed'
  <2>1. disk' = disk /\ disk \in [Pages -> 0 .. PageSize]
    BY <1>1 DEF WalTypeOK
  <2>2. \A q \in Pages : disk[q] <= disk'[q]
    BY <2>1, WalAssumption
  <2>3. RpcXLogFlushedLsn' \in Lsns /\ RpcXLogFlushedLsn <= RpcXLogFlushedLsn'
    BY <1>1, MaxLsnType DEF WalTypeOK, Lsns
  <2> QED BY <1>1, <2>1, <2>2, <2>3, ParserFrame
<1> QED BY <1>9, <1>10, <1>11, <1>13, <1>14, <1>15

\* RpcXLogFlushedLsn is advanced once the file and the buffers are written.
LEMMA PublishFlushedPreserves ==
  ASSUME IngestInv, PublishFlushed
  PROVE  IngestInv'
<1> USE DEF IngestInv
<1>1. /\ wr.pc = "publish"
      /\ RpcXLogFlushedLsn' = Max({RpcXLogFlushedLsn, wr.lsn})
      /\ wr' = [wr EXCEPT !.pc = "wakeup"]
      /\ UNCHANGED <<disk, RpcXlblocks, RpcXLogPages, lockedSlots>>
      /\ UNCHANGED parseVars
  BY DEF PublishFlushed
<1>2. PICK lsn \in Nat : lsn = wr.lsn /\ lsn \in Lsns
  BY MaxLsnType DEF LocalsInv, Lsns
<1>3. wr'.pc = "wakeup" /\ wr'.lsn = lsn /\ wr'.first = wr.first
  BY <1>1, <1>2 DEF LocalsInv
<1>4. RpcXLogFlushedLsn \in Nat /\ RpcXLogFlushedLsn <= lsn /\ RpcXLogFlushedLsn' = lsn
  <2>1. RpcXLogFlushedLsn \in Nat /\ RpcXLogFlushedLsn <= lsn
    BY <1>2, MaxLsnType DEF WriterInv, WalTypeOK, Lsns
  <2> QED BY <1>1, <1>2, <2>1, MaxPair
<1>5. LocalsInv'
  BY <1>1 DEF LocalsInv, parseVars
<1>6. WalTypeOK'
  BY <1>1, <1>2, <1>4 DEF WalTypeOK, parseVars
<1>7. DiskInv'
  BY <1>1, <1>2, <1>3 DEF DiskInv
<1>8. Complete = PageOf(lsn) /\ Complete' = PageOf(lsn) /\ ~ Writing'
  BY <1>1, <1>2, <1>3 DEF Complete, Writing
<1>9. WriterInv'
  <2>1. PageOf(lsn) \in Nat
    BY PageBounds
  <2>2. lockedSlots' = {}
    BY <1>1 DEF WriterInv
  <2> QED BY <1>2, <1>3, <1>4, <1>8, <2>1, <2>2 DEF WriterInv
<1>10. BufferInv'
  BY <1>1, <1>8 DEF BufferInv
<1>11. ParserInv' /\ FullPageComplete' /\ ParsedIsIndexed'
  <2>1. disk' = disk /\ disk \in [Pages -> 0 .. PageSize]
    BY <1>1 DEF WalTypeOK
  <2>2. \A q \in Pages : disk[q] <= disk'[q]
    BY <2>1, WalAssumption
  <2>3. RpcXLogFlushedLsn' \in Lsns /\ RpcXLogFlushedLsn <= RpcXLogFlushedLsn'
    BY <1>2, <1>4
  <2>4. ps.pc = "copy" => slotRead \notin lockedSlots'
    BY <1>1 DEF ParserInv
  <2> QED BY <1>1, <2>1, <2>2, <2>3, <2>4, ParserFrame
<1> QED BY <1>5, <1>6, <1>7, <1>9, <1>10, <1>11

-----------------------------------------------------------------------------
(* The startup thread *)

\* The steps after which the thread is to read a page: the same one, or the
\* first of its record again.
LEMMA ParserRests ==
  ASSUME IngestInv, disk' = disk, indexed' = indexed, XLogParseUpto' = XLogParseUpto,
         ps'.start = ps.start, ps'.page \in {ps.page, PageOf(ps.start)},
         ps'.pc \in {"read", "available", "drowsy", "asleep"}
  PROVE  ParserInv' /\ FullPageComplete' /\ ParsedIsIndexed'
<1> USE DEF IngestInv
<1>1. PICK n \in Nat : n = ps.start
  BY MaxLsnType DEF LocalsInv, Lsns
<1>2. Stored(n) /\ Stored(ps.start)'
  BY <1>1 DEF ParserInv, Stored, Content
<1>3. \A p \in Pages : p < ps'.page => disk'[p] = PageSize
  <2> SUFFICES ASSUME NEW p \in Pages, p < ps'.page
               PROVE  disk[p] = PageSize
    OBVIOUS
  <2>1. CASE ps'.page = ps.page
    BY <2>1 DEF ParserInv
  <2>2. CASE ps'.page = PageOf(ps.start)
    BY <1>1, <1>2, <2>2, StoredBelow DEF WalTypeOK
  <2> QED BY <2>1, <2>2
<1>4. \A e \in indexed' : Stored(e)'
  BY DEF ParserInv, Stored
<1>5. ParserInv'
  BY <1>2, <1>3, <1>4 DEF ParserInv
<1>6. FullPageComplete' /\ ParsedIsIndexed'
  BY DEF FullPageComplete, ParsedIsIndexed
<1> QED BY <1>5, <1>6

\* The broadcast, which reaches the startup thread only when it is asleep.
LEMMA WakeupPreserves ==
  ASSUME IngestInv, WakeupStartupRecovery
  PROVE  IngestInv'
<1> USE DEF IngestInv
<1>1. /\ wr.pc = "wakeup" /\ wr' = [wr EXCEPT !.pc = "idle"]
      /\ ps' = [ps EXCEPT !.pc = IF @ = "asleep" THEN "available" ELSE @]
      /\ UNCHANGED <<disk, RpcXlblocks, RpcXLogPages, lockedSlots, RpcXLogFlushedLsn,
                     slotRead, XLogParseUpto, reachXlogTempEnd, indexed>>
  BY DEF WakeupStartupRecovery
<1>2. wr'.pc = "idle" /\ wr'.lsn = wr.lsn /\ wr'.first = wr.first
  BY <1>1 DEF LocalsInv
<1>3. LocalsInv'
  BY <1>1 DEF LocalsInv
<1>4. WalTypeOK'
  <2>1. ps'.page = ps.page /\ ps'.start = ps.start
    BY <1>1 DEF LocalsInv
  <2> QED BY <1>1, <2>1 DEF WalTypeOK
<1>5. DiskInv'
  BY <1>1, <1>2 DEF DiskInv
<1>6. Complete' = Complete /\ ~ Writing' /\ Written' = Written
  BY <1>1, <1>2 DEF Complete, Writing, Written
<1>7. WriterInv'
  BY <1>1, <1>2, <1>6 DEF WriterInv
<1>8. BufferInv'
  BY <1>1, <1>6 DEF BufferInv
<1>9. ParserInv' /\ FullPageComplete' /\ ParsedIsIndexed'
  <2>1. CASE ps.pc = "asleep"
    <3>1. ps'.start = ps.start /\ ps'.page = ps.page /\ ps'.pc = "available"
      BY <1>1, <2>1 DEF LocalsInv
    <3> QED BY <1>1, <3>1, ParserRests
  <2>2. CASE ps.pc # "asleep"
    <3>1. ps' = ps
      BY <1>1, <2>2 DEF LocalsInv
    <3>2. disk \in [Pages -> 0 .. PageSize] /\ \A q \in Pages : disk[q] <= disk'[q]
      BY <1>1, WalAssumption DEF WalTypeOK
    <3>3. RpcXLogFlushedLsn' \in Lsns /\ RpcXLogFlushedLsn <= RpcXLogFlushedLsn'
      BY <1>1, MaxLsnType DEF WalTypeOK, Lsns
    <3>4. UNCHANGED parseVars
      BY <1>1, <3>1 DEF parseVars
    <3>5. ps.pc = "copy" => slotRead \notin lockedSlots'
      BY <1>1 DEF ParserInv
    <3> QED BY <1>1, <3>2, <3>3, <3>4, <3>5, ParserFrame
  <2> QED BY <2>1, <2>2
<1> QED BY <1>3, <1>4, <1>5, <1>7, <1>8, <1>9

\* The steps that only change where the thread goes on reading.
LEMMA RestPreserves ==
  ASSUME IngestInv,
         InvalidPage \/ InvalidRecord \/ NotAvailable \/ WaitForNewXLog \/ WaitTimesOut
  PROVE  IngestInv'
<1> USE DEF IngestInv
<1>1. /\ UNCHANGED walVars /\ disk' = disk
      /\ slotRead' = slotRead /\ XLogParseUpto' = XLogParseUpto /\ indexed' = indexed
  BY DEF InvalidPage, InvalidRecord, NotAvailable, WaitForNewXLog, WaitTimesOut, walVars
<1>2. PageOf(ps.start) \in Pages
  <2>1. ps.start \in Nat /\ ps.start <= MaxLsn
    BY MaxLsnType DEF LocalsInv, Lsns
  <2> QED BY <2>1, PagesType
<1>3. /\ ps'.start = ps.start /\ ps'.page \in {ps.page, PageOf(ps.start)}
      /\ ps'.pc \in {"read", "available", "drowsy", "asleep"}
      /\ LocalsInv'
  <2>1. wr' = wr
    BY <1>1 DEF walVars
  <2>2. CASE InvalidPage
    BY ZenonT(60), <2>1, <2>2 DEF InvalidPage, LocalsInv
  <2>3. CASE InvalidRecord
    BY ZenonT(60), <1>2, <2>1, <2>3 DEF InvalidRecord, LocalsInv
  <2>4. CASE NotAvailable
    BY <2>1, <2>4 DEF NotAvailable, LocalsInv
  <2>5. CASE WaitForNewXLog
    BY <2>1, <2>5 DEF WaitForNewXLog, LocalsInv
  <2>6. CASE WaitTimesOut
    BY <2>1, <2>6 DEF WaitTimesOut, LocalsInv
  <2> QED BY <2>2, <2>3, <2>4, <2>5, <2>6
<1>4. WalTypeOK'
  BY <1>1, <1>2, <1>3 DEF WalTypeOK, walVars
<1> QED BY <1>1, <1>3, <1>4, WriterFrame, ParserRests

\* The page is available; a length of a whole page is returned for a page that
\* RpcXLogFlushedLsn has passed.
LEMMA BeginPageReadPreserves ==
  ASSUME IngestInv, BeginPageRead
  PROVE  IngestInv'
<1> USE DEF IngestInv
<1>1. /\ ps' = [ps EXCEPT !.pc = "lock", !.readLen = ReadLen]
      /\ UNCHANGED walVars /\ disk' = disk /\ wr' = wr
      /\ RpcXLogFlushedLsn' = RpcXLogFlushedLsn
      /\ slotRead' = slotRead /\ XLogParseUpto' = XLogParseUpto /\ indexed' = indexed
  BY DEF BeginPageRead, walVars
<1>2. PICK b \in Nat : b = ps.page * PageSize
  BY ZenonT(60), PagesType, EndOfType DEF LocalsInv
<1>3. ReadLen \in Int
      /\ (ps.source = "rpc" /\ ReadLen = PageSize => ps.page < PageOf(RpcXLogFlushedLsn))
  BY <1>2, WalAssumption DEF ReadLen
<1>4. /\ ps'.pc = "lock" /\ ps'.source = ps.source /\ ps'.start = ps.start
      /\ ps'.page = ps.page /\ ps'.readLen = ReadLen /\ ps'.image = ps.image
  BY <1>1 DEF LocalsInv
<1>5. LocalsInv'
  BY ZenonT(60), <1>1, <1>3 DEF LocalsInv
<1>6. WalTypeOK'
  BY <1>1, <1>4 DEF WalTypeOK, walVars
<1>7. Stored(ps.start)' /\ \A e \in indexed' : Stored(e)'
  BY <1>1, <1>4 DEF ParserInv, Stored, Content
<1>8. ParserInv'
  BY <1>1, <1>3, <1>4, <1>7 DEF ParserInv
<1>9. FullPageComplete' /\ ParsedIsIndexed'
  BY <1>1, <1>4 DEF FullPageComplete, ParsedIsIndexed
<1> QED BY <1>1, <1>5, <1>6, <1>8, <1>9, WriterFrame

\* The buffer is locked for reading when RpcXLogWrite does not hold it.
LEMMA LockPagePreserves ==
  ASSUME IngestInv, LockPage
  PROVE  IngestInv'
<1> USE DEF IngestInv
<1>1. /\ ps.pc = "lock" /\ SlotOf(ps.page) \notin lockedSlots
      /\ slotRead' = SlotOf(ps.page)
      /\ ps' = [ps EXCEPT !.pc = "copy"]
      /\ UNCHANGED walVars /\ disk' = disk /\ wr' = wr /\ lockedSlots' = lockedSlots
      /\ RpcXLogFlushedLsn' = RpcXLogFlushedLsn
      /\ XLogParseUpto' = XLogParseUpto /\ indexed' = indexed
  BY DEF LockPage, walVars
<1>2. /\ ps'.pc = "copy" /\ ps'.source = ps.source /\ ps'.start = ps.start
      /\ ps'.page = ps.page /\ ps'.readLen = ps.readLen /\ ps'.image = ps.image
  BY <1>1 DEF LocalsInv
<1>3. LocalsInv'
  BY <1>1 DEF LocalsInv
<1>4. WalTypeOK'
  <2>1. SlotOf(ps.page) \in Slots
    BY ZenonT(60), PagesType, SlotOfType DEF LocalsInv
  <2> QED BY <1>1, <1>2, <2>1 DEF WalTypeOK, walVars
<1>5. Stored(ps.start)' /\ \A e \in indexed' : Stored(e)'
  BY <1>1, <1>2 DEF ParserInv, Stored, Content
<1>6. ParserInv'
  BY <1>1, <1>2, <1>5 DEF ParserInv
<1>7. FullPageComplete' /\ ParsedIsIndexed'
  BY <1>1, <1>2 DEF FullPageComplete, ParsedIsIndexed
<1> QED BY <1>1, <1>3, <1>4, <1>6, <1>7, WriterFrame

\* Buffer or file: the image is no more than what the file holds, and the
\* whole page if RpcXLogFlushedLsn had passed it.
LEMMA CopyPagePreserves ==
  ASSUME IngestInv, CopyPage
  PROVE  IngestInv'
<1> USE DEF IngestInv
<1>1. PICK p \in Pages : p = ps.page /\ p \in Nat
  BY ZenonT(60), PagesType DEF LocalsInv
<1>2. PICK s \in Slots : s = SlotOf(p)
  BY <1>1, SlotOfType
<1>3. PICK image \in 0 .. PageSize :
        image = IF RpcXlblocks[s] = EndOf(p) THEN RpcXLogPages[s] ELSE disk[p]
  BY DEF WalTypeOK
<1>4. /\ ps.pc = "copy" /\ slotRead' = XLOGbuffers
      /\ ps' = [ps EXCEPT !.pc = "validate", !.image = image]
      /\ UNCHANGED walVars /\ disk' = disk /\ wr' = wr
      /\ RpcXLogFlushedLsn' = RpcXLogFlushedLsn
      /\ XLogParseUpto' = XLogParseUpto /\ indexed' = indexed
  BY <1>1, <1>2, <1>3 DEF CopyPage, walVars
<1>5. /\ ps'.pc = "validate" /\ ps'.source = ps.source /\ ps'.start = ps.start
      /\ ps'.page = p /\ ps'.readLen = ps.readLen /\ ps'.image = image
  BY <1>1, <1>4 DEF LocalsInv
<1>6. image <= disk[p]
  <2>1. CASE RpcXlblocks[s] = EndOf(p)
    <3>1. s \notin lockedSlots
      BY <1>1, <1>2, <1>4 DEF ParserInv
    <3> QED BY <1>3, <2>1, <3>1 DEF BufferInv
  <2>2. CASE RpcXlblocks[s] # EndOf(p)
    BY <1>3, <2>2, WalAssumption DEF WalTypeOK
  <2> QED BY <2>1, <2>2
<1>7. ps.source = "rpc" /\ ps.readLen = PageSize => image = PageSize
  <2> SUFFICES ASSUME ps.source = "rpc", ps.readLen = PageSize
               PROVE  image = PageSize
    OBVIOUS
  <2>1. p < PageOf(RpcXLogFlushedLsn) /\ PageOf(RpcXLogFlushedLsn) <= Complete
    BY <1>1, <1>4 DEF ParserInv, WriterInv
  <2>2. PICK c \in Nat : c = Complete
    <3>1. wr.first \in Nat
      BY ZenonT(60), PagesType DEF LocalsInv
    <3>2. wr.lsn \in Nat
      BY MaxLsnType DEF LocalsInv, Lsns
    <3> QED BY <3>1, <3>2, PageBounds DEF Complete
  <2>3. PICK g \in Nat : g = PageOf(RpcXLogFlushedLsn)
    BY PageBounds, MaxLsnType DEF WalTypeOK, Lsns
  <2>4. p < Complete
    BY <1>1, <2>1, <2>2, <2>3
  <2>5. disk[p] = PageSize
    <3>1. PICK lsn \in Nat : disk = Content(lsn) /\ c <= PageOf(lsn)
      <4>1. PICK l \in 0 .. wr.lsn :
              /\ disk = Content(l)
              /\ IF wr.pc = "pwrite" THEN PageOf(l) = wr.first ELSE l = wr.lsn
        BY DEF DiskInv
      <4>2. l \in Nat /\ wr.lsn \in Nat /\ RpcXLogFlushedLsn \in Nat
        BY <4>1, MaxLsnType DEF LocalsInv, WalTypeOK, Lsns
      <4>3. c = PageOf(l) => c <= PageOf(l)
        BY <2>2
      <4>4. CASE wr.pc = "pwrite"
        <5>1. c = wr.first
          BY <2>2, <4>4 DEF Complete, Writing
        <5> QED BY <4>1, <4>2, <4>3, <4>4, <5>1
      <4>5. CASE wr.pc # "pwrite" /\ ~ Writing
        <5>1. c = PageOf(wr.lsn)
          BY <2>2, <4>5 DEF Complete
        <5> QED BY <4>1, <4>2, <4>3, <4>5, <5>1
      <4>6. CASE wr.pc # "pwrite" /\ Writing
        <5>1. l = wr.lsn /\ c = wr.first
          BY <2>2, <4>1, <4>6 DEF Complete
        <5>2. wr.first <= PageOf(wr.lsn)
          BY <4>6 DEF WriterInv
        <5> QED BY <4>1, <4>2, <5>1, <5>2
      <4> QED BY <4>4, <4>5, <4>6
    <3>2. p < PageOf(lsn)
      BY <1>1, <2>2, <2>4, <3>1, PageBounds
    <3>3. EndOf(p) <= lsn
      BY <1>1, <3>2, PageLimits
    <3> QED BY <3>1, <3>3, ContentValue
  <2>6. CASE RpcXlblocks[s] = EndOf(p)
    BY <1>3, <2>4, <2>6 DEF BufferInv
  <2>7. CASE RpcXlblocks[s] # EndOf(p)
    BY <1>3, <2>5, <2>7
  <2> QED BY <2>6, <2>7
<1>8. LocalsInv'
  BY ZenonT(60), <1>4 DEF LocalsInv
<1>9. WalTypeOK'
  BY <1>4, <1>5 DEF WalTypeOK, walVars
<1>10. Stored(ps.start)' /\ \A e \in indexed' : Stored(e)'
  BY <1>4, <1>5 DEF ParserInv, Stored, Content
<1>11. ParserInv'
  BY <1>1, <1>4, <1>5, <1>6, <1>10 DEF ParserInv
<1>12. FullPageComplete' /\ ParsedIsIndexed'
  BY <1>4, <1>5, <1>7 DEF FullPageComplete, ParsedIsIndexed
<1> QED BY <1>4, <1>8, <1>9, <1>11, <1>12, WriterFrame

\* A page that holds what the record needs of it: the record is complete, and
\* on disk, or the next page is to be read.
LEMMA ValidPagePreserves ==
  ASSUME IngestInv, ValidPage
  PROVE  IngestInv'
<1> USE DEF IngestInv
<1>1. PICK p \in Pages : p = ps.page /\ p \in Nat
  BY ZenonT(60), PagesType DEF LocalsInv
<1>2. PICK n \in Lsns : n = ps.start /\ n \in Nat
  BY MaxLsnType DEF LocalsInv, Lsns
<1>3. PICK r \in Nat : /\ r = RecordEnd(n) /\ r <= MaxLsn + 1 /\ MaxLsn \in Nat
                       /\ r \in RecordEnds \/ r = MaxLsn + 1
  BY <1>2, RecordEndType, MaxLsnType
<1>4. PICK b \in Nat : /\ b = p * PageSize /\ EndOf(p) = b + PageSize
                       /\ EndOf(p) = (p + 1) * PageSize
  BY <1>1, EndOfType DEF EndOf
<1>5. PageSize \in Nat /\ PageSize > 0
  BY WalAssumption
<1>6. /\ ps.pc = "validate" /\ ps.image >= Needed
      /\ ps' = IF EndsHere THEN [ps EXCEPT !.pc = "index"]
                           ELSE [ps EXCEPT !.pc = "read", !.page = @ + 1]
      /\ UNCHANGED walVars /\ disk' = disk /\ wr' = wr
      /\ slotRead' = slotRead /\ XLogParseUpto' = XLogParseUpto /\ indexed' = indexed
  BY DEF ValidPage, walVars
<1>7. /\ Needed = Min({r, b + PageSize}) - b
      /\ EndsHere <=> r <= b + PageSize
  <2>1. RecordEnd(ps.start) = r
    BY <1>2, <1>3
  <2>2. EndOf(ps.page) = b + PageSize /\ ps.page * PageSize = b
    BY <1>1, <1>4
  <2>3. Needed = Min({r, b + PageSize}) - b
    BY <2>1, <2>2 DEF Needed
  <2>4. EndsHere <=> r <= b + PageSize
    BY <2>1, <2>2 DEF EndsHere
  <2> QED BY <2>3, <2>4
<1>8. Needed = IF EndsHere THEN r - b ELSE PageSize
  <2>1. b + PageSize \in Nat
    BY <1>5
  <2>2. PICK m : m = Min({r, b + PageSize})
    OBVIOUS
  <2>3. m \in {r, b + PageSize} /\ m <= r /\ m <= b + PageSize
    BY <1>3, <2>1, <2>2, MinPair
  <2> QED BY <1>5, <1>7, <2>2, <2>3
<1>9. PICK i \in 0 .. PageSize : i = ps.image /\ i <= disk[p]
  BY <1>1, <1>6 DEF ParserInv, LocalsInv
<1>10. disk \in [Pages -> 0 .. PageSize] /\ disk[p] \in 0 .. PageSize
  BY DEF WalTypeOK
<1>11. \A q \in Pages : q < p => disk[q] = PageSize
  BY <1>1 DEF ParserInv
<1>12. \A e \in indexed' : Stored(e)'
  BY <1>6 DEF ParserInv, Stored, Content
<1>13. CASE EndsHere
  <2>1. /\ ps'.pc = "index" /\ ps'.source = ps.source /\ ps'.start = n
        /\ ps'.page = p /\ ps'.readLen = ps.readLen /\ ps'.image = ps.image
    BY <1>1, <1>2, <1>6, <1>13 DEF LocalsInv
  <2>2. LocalsInv'
    BY <1>6, <1>13 DEF LocalsInv
  <2>3. WalTypeOK'
    BY <1>1, <1>2, <1>6, <2>1 DEF WalTypeOK, walVars
  <2>4. Stored(r)
    <3>1. r <= EndOf(p) /\ r - b <= disk[p]
      <4>1. r - b <= i
        BY <1>5, <1>6, <1>8, <1>9, <1>13
      <4> QED BY <1>4, <1>5, <1>7, <1>9, <1>10, <1>13, <4>1
    <3> QED BY <1>4, <1>10, <1>11, <3>1, StoredUpTo
  <2>5. r \in RecordEnds
    <3>1. r <= MaxLsn
      BY <1>3, <2>4, StoredAtMost
    <3>2. r # MaxLsn + 1
      BY <1>3, <3>1
    <3> QED BY <1>3, <3>2
  <2>6. Stored(ps.start)' /\ Stored(RecordEnd(ps.start))'
    <3>1. Stored(n)
      BY <1>2 DEF ParserInv
    <3>2. RecordEnd(ps.start)' = r
      BY <1>3, <2>1, NextRecordEnd
    <3> QED BY <1>6, <2>1, <2>4, <3>1, <3>2 DEF Stored, Content
  <2>7. ParserInv'
    <3>1. RecordEnd(ps.start)' = r
      BY <1>3, <2>1, NextRecordEnd
    <3>2. XLogParseUpto' = ps'.start
      BY <1>2, <1>6, <2>1 DEF ParserInv
    <3> QED BY <1>6, <1>11, <1>12, <2>1, <2>5, <2>6, <3>1, <3>2 DEF ParserInv
  <2>8. FullPageComplete' /\ ParsedIsIndexed'
    BY <1>6, <2>1 DEF FullPageComplete, ParsedIsIndexed
  <2> QED BY <1>6, <2>2, <2>3, <2>7, <2>8, WriterFrame
<1>14. CASE ~ EndsHere
  <2>1. /\ ps'.pc = "read" /\ ps'.source = ps.source /\ ps'.start = n
        /\ ps'.page = p + 1 /\ ps'.readLen = ps.readLen /\ ps'.image = ps.image
    BY <1>1, <1>2, <1>6, <1>14 DEF LocalsInv
  <2>2. p + 1 \in Pages
    <3>1. (p + 1) * PageSize <= MaxLsn
      <4>1. b + PageSize <= MaxLsn
        BY <1>3, <1>5, <1>7, <1>14
      <4> QED BY <1>4, <4>1
    <3>2. p + 1 \in Nat
      BY <1>1
    <3> QED BY <3>1, <3>2, PagesType
  <2>3. LocalsInv'
    BY ZenonT(60), <1>1, <1>6, <1>14, <2>2 DEF LocalsInv
  <2>4. WalTypeOK'
    BY <1>2, <1>6, <2>1, <2>2 DEF WalTypeOK, walVars
  <2>5. disk[p] = PageSize
    BY <1>5, <1>6, <1>8, <1>9, <1>10, <1>14
  <2>6. \A q \in Pages : q < p + 1 => disk[q] = PageSize
    <3> SUFFICES ASSUME NEW q \in Pages, q < p + 1
                 PROVE  disk[q] = PageSize
      OBVIOUS
    <3>1. q \in Nat
      BY PagesType
    <3>2. q < p \/ q = p
      BY <1>1, <3>1
    <3> QED BY <1>11, <2>5, <3>2
  <2>7. Stored(ps.start)'
    <3>1. Stored(n)
      BY <1>2 DEF ParserInv
    <3> QED BY <1>6, <2>1, <3>1 DEF Stored, Content
  <2>8. ParserInv'
    <3>1. XLogParseUpto' = ps'.start
      BY <1>2, <1>6, <2>1 DEF ParserInv
    <3> QED BY <1>6, <1>12, <2>1, <2>6, <2>7, <3>1 DEF ParserInv
  <2>9. FullPageComplete' /\ ParsedIsIndexed'
    BY <1>6, <2>1 DEF FullPageComplete, ParsedIsIndexed
  <2> QED BY <1>6, <2>3, <2>4, <2>8, <2>9, WriterFrame
<1> QED BY <1>13, <1>14

\* The record is added to the log index.
LEMMA IndexRecordPreserves ==
  ASSUME IngestInv, IndexRecord
  PROVE  IngestInv'
<1> USE DEF IngestInv
<1>1. PICK n \in Lsns : n = ps.start
  BY DEF LocalsInv
<1>2. /\ ps.pc = "index" /\ indexed' = indexed \cup {RecordEnd(n)}
      /\ ps' = [ps EXCEPT !.pc = "advance"]
      /\ UNCHANGED walVars /\ disk' = disk /\ wr' = wr
      /\ slotRead' = slotRead /\ XLogParseUpto' = XLogParseUpto
  BY <1>1 DEF IndexRecord, walVars
<1>3. /\ ps'.pc = "advance" /\ ps'.source = ps.source /\ ps'.start = n
      /\ ps'.page = ps.page /\ ps'.readLen = ps.readLen /\ ps'.image = ps.image
  BY <1>1, <1>2 DEF LocalsInv
<1>4. RecordEnd(n) \in RecordEnds /\ Stored(RecordEnd(n)) /\ Stored(n)
  BY <1>1, <1>2 DEF ParserInv
<1>5. PICK r \in RecordEnds : r = RecordEnd(n) /\ RecordEnd(ps.start)' = r
  BY <1>3, <1>4, NextRecordEnd
<1>6. LocalsInv'
  BY <1>2 DEF LocalsInv
<1>7. WalTypeOK'
  BY <1>2, <1>3, <1>4 DEF WalTypeOK, walVars
<1>8. Stored(ps.start)' /\ Stored(RecordEnd(ps.start))' /\ \A e \in indexed' : Stored(e)'
  <2>1. Stored(n)' /\ Stored(r)' /\ \A e \in indexed : Stored(e)'
    BY <1>2, <1>4, <1>5 DEF ParserInv, Stored, Content
  <2>2. Stored(ps.start)' /\ Stored(RecordEnd(ps.start))'
    BY ZenonT(60), <1>3, <1>5, <2>1 DEF Stored
  <2> QED BY <1>2, <1>5, <2>1, <2>2
<1>9. ParserInv'
  <2>1. XLogParseUpto' = ps'.start
    BY <1>1, <1>2, <1>3 DEF ParserInv
  <2>2. RecordEnd(ps.start)' \in indexed'
    BY <1>2, <1>5
  <2>3. \A p \in Pages : p < ps'.page => disk'[p] = PageSize
    BY <1>2, <1>3 DEF ParserInv
  <2> QED BY <1>3, <1>5, <1>8, <2>1, <2>2, <2>3 DEF ParserInv
<1>10. FullPageComplete' /\ ParsedIsIndexed'
  BY <1>2, <1>3 DEF FullPageComplete, ParsedIsIndexed
<1> QED BY <1>2, <1>6, <1>7, <1>9, <1>10, WriterFrame

\* XLogParseUpto advances over one record, which is in the log index.
LEMMA AdvanceParseUptoPreserves ==
  ASSUME IngestInv, AdvanceParseUpto
  PROVE  IngestInv'
<1> USE DEF IngestInv
<1>1. PICK n \in Lsns : n = ps.start /\ n \in Nat
  BY MaxLsnType DEF LocalsInv, Lsns
<1>2. PICK r \in RecordEnds : /\ r = RecordEnd(n) /\ r \in Nat /\ r > n /\ r <= MaxLsn
                              /\ Stored(r) /\ r \in indexed
  <2>1. /\ RecordEnd(n) \in RecordEnds /\ Stored(RecordEnd(n)) /\ RecordEnd(n) \in indexed
    BY <1>1 DEF AdvanceParseUpto, ParserInv
  <2>2. RecordEnd(n) > n
    BY <1>1, RecordEndType
  <2> QED BY ZenonT(60), <2>1, <2>2, MaxLsnType
<1>3. /\ XLogParseUpto' = Max({XLogParseUpto, r})
      /\ ps' = [ps EXCEPT !.pc = "read", !.start = r, !.page = PageOf(r)]
      /\ UNCHANGED walVars /\ disk' = disk /\ wr' = wr
      /\ slotRead' = slotRead /\ indexed' = indexed
  BY <1>1, <1>2 DEF AdvanceParseUpto, walVars
<1>4. XLogParseUpto = n /\ XLogParseUpto' = r
  <2>1. XLogParseUpto = n
    BY <1>1 DEF ParserInv
  <2> QED BY <1>1, <1>2, <1>3, <2>1, MaxPair
<1>5. r \in Lsns /\ PageOf(r) \in Pages
  BY <1>2, PagesType, MaxLsnType DEF Lsns
<1>6. /\ ps'.pc = "read" /\ ps'.source = ps.source /\ ps'.start = r
      /\ ps'.page = PageOf(r) /\ ps'.readLen = ps.readLen /\ ps'.image = ps.image
  BY <1>3 DEF LocalsInv
<1>7. LocalsInv'
  BY ZenonT(60), <1>3, <1>5 DEF LocalsInv
<1>8. WalTypeOK'
  BY <1>3, <1>4, <1>5, <1>6 DEF WalTypeOK, walVars
<1>9. Stored(ps.start)' /\ \A e \in indexed' : Stored(e)'
  <2>1. Stored(r)' /\ \A e \in indexed : Stored(e)'
    BY <1>2, <1>3 DEF ParserInv, Stored, Content
  <2> QED BY <1>3, <1>6, <2>1 DEF Stored
<1>10. \A p \in Pages : p < ps'.page => disk'[p] = PageSize
  <2>1. \A p \in Pages : p < PageOf(r) => disk[p] = PageSize
    BY <1>2, StoredBelow DEF WalTypeOK
  <2> QED BY <1>3, <1>6, <2>1
<1>11. ParserInv'
  BY ZenonT(60), <1>4, <1>6, <1>9, <1>10 DEF ParserInv
<1>12. FullPageComplete'
  BY ZenonT(60), <1>6 DEF FullPageComplete
<1>13. ParsedIsIndexed'
  <2> SUFFICES ASSUME NEW e \in RecordEnds, e <= r
               PROVE  e \in indexed
    BY <1>3, <1>4 DEF ParsedIsIndexed
  <2>1. e \in Nat
    BY MaxLsnType
  <2>2. CASE e <= n
    BY <1>4, <2>2 DEF ParsedIsIndexed
  <2>3. CASE e > n
    <3>1. r <= e
      BY <1>1, <1>2, <2>3, RecordEndType
    <3> QED BY <1>2, <2>1, <3>1
  <2> QED BY <1>1, <2>1, <2>2, <2>3
<1> QED BY <1>3, <1>7, <1>8, <1>11, <1>12, <1>13, WriterFrame

\* Threads in WaitParse only reset reachXlogTempEnd.
LEMMA WaitParsePreserves ==
  ASSUME IngestInv, UNCHANGED walVars,
         UNCHANGED <<slotRead, XLogParseUpto, ps, indexed>>
  PROVE  IngestInv'
<1> USE DEF IngestInv
<1>1. WalTypeOK' /\ LocalsInv'
  BY DEF WalTypeOK, LocalsInv, walVars
<1>2. disk' = disk /\ lockedSlots' = lockedSlots /\ RpcXLogFlushedLsn' = RpcXLogFlushedLsn
  BY DEF walVars
<1>3. \A e \in indexed' : Stored(e)'
  BY <1>2 DEF ParserInv, Stored, Content
<1>4. ParserInv'
  <2>1. RecordEnd(ps.start)' = RecordEnd(ps.start)
    BY DEF RecordEnd
  <2>2. Stored(ps.start)'
    BY <1>2 DEF ParserInv, Stored, Content
  <2>3. Stored(RecordEnd(ps.start)) => Stored(RecordEnd(ps.start))'
    BY <1>2, <2>1 DEF Stored, Content
  <2> QED BY <1>2, <1>3, <2>1, <2>2, <2>3 DEF ParserInv
<1>5. FullPageComplete' /\ ParsedIsIndexed'
  BY DEF FullPageComplete, ParsedIsIndexed
<1> QED BY <1>1, <1>4, <1>5, WriterFrame

-----------------------------------------------------------------------------
(* Theorems *)

\* The server starts with the WAL of an earlier time in its file, empty
\* buffers and nothing parsed.
LEMMA InitIngestInv == Init => IngestInv
<1> SUFFICES ASSUME Init PROVE IngestInv
  OBVIOUS
<1>1. PICK lsn \in {0} \cup RecordEnds :
        disk = Content(lsn) /\ wr = [pc |-> "idle", lsn |-> lsn, first |-> 0]
  BY DEF Init
<1>2. /\ RpcXlblocks = [s \in Slots |-> 0] /\ RpcXLogPages = [s \in Slots |-> 0]
      /\ lockedSlots = {} /\ slotRead = XLOGbuffers /\ RpcXLogFlushedLsn = 0
      /\ XLogParseUpto = 0 /\ indexed = {}
      /\ ps = [pc |-> "read", source |-> "file", start |-> 0, page |-> 0,
               readLen |-> 0, image |-> 0]
  BY DEF Init
<1>3. lsn \in Nat /\ lsn \in Lsns /\ 0 \in Lsns /\ PageSize \in Nat
  BY MaxLsnType, WalAssumption DEF Lsns
<1>4. 0 \in Pages /\ PageOf(0) = 0 /\ PageOf(lsn) \in Nat
  BY PagesType, PageBounds, MaxLsnType, WalAssumption, <1>3 DEF PageOf
<1>5. disk \in [Pages -> 0 .. PageSize]
  BY <1>1, <1>3, ContentType
<1>6. WalTypeOK
  <2>1. EndOf(PageOf(MaxLsn)) \in Nat
    BY MaxLsnType, PageBounds, EndOfType
  <2> QED BY <1>2, <1>3, <1>4, <1>5, <2>1 DEF WalTypeOK
<1>7. LocalsInv
  BY <1>1, <1>2, <1>3, <1>4 DEF LocalsInv
<1>8. DiskInv
  BY <1>1, <1>3 DEF DiskInv
<1>9. WriterInv
  BY <1>1, <1>2, <1>3, <1>4 DEF WriterInv, Writing, Complete
<1>10. BufferInv
  <2>1. \A p \in Pages : EndOf(p) # 0
    BY PagesType, EndOfType
  <2> QED BY <1>2, <2>1 DEF BufferInv
<1>11. Stored(0)
  <2> SUFFICES ASSUME NEW p \in Pages
               PROVE  Content(0)[p] <= disk[p]
    BY DEF Stored
  <2>1. Content(0)[p] = 0
    BY PagesType, EndOfType, ContentValue
  <2> QED BY <1>3, <1>5, <2>1
<1>12. ParserInv
  <2>1. \A p \in Pages : ~ (p < 0)
    BY PagesType
  <2> QED BY <1>2, <1>11, <2>1 DEF ParserInv
<1>13. FullPageComplete /\ ParsedIsIndexed
  <2>1. \A e \in RecordEnds : ~ (e <= 0)
    BY MaxLsnType
  <2> QED BY <1>2, <2>1 DEF FullPageComplete, ParsedIsIndexed
<1> QED BY <1>6, <1>7, <1>8, <1>9, <1>10, <1>12, <1>13 DEF IngestInv

\* Every step preserves the invariant.
LEMMA NextIngestInv == IngestInv /\ [Next]_vars => IngestInv'
<1> SUFFICES ASSUME IngestInv, [Next]_vars PROVE IngestInv'
  OBVIOUS
<1>1. CASE \E lsn \in Lsns : XLogWrite(lsn)
  BY <1>1, XLogWritePreserves
<1>2. CASE RpcXLogWrite
  BY <1>2, PwritePreserves, LockSlotPreserves, CopyPagesPreserves,
     PublishFlushedPreserves, WakeupPreserves DEF RpcXLogWrite
<1>3. CASE StartupThread
  BY <1>3, BeginPageReadPreserves, LockPagePreserves, CopyPagePreserves, RestPreserves,
     ValidPagePreserves, IndexRecordPreserves, AdvanceParseUptoPreserves
     DEF StartupThread
<1>4. CASE \E r \in Readers, lsn \in Lsns : EnterWaitParse(r, lsn)
  BY <1>4, WaitParsePreserves DEF EnterWaitParse, parseVars
<1>5. CASE \E r \in Readers : LeaveLoop(r) \/ LeaveWaitParse(r)
  BY <1>5, WaitParsePreserves DEF LeaveLoop, LeaveWaitParse, parseVars
<1>6. CASE UNCHANGED vars
  BY <1>6, WaitParsePreserves DEF vars, parseVars
<1> QED BY <1>1, <1>2, <1>3, <1>4, <1>5, <1>6 DEF Next

\* The inductive invariant holds of every behaviour: RpcXLogWrite and the
\* startup thread share file, buffers and RpcXLogFlushedLsn without a lock
\* over all three, for any number of buffers and any size of pages.
THEOREM IngestInvariant == Spec => []IngestInv
<1>1. IngestInv /\ UNCHANGED vars => IngestInv'
  BY NextIngestInv
<1> QED BY InitIngestInv, NextIngestInv, <1>1, PTL DEF Spec

\* Type correctness.
THEOREM TypesCorrect == Spec => []WalTypeOK
<1>1. IngestInv => WalTypeOK
  BY DEF IngestInv
<1> QED BY <1>1, IngestInvariant, PTL

\* A page that XLogPageRead takes to be complete is read in full, from buffer
\* or file.
THEOREM CompletePagesAreFull == Spec => []FullPageComplete
<1>1. IngestInv => FullPageComplete
  BY DEF IngestInv
<1> QED BY <1>1, IngestInvariant, PTL

\* Whoever sees XLogParseUpto beyond a record finds it in the log index.
THEOREM ParsedRecordsIndexed == Spec => []ParsedIsIndexed
<1>1. IngestInv => ParsedIsIndexed
  BY DEF IngestInv
<1> QED BY <1>1, IngestInvariant, PTL

\* Every record in the log index is in the WAL file, from which the replay
\* processes read it.
THEOREM IndexedRecordsStored == Spec => []IndexedIsOnDisk
<1>1. IngestInv => IndexedIsOnDisk
  <2> SUFFICES ASSUME IngestInv, NEW e \in indexed, NEW lsn \in 1 .. e
               PROVE  disk[PageOf(lsn - 1)] >= lsn - PageOf(lsn - 1) * PageSize
    BY DEF IndexedIsOnDisk
  <2>1. e \in Nat /\ e <= MaxLsn /\ Stored(e) /\ MaxLsn \in Nat
    BY MaxLsnType DEF IngestInv, WalTypeOK, ParserInv
  <2>2. lsn \in Nat /\ lsn <= e /\ lsn - 1 \in Nat /\ lsn - 1 <= MaxLsn
    BY <2>1
  <2>3. PICK p \in Pages : p = PageOf(lsn - 1) /\ p \in Nat
    BY ZenonT(60), <2>2, PagesType
  <2>4. PICK b \in Nat : b = p * PageSize /\ EndOf(p) = b + PageSize
    BY <2>3, EndOfType
  <2>5. b <= lsn - 1 /\ lsn - 1 < b + PageSize /\ PageSize \in Nat
    BY <2>2, <2>3, <2>4, PageBounds, WalAssumption
  <2>6. Content(lsn)[p] = lsn - b
    BY <2>2, <2>4, <2>5, ContentValue
  <2>7. Content(lsn)[p] <= Content(e)[p] /\ Content(e)[p] <= disk[p]
    BY <2>1, <2>2, ContentMono DEF Stored
  <2>8. Content(e)[p] \in Int /\ disk[p] \in Int
    BY <2>1, <2>5, ContentValue DEF IngestInv, WalTypeOK
  <2>9. disk[p] >= lsn - b
    BY <2>2, <2>6, <2>7, <2>8
  <2> QED BY <2>3, <2>4, <2>9
<1> QED BY <1>1, IngestInvariant, PTL
-----------------------------------------------------------------------------
(* The storage server implements WalOrder *)

\* A step of WalOrder, or none.
OrderStep ==
  Order!Next \/ UNCHANGED <<storedWal, RpcXLogFlushedLsn, indexed, XLogParseUpto>>

\* A file with the WAL up to l holds it up to every LSN in front, and not
\* beyond: the page in which a later LSN lies is not filled that far.
LEMMA ContentCovers ==
  ASSUME NEW l \in Lsns, NEW lsn \in Lsns
  PROVE  (\A p \in Pages : Content(lsn)[p] <= Content(l)[p]) <=> lsn <= l
<1>1. l \in Nat /\ lsn \in Nat /\ l <= MaxLsn /\ lsn <= MaxLsn /\ MaxLsn \in Nat
  BY MaxLsnType DEF Lsns
<1>2. lsn <= l => \A p \in Pages : Content(lsn)[p] <= Content(l)[p]
  BY <1>1, ContentMono
<1>3. ASSUME \A p \in Pages : Content(lsn)[p] <= Content(l)[p], l < lsn PROVE FALSE
  <2>1. lsn - 1 \in Nat /\ lsn - 1 <= MaxLsn /\ l <= lsn - 1
    BY <1>1, <1>3
  <2>2. PICK p \in Pages : p = PageOf(lsn - 1) /\ p \in Nat
    BY ZenonT(60), <2>1, PagesType
  <2>3. PICK b \in Nat : b = p * PageSize /\ EndOf(p) = b + PageSize
    BY <2>2, EndOfType
  <2>4. b <= lsn - 1 /\ lsn - 1 < b + PageSize /\ PageSize \in Nat
    BY <2>1, <2>2, <2>3, PageBounds, WalAssumption
  <2>5. Content(lsn)[p] = lsn - b /\ Content(lsn - 1)[p] = lsn - 1 - b
    BY <1>1, <2>1, <2>3, <2>4, ContentValue
  <2>6. Content(l)[p] <= Content(lsn - 1)[p] /\ Content(lsn)[p] <= Content(l)[p]
    BY <1>1, <1>3, <2>1, ContentMono
  <2>7. Content(l)[p] \in Int
    BY <1>1, ContentValue
  <2> QED BY <1>1, <2>3, <2>5, <2>6, <2>7
<1> QED BY <1>1, <1>2, <1>3

\* The LSNs up to which such a file holds the WAL.
LEMMA CoveredLsns ==
  ASSUME NEW l \in Lsns
  PROVE  {lsn \in Lsns : \A p \in Pages : Content(lsn)[p] <= Content(l)[p]} = 0 .. l
<1>1. l \in Nat /\ l <= MaxLsn /\ MaxLsn \in Nat
  BY MaxLsnType DEF Lsns
<1>2. PICK S : S = {lsn \in Lsns : \A p \in Pages : Content(lsn)[p] <= Content(l)[p]}
  BY ZenonT(60)
<1>3. \A lsn : lsn \in S <=> lsn \in Lsns /\ lsn <= l
  BY ZenonT(60), <1>2, ContentCovers
<1>4. S = 0 .. l
  BY <1>1, <1>3 DEF Lsns
<1> QED BY ZenonT(60), <1>2, <1>4

\* A step that leaves the file alone leaves what it holds alone.
LEMMA StoredWalStays ==
  ASSUME disk' = disk
  PROVE  storedWal' = storedWal
BY DEF storedWal, Stored, Content

\* The file may hold WAL of an earlier time.
LEMMA InitOrder == Init => Order!Init
<1> SUFFICES ASSUME Init PROVE Order!Init
  OBVIOUS
<1>1. PICK l \in {0} \cup RecordEnds : disk = Content(l)
  BY DEF Init
<1>2. l \in Lsns /\ Lsns = 0 .. MaxLsn
  BY MaxLsnType DEF Lsns
<1>3. storedWal = 0 .. l
  BY ZenonT(60), <1>1, <1>2, CoveredLsns DEF storedWal, Stored
<1> QED BY <1>2, <1>3 DEF Init, Order!Init

\* The write to the file is Write, or nothing new.
LEMMA PwriteOrder ==
  ASSUME IngestInv, Pwrite
  PROVE  OrderStep
<1>1. IngestInv'
  BY PwritePreserves
<1>2. PICK l \in 0 .. wr.lsn : disk = Content(l)
  BY DEF IngestInv, DiskInv
<1>3. PICK k \in 0 .. wr'.lsn : disk' = Content(k) /\ k = wr'.lsn
  <2>1. PICK k \in 0 .. wr'.lsn : /\ disk' = Content(k)
                                 /\ IF wr'.pc = "pwrite" THEN PageOf(k) = wr'.first ELSE k = wr'.lsn
    BY <1>1 DEF IngestInv, DiskInv, Content
  <2>2. wr'.pc = "lock"
    BY DEF IngestInv, LocalsInv, Pwrite
  <2> QED BY <2>1, <2>2
<1>4. wr'.lsn = wr.lsn /\ wr.lsn \in Lsns
  BY DEF IngestInv, LocalsInv, Pwrite
<1>5. l \in Lsns /\ k \in Lsns /\ l \in Nat /\ k \in Nat /\ l <= k
  BY <1>2, <1>3, <1>4, MaxLsnType DEF Lsns
<1>6. storedWal = 0 .. l
  BY ZenonT(60), <1>2, <1>5, CoveredLsns DEF storedWal, Stored
<1>7. storedWal' = 0 .. k
  <2>1. storedWal' = {lsn \in Lsns : \A p \in Pages : Content(lsn)[p] <= disk'[p]}
    BY ZenonT(60) DEF storedWal, Stored, Content
  <2> QED BY ZenonT(60), <1>3, <1>5, <2>1, CoveredLsns
<1>8. UNCHANGED <<RpcXLogFlushedLsn, indexed, XLogParseUpto>>
  BY DEF Pwrite, parseVars
<1>9. CASE l = k
  BY <1>6, <1>7, <1>8, <1>9 DEF OrderStep
<1>10. CASE l # k
  <2>1. k \in (0 .. MaxLsn) \ storedWal
    BY <1>5, <1>6, <1>10 DEF Lsns
  <2> QED BY <1>7, <1>8, <2>1 DEF OrderStep, Order!Next, Order!Write
<1> QED BY <1>9, <1>10

\* RpcXLogFlushedLsn announces what is in the file, or is not changed.
LEMMA PublishFlushedOrder ==
  ASSUME IngestInv, PublishFlushed
  PROVE  OrderStep
<1>1. wr.pc = "publish" /\ wr.lsn \in Lsns /\ wr.lsn \in Nat /\ RpcXLogFlushedLsn \in Nat
  BY MaxLsnType DEF IngestInv, WalTypeOK, LocalsInv, Lsns, PublishFlushed
<1>2. disk = Content(wr.lsn)
  BY <1>1 DEF IngestInv, DiskInv
<1>3. storedWal = 0 .. wr.lsn
  BY ZenonT(60), <1>1, <1>2, CoveredLsns DEF storedWal, Stored
<1>4. storedWal' = storedWal /\ UNCHANGED <<indexed, XLogParseUpto>>
  BY StoredWalStays DEF PublishFlushed, parseVars
<1>5. RpcXLogFlushedLsn <= wr.lsn
  BY DEF IngestInv, WriterInv
<1>6. RpcXLogFlushedLsn' = wr.lsn
  BY <1>1, <1>5, MaxPair DEF PublishFlushed
<1>7. CASE RpcXLogFlushedLsn = wr.lsn
  BY <1>4, <1>6, <1>7 DEF OrderStep
<1>8. CASE RpcXLogFlushedLsn # wr.lsn
  <2>1. wr.lsn \in storedWal /\ wr.lsn > RpcXLogFlushedLsn
    BY <1>1, <1>3, <1>5, <1>8
  <2> QED BY <1>4, <1>6, <2>1 DEF OrderStep, Order!Next, Order!Announce
<1> QED BY <1>7, <1>8

\* The next record gets into the log index, unless it is there already.
LEMMA IndexRecordOrder ==
  ASSUME IngestInv, IndexRecord
  PROVE  OrderStep
<1>1. PICK n \in Lsns : n = ps.start /\ n = XLogParseUpto /\ n \in Nat
  BY MaxLsnType DEF IngestInv, LocalsInv, ParserInv, Lsns
<1>2. PICK e : e = RecordEnd(n)
  OBVIOUS
<1>3. e \in RecordEnds /\ Stored(e)
  BY <1>1, <1>2 DEF IngestInv, ParserInv, IndexRecord
<1>4. e \in storedWal
  BY <1>3, MaxLsnType DEF storedWal, Lsns
<1>5. \A f \in RecordEnds : f < e => f \in indexed
  <2>1. \A f \in RecordEnds : f < e => f <= n
    BY <1>1, <1>2, <1>3, RecordEndType, MaxLsnType
  <2> QED BY ZenonT(60), <1>1, <2>1 DEF IngestInv, ParsedIsIndexed
<1>6. /\ indexed' = indexed \cup {e} /\ storedWal' = storedWal
      /\ UNCHANGED <<RpcXLogFlushedLsn, XLogParseUpto>>
  BY <1>1, <1>2, StoredWalStays DEF IndexRecord, walVars
<1>7. CASE e \in indexed
  BY <1>6, <1>7 DEF OrderStep
<1>8. CASE e \notin indexed
  BY <1>3, <1>4, <1>5, <1>6, <1>8 DEF OrderStep, Order!Next, Order!Index
<1> QED BY <1>7, <1>8

\* XLogParseUpto goes on to the end of the next record, which is in the log
\* index.
LEMMA AdvanceParseUptoOrder ==
  ASSUME IngestInv, AdvanceParseUpto
  PROVE  OrderStep
<1>1. PICK n \in Lsns : n = ps.start /\ n = XLogParseUpto /\ n \in Nat
  BY MaxLsnType DEF IngestInv, LocalsInv, ParserInv, Lsns
<1>2. PICK e : e = RecordEnd(n)
  OBVIOUS
<1>3. e \in RecordEnds /\ e \in indexed /\ e \in Nat /\ e > n
  BY <1>1, <1>2, RecordEndType, MaxLsnType DEF IngestInv, ParserInv, AdvanceParseUpto
<1>4. \A f \in RecordEnds : f > n => f >= e
  BY <1>1, <1>2, <1>3, RecordEndType, MaxLsnType
<1>5. XLogParseUpto' = Max({n, e})
  BY ZenonT(60), <1>1, <1>2 DEF AdvanceParseUpto
<1>6. XLogParseUpto' = e
  BY <1>1, <1>3, <1>5, MaxPair
<1>7. storedWal' = storedWal /\ UNCHANGED <<RpcXLogFlushedLsn, indexed>>
  BY StoredWalStays DEF AdvanceParseUpto, walVars
<1> QED BY <1>1, <1>3, <1>4, <1>6, <1>7 DEF OrderStep, Order!Next, Order!Advance

\* All other steps are invisible in WalOrder.
LEMMA OtherStepsOrder ==
  ASSUME disk' = disk, UNCHANGED <<RpcXLogFlushedLsn, indexed, XLogParseUpto>>
  PROVE  OrderStep
BY StoredWalStays DEF OrderStep

\* Every step is one of WalOrder or none.
LEMMA NextOrder == IngestInv /\ [Next]_vars => OrderStep
<1> SUFFICES ASSUME IngestInv, [Next]_vars PROVE OrderStep
  OBVIOUS
<1>1. CASE \E lsn \in Lsns : XLogWrite(lsn)
  BY <1>1, OtherStepsOrder DEF XLogWrite, parseVars
<1>2. CASE RpcXLogWrite
  <2>1. CASE Pwrite \/ PublishFlushed
    BY <2>1, PwriteOrder, PublishFlushedOrder
  <2>2. CASE LockSlot \/ CopyPages \/ WakeupStartupRecovery
    BY <2>2, OtherStepsOrder DEF LockSlot, CopyPages, WakeupStartupRecovery, parseVars
  <2> QED BY <1>2, <2>1, <2>2 DEF RpcXLogWrite
<1>3. CASE StartupThread
  <2>1. CASE IndexRecord \/ AdvanceParseUpto
    BY <2>1, IndexRecordOrder, AdvanceParseUptoOrder
  <2>2. CASE BeginPageRead \/ LockPage \/ CopyPage
    BY <2>2, OtherStepsOrder DEF BeginPageRead, LockPage, CopyPage, walVars
  <2>3. CASE InvalidPage \/ InvalidRecord \/ ValidPage
    BY <2>3, OtherStepsOrder DEF InvalidPage, InvalidRecord, ValidPage, walVars
  <2>4. CASE NotAvailable \/ WaitForNewXLog \/ WaitTimesOut
    BY <2>4, OtherStepsOrder DEF NotAvailable, WaitForNewXLog, WaitTimesOut, walVars
  <2> QED BY <1>3, <2>1, <2>2, <2>3, <2>4 DEF StartupThread
<1>4. CASE \E r \in Readers, lsn \in Lsns : EnterWaitParse(r, lsn)
  BY <1>4, OtherStepsOrder DEF EnterWaitParse, walVars, parseVars
<1>5. CASE \E r \in Readers : LeaveLoop(r) \/ LeaveWaitParse(r)
  BY <1>5, OtherStepsOrder DEF LeaveLoop, LeaveWaitParse, walVars, parseVars
<1>6. CASE UNCHANGED vars
  BY <1>6, OtherStepsOrder DEF vars, walVars, parseVars
<1> QED BY <1>1, <1>2, <1>3, <1>4, <1>5, <1>6 DEF Next

\* The storage server keeps the order WAL file, RpcXLogFlushedLsn, log index,
\* XLogParseUpto for every record, although RpcXLogWrite and the startup
\* thread share file, buffers and positions without a common lock.
THEOREM IngestImplementsWalOrder == Spec => ImplementsWalOrder
<1>1. IngestInv /\ [Next]_vars
        => [Order!Next]_<<storedWal, RpcXLogFlushedLsn, indexed, XLogParseUpto>>
  BY NextOrder DEF OrderStep
<1> QED BY InitOrder, IngestInvariant, <1>1, PTL DEF Spec, ImplementsWalOrder, Order!Spec
=============================================================================
