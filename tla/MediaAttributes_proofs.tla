------------------------ MODULE MediaAttributes_proofs ------------------------
(***************************************************************************)
(* What a client is shown of the media is consistent, for any printers,    *)
(* rolls, sizes, heads and ranges, through every change of roll, every     *)
(* save and every restart: it follows from the vectors being aligned and   *)
(* the loaded roll the default, and from nothing else (Shown).             *)
(***************************************************************************)
EXTENDS MediaAttributes, MediaServer_proofs

\* What the attributes of one printer rest on.
Shown(p) ==
    /\ IsConfig(config[p]) /\ Tidy(config[p])
    /\ ready[p] # NoMedia =>
          /\ IsDefault(p, ready[p])
          /\ config[p].sizes # <<>> => Head(config[p].sizes) = ready[p]

LEMMA InvIsShown ==
    ASSUME MediaInv, NEW p \in DOMAIN config
    PROVE  Shown(p)
BY DEF MediaInv, GoodRecords, Good, DefaultIsLoaded, Shown

-----------------------------------------------------------------------------
(***************************************************************************)
(* The parts of a configuration.                                           *)
(***************************************************************************)

\* The first of a list that is not empty.
LEMMA FirstOf ==
    ASSUME NEW S, NEW s \in Seq(S), s # <<>>
    PROVE  1 \in DOMAIN s /\ Head(s) = s[1] /\ s[1] \in S /\ Len(s) \in Nat /\ Len(s) >= 1
BY EmptySeq, HeadTailProperties, LenProperties, ElementOfSeq

LEMMA BookendSizes ==
    /\ Range(Bookend) = IF CustomRange THEN {MinSize, MaxSize} ELSE {}
    /\ \E S : Bookend \in Seq(S)
<1>1. CASE CustomRange
  <2>1. Bookend = <<MinSize, MaxSize>> /\ DOMAIN <<MinSize, MaxSize>> = {1, 2}
    BY <1>1 DEF Bookend
  <2>2. <<MinSize, MaxSize>> \in Seq({MinSize, MaxSize})
    OBVIOUS
  <2>3. Range(<<MinSize, MaxSize>>) = {MinSize, MaxSize}
    BY <2>1 DEF Range
  <2> QED
    BY <1>1, <2>1, <2>2, <2>3
<1>2. CASE ~CustomRange
  <2>1. Bookend = <<>> /\ <<>> \in Seq({})
    BY <1>2 DEF Bookend
  <2>2. Range(<<>>) = {}
    BY DEF Range
  <2> QED
    BY <1>2, <2>1, <2>2
<1> QED
  BY <1>1, <1>2

\* media-supported starts with the names, and has all of them.
LEMMA SupportedNames ==
    ASSUME NEW p, Shown(p), config[p].names # <<>>
    PROVE  /\ MediaDefault(config[p]) = config[p].names[1]
           /\ config[p].names[1] \in Range(MediaSupported(config[p]))
<1> DEFINE names == config[p].names
           all == names \o Bookend
<1>1. names \in Seq(Media) /\ names # <<>>
  BY DEF Shown, IsConfig
<1>2. 1 \in DOMAIN names /\ Len(names) \in Nat /\ Len(names) >= 1
  BY <1>1, FirstOf
<1>3. PICK S : Bookend \in Seq(S)
  BY BookendSizes
<1> HIDE DEF names
<1>4. names \in Seq(Media \cup S) /\ Bookend \in Seq(Media \cup S)
  BY <1>1, <1>3, SeqMonotonic, Zenon
<1>5. /\ all \in Seq(Media \cup S)
      /\ Len(all) = Len(names) + Len(Bookend)
      /\ \A i \in 1 .. Len(names) + Len(Bookend) :
            all[i] = IF i <= Len(names) THEN names[i] ELSE Bookend[i - Len(names)]
  BY <1>4, ConcatProperties
<1>6. Len(Bookend) \in Nat
  BY <1>3, LenProperties
<1>7. 1 \in 1 .. Len(all) /\ all[1] = names[1]
  BY <1>2, <1>5, <1>6
<1>8. all # <<>> /\ Head(all) = all[1] /\ DOMAIN all = 1 .. Len(all)
  BY <1>5, <1>7, EmptySeq, HeadTailProperties, LenProperties
<1> QED
  BY <1>7, <1>8 DEF MediaDefault, MediaSupported, Range, names

\* A printer that lists a size lists a name; the first size is the one of the first
\* name, the default, and, with a roll loaded, the one of that roll.
LEMMA FirstSize ==
    ASSUME NEW p, Shown(p), ListsASize(p)
    PROVE  /\ config[p].names # <<>>
           /\ 1 \in DOMAIN config[p].names /\ 1 \in DOMAIN config[p].sizes
           /\ config[p].sizes[1] = config[p].names[1]
           /\ DefaultSizeOf(config[p]) = config[p].sizes[1]
           /\ ready[p] # NoMedia => ready[p] = config[p].names[1]
<1>1. config[p].sizes \in Seq(Media) /\ config[p].sizes # <<>> /\ config[p].names \in Seq(Media)
  BY DEF Shown, IsConfig, ListsASize
<1>2. 1 \in DOMAIN config[p].sizes /\ Head(config[p].sizes) = config[p].sizes[1]
      /\ Len(config[p].sizes) >= 1 /\ Len(config[p].sizes) \in Nat
  BY <1>1, FirstOf
<1>3. Len(config[p].names) >= 1 /\ Len(config[p].names) \in Nat
  BY <1>1, <1>2, LenProperties DEF Shown, Tidy
<1>4. config[p].names # <<>>
  BY <1>3, <1>1, EmptySeq
<1>5. 1 \in DOMAIN config[p].names /\ Head(config[p].names) = config[p].names[1]
  BY <1>1, <1>4, FirstOf
<1>6. config[p].sizes[1] = config[p].names[1]
  BY <1>2 DEF Shown, Tidy
<1>7. ready[p] # NoMedia => ready[p] = config[p].names[1]
  BY <1>5 DEF Shown, IsDefault
<1> QED
  BY <1>1, <1>2, <1>4, <1>5, <1>6, <1>7 DEF DefaultSizeOf

\* A collection is that of a name, of a bookend, the default, or that of the roll.
LEMMA CollectionsAre ==
    ASSUME NEW p, Shown(p), NEW col \in Collections(p)
    PROVE  \/ \E i \in DOMAIN config[p].names :
                 col = Collection(config[p].names[i],
                                  IF i \in DOMAIN config[p].sizes THEN config[p].sizes[i]
                                  ELSE DefaultSizeOf(config[p]))
           \/ \E size \in Range(Bookend) : col = Collection(size, size)
           \/ col = Collection(MediaDefault(config[p]), DefaultSizeOf(config[p]))
           \/ ready[p] # NoMedia /\ col = Collection(ready[p], ready[p])
BY DEF Collections, MediaColDatabase, MediaColDefault, MediaColReady

-----------------------------------------------------------------------------
(***************************************************************************)
(* The three promises to a client.                                         *)
(***************************************************************************)

\* A size that is listed, or a bookend, is supported and so is its margin.
LEMMA SupportedSize ==
    ASSUME NEW c, NEW size \in Range(c.sizes) \cup Range(Bookend)
    PROVE  SizeIsSupported(c, size) /\ SideMargin(size) \in SideMarginsSupported(c)
<1>1. SizeIsSupported(c, size)
  BY BookendSizes DEF SizeIsSupported
<1>2. SideMargin(size) \in {SideMargin(x) : x \in Range(c.sizes) \cup Range(Bookend)}
  OBVIOUS
<1>3. SideMargin(size) \in SideMarginsSupported(c)
  BY <1>2 DEF SideMarginsSupported
<1> QED
  BY <1>1, <1>3

LEMMA ListedSizes ==
    ASSUME NEW p, Shown(p), ListsASize(p), NEW col \in Collections(p)
    PROVE  /\ col.margin \in SideMarginsSupported(config[p])
           /\ SizeIsSupported(config[p], col.size)
<1> DEFINE c == config[p]
<1>1. /\ 1 \in DOMAIN c.sizes /\ DefaultSizeOf(c) = c.sizes[1]
      /\ ready[p] # NoMedia => ready[p] = c.sizes[1]
  BY FirstSize
<1>2. DefaultSizeOf(c) \in Range(c.sizes) /\ \A i \in DOMAIN c.sizes : c.sizes[i] \in Range(c.sizes)
  BY <1>1 DEF Range
<1>3. \E name, size : size \in Range(c.sizes) \cup Range(Bookend) /\ col = Collection(name, size)
  BY <1>1, <1>2, CollectionsAre
<1>4. PICK size \in Range(c.sizes) \cup Range(Bookend) :
          col.size = size /\ col.margin = SideMargin(size)
  BY <1>3 DEF Collection
<1> QED
  BY <1>4, SupportedSize

\* Without a list of sizes, what is shown is a bookend, or has the size of the code
\* or of the roll.
LEMMA UnlistedSizes ==
    ASSUME NEW p, Shown(p), ~ListsASize(p), NEW col \in Collections(p)
    PROVE  \/ /\ col.margin \in SideMarginsSupported(config[p])
              /\ SizeIsSupported(config[p], col.size)
           \/ col.size \in {DefaultSize, ready[p]}
<1>1. config[p].sizes = <<>> /\ DefaultSizeOf(config[p]) = DefaultSize
  BY DEF ListsASize, DefaultSizeOf
<1>2. CASE \E size \in Range(Bookend) : col = Collection(size, size)
  BY <1>2, SupportedSize DEF Collection
<1>3. CASE \E name : col = Collection(name, DefaultSize) \/ col = Collection(name, ready[p])
  BY <1>3 DEF Collection
<1> QED
  BY <1>1, <1>2, <1>3, CollectionsAre

\* A collection that a client is shown has a size and a margin of the supported sets,
\* unless the printer lists no size and that of the collection is the 40 x 30 mm of
\* the code or the size of the loaded roll (get_printer_attributes,
\* set_ready_media).
THEOREM CollectionsAreSupported == ServerSpec => []ShownIsSupported
<1>1. MediaInv => ShownIsSupported
  BY InvIsShown, ListedSizes, UnlistedSizes DEF ShownIsSupported
<1> QED
  BY <1>1, MediaInvariant, PTL

LEMMA ReadySelectable ==
    ASSUME NEW p, Shown(p), HasMedia(config[p])
    PROVE  /\ MediaReady(p) \in Range(MediaSupported(config[p]))
           /\ \E col \in MediaColDatabase(config[p]) : col.name = MediaReady(p)
           /\ ListsASize(p) => MediaColReady(p) \in MediaColDatabase(config[p])
<1> DEFINE c == config[p]
<1>1. /\ MediaReady(p) \in Range(MediaSupported(c))
      /\ \E col \in MediaColDatabase(c) : col.name = MediaReady(p)
  <2>1. CASE c.names # <<>>
    <3>1. MediaDefault(c) = c.names[1] /\ c.names[1] \in Range(MediaSupported(c))
      BY <2>1, SupportedNames
    <3>2. Head(c.names) = c.names[1]
      BY <2>1, FirstOf DEF Shown, IsConfig
    <3>3. MediaReady(p) = c.names[1]
      BY <3>1, <3>2 DEF MediaReady, Shown, IsDefault
    <3>4. 1 \in DOMAIN c.names
      BY <2>1, FirstOf DEF Shown, IsConfig
    <3>5. \E size : Collection(c.names[1], size) \in MediaColDatabase(c)
      BY <3>4 DEF MediaColDatabase
    <3> QED
      BY <3>1, <3>3, <3>5 DEF Collection
  <2>2. CASE c.names = <<>>
    <3>1. ready[p] = NoMedia
      BY <2>2 DEF Shown, IsDefault
    <3>2. PICK S : Bookend \in Seq(S)
      BY BookendSizes
    <3>3. MediaSupported(c) = Bookend
      BY <2>2, <3>2, ConcatEmptySeq DEF MediaSupported
    <3>4. 1 \in DOMAIN Bookend /\ Head(Bookend) = Bookend[1]
      BY <3>2, <3>3, FirstOf DEF HasMedia
    <3>5. MediaReady(p) = Bookend[1] /\ Bookend[1] \in Range(Bookend)
      BY <3>1, <3>3, <3>4 DEF MediaReady, MediaDefault, Range
    <3>6. Collection(Bookend[1], Bookend[1]) \in MediaColDatabase(c)
      BY <3>5 DEF MediaColDatabase
    <3> QED
      BY <3>3, <3>5, <3>6 DEF Collection
  <2> QED
    BY <2>1, <2>2
<1>2. ASSUME ListsASize(p) PROVE MediaColReady(p) \in MediaColDatabase(c)
  <2>1. /\ c.names # <<>> /\ 1 \in DOMAIN c.names /\ 1 \in DOMAIN c.sizes
        /\ c.sizes[1] = c.names[1] /\ DefaultSizeOf(c) = c.sizes[1]
        /\ ready[p] # NoMedia => ready[p] = c.names[1]
    BY <1>2, FirstSize
  <2>2. MediaDefault(c) = c.names[1]
    BY <2>1, SupportedNames
  <2>3. MediaColReady(p) = Collection(c.names[1], c.sizes[1])
    BY <2>1, <2>2 DEF MediaColReady, MediaColDefault
  <2>4. Collection(c.names[1], c.sizes[1]) \in MediaColDatabase(c)
    BY <2>1 DEF MediaColDatabase
  <2> QED
    BY <2>3, <2>4
<1> QED
  BY <1>1, <1>2

\* Without a list of sizes the default name has the default size in the database.
LEMMA DefaultIsListed ==
    ASSUME NEW p, Shown(p), ~ListsASize(p), config[p].names # <<>>, ready[p] = NoMedia
    PROVE  MediaColReady(p) \in MediaColDatabase(config[p])
<1>1. config[p].sizes = <<>> /\ DOMAIN <<>> = {}
  BY DEF ListsASize
<1>2. 1 \in DOMAIN config[p].names /\ 1 \notin DOMAIN config[p].sizes
  BY <1>1, FirstOf DEF Shown, IsConfig
<1>3. MediaColReady(p) = Collection(config[p].names[1], DefaultSizeOf(config[p]))
  BY SupportedNames DEF MediaColReady, MediaColDefault
<1> QED
  BY <1>2, <1>3 DEF MediaColDatabase

\* The loaded roll can be asked for: by name, and its name has a collection in the
\* database; media-col-ready is one of the database too, unless the printer lists no
\* size and either has a roll or lists no name (set_ready_media,
\* get_printer_attributes).
THEOREM ReadyCanBeAskedFor == ServerSpec => []ReadyIsSelectable
<1>1. MediaInv => ReadyIsSelectable
  BY InvIsShown, ReadySelectable, DefaultIsListed DEF ReadyIsSelectable
<1> QED
  BY <1>1, MediaInvariant, PTL

\* A name of the configuration whose size is known stands at the index of its size.
LEMMA KnownSizeOfName ==
    ASSUME NEW p, Shown(p), NEW i \in DOMAIN config[p].names,
           SizeIsSupported(config[p], config[p].names[i])
    PROVE  i \in DOMAIN config[p].sizes /\ config[p].sizes[i] = config[p].names[i]
<1> DEFINE c == config[p]
<1>1. c.names \in Seq(Media) /\ c.sizes \in Seq(Media) /\ Tidy(c)
  BY DEF Shown, IsConfig
<1>2. c.names[i] \in Media
  BY <1>1, ElementOfSeq, LenProperties
<1>3. PICK j \in DOMAIN c.sizes : c.sizes[j] = c.names[i]
  BY <1>2, SizeAssumption DEF SizeIsSupported, Range
<1>4. j \in DOMAIN c.names /\ c.names[j] = c.names[i]
  BY <1>1, <1>3, LenProperties DEF Tidy
<1>5. j = i
  BY <1>1, <1>4 DEF Tidy, IsInjective
<1> QED
  BY <1>3, <1>5

LEMMA NameKeepsItsSize ==
    ASSUME NEW p, Shown(p), config[p].names # <<>>, NEW col \in Collections(p),
           SizeIsSupported(config[p], col.name)
    PROVE  col.size = col.name
<1> DEFINE c == config[p]
<1>1. 1 \in DOMAIN c.names /\ MediaDefault(c) = c.names[1]
  BY SupportedNames, FirstOf DEF Shown, IsConfig
<1>2. CASE \E i \in DOMAIN c.names :
              col = Collection(c.names[i], IF i \in DOMAIN c.sizes THEN c.sizes[i]
                                           ELSE DefaultSizeOf(c))
  BY <1>2, KnownSizeOfName DEF Collection
<1>3. CASE \E size : col = Collection(size, size)
  BY <1>3 DEF Collection
<1>4. CASE col = Collection(MediaDefault(c), DefaultSizeOf(c))
  <2>1. col.name = c.names[1] /\ col.size = DefaultSizeOf(c)
    BY <1>1, <1>4 DEF Collection
  <2>2. 1 \in DOMAIN c.sizes /\ c.sizes[1] = c.names[1]
    BY <1>1, <2>1, KnownSizeOfName
  <2>3. c.sizes # <<>>
    BY <2>2
  <2>4. DefaultSizeOf(c) = c.sizes[1]
    BY <2>3, FirstSize DEF ListsASize
  <2> QED
    BY <2>1, <2>2, <2>4
<1> QED
  BY <1>2, <1>3, <1>4, CollectionsAre

LEMMA NameHasASize ==
    ASSUME NEW p, Shown(p), NEW col \in Collections(p)
    PROVE  col.size = col.name \/ col.size = DefaultSizeOf(config[p])
<1>1. \A i \in DOMAIN config[p].sizes : config[p].sizes[i] = config[p].names[i]
  BY DEF Shown, Tidy
<1> QED
  BY <1>1, CollectionsAre DEF Collection

\* A name is shown with its own size, or else with the default size; the latter only
\* if it is beyond the list of sizes, or the printer lists no name
\* (get_printer_attributes).
THEOREM NamesAreNotMixedUp == ServerSpec => []NamesKeepTheirSize
<1>1. MediaInv => NamesKeepTheirSize
  BY InvIsShown, NameKeepsItsSize, NameHasASize DEF NamesKeepTheirSize
<1> QED
  BY <1>1, MediaInvariant, PTL

=============================================================================
