--------------------------- MODULE MediaAttributes ---------------------------
(***************************************************************************)
(* What Get-Printer-Attributes says of the media of a printer              *)
(* (attributes.rs): the media names, the media-col collections and the     *)
(* sets that a client checks them against.                                 *)
(*                                                                         *)
(* A size is named as in LoadedMedia, and of its dimensions only the width *)
(* is used.  The bookends of the custom range are sizes too, and a bookend *)
(* has its size for a name, as the PWG name says its dimensions.           *)
(* Resolution, head and range are those of every printer.  Only the side   *)
(* margins vary, and left and right are the same.                          *)
(***************************************************************************)
EXTENDS LoadedMedia, Integers

CONSTANTS
    DefaultSize,        \* 40 x 30 mm, taken when no size is configured
    MinSize, MaxSize,   \* media_size_min and media_size_max
    CustomRange,        \* custom_media_range: whether the two make a range
    Width,              \* the width of each size, in hundredths of a millimetre
    Dpi,                \* dpi
    HeadDots            \* printhead_width_dots

Bookend == IF CustomRange THEN <<MinSize, MaxSize>> ELSE <<>>

ASSUME SizeAssumption ==
    /\ CustomRange \in BOOLEAN
    /\ {MinSize, MaxSize} \cap Media = {}
    /\ Width \in [Media \cup {DefaultSize, MinSize, MaxSize} -> Nat]
    /\ Dpi \in Int /\ HeadDots \in Nat

-----------------------------------------------------------------------------
(***************************************************************************)
(* The attributes.                                                         *)
(***************************************************************************)

\* side_margin_hmm: half of what the print head does not reach.
SideMargin(size) ==
    IF Dpi <= 0 \/ HeadDots = 0 THEN 0
    ELSE LET unreached == Width[size] - (HeadDots * 2540) \div Dpi
         IN  IF unreached > 0 THEN unreached \div 2 ELSE 0

Collection(name, size) == [name |-> name, size |-> size, margin |-> SideMargin(size)]

MediaSupported(c) == c.names \o Bookend

\* Every media attribute but the margins is left out if there is no media.
HasMedia(c) == MediaSupported(c) # <<>>

DefaultSizeOf(c) == IF c.sizes = <<>> THEN DefaultSize ELSE Head(c.sizes)

MediaDefault(c) == Head(MediaSupported(c))

MediaColDefault(c) == Collection(MediaDefault(c), DefaultSizeOf(c))

\* A fault: the whole list of keywords is paired with the sizes.
DatabaseZipped(c) ==
    {Collection(MediaSupported(c)[i],
                IF i \in DOMAIN c.sizes THEN c.sizes[i] ELSE DefaultSizeOf(c)) :
        i \in DOMAIN MediaSupported(c)}

\* A name beyond the sizes has the default size.
MediaColDatabase(c) ==
    {Collection(c.names[i], IF i \in DOMAIN c.sizes THEN c.sizes[i] ELSE DefaultSizeOf(c)) :
        i \in DOMAIN c.names}
    \cup {Collection(size, size) : size \in Range(Bookend)}

\* media-size-supported: fixed sizes, and one range.
SizeIsSupported(c, size) ==
    \/ size \in Range(c.sizes)
    \/ CustomRange /\ size \in {MinSize, MaxSize}

\* A fault: the margins of the bookends are not among the supported ones.
SideMarginsOfSizes(c) ==
    LET margins == {SideMargin(size) : size \in Range(c.sizes)}
    IN  IF margins = {} THEN {0} ELSE margins

SideMarginsSupported(c) ==
    LET margins == {SideMargin(size) : size \in Range(c.sizes) \cup Range(Bookend)}
    IN  IF margins = {} THEN {0} ELSE margins

MediaReady(p) == IF ready[p] = NoMedia THEN MediaDefault(config[p]) ELSE ready[p]

MediaColReady(p) ==
    IF ready[p] = NoMedia THEN MediaColDefault(config[p]) ELSE Collection(ready[p], ready[p])

-----------------------------------------------------------------------------
(***************************************************************************)
(* Consistency.  A client that builds a job from one of the collections    *)
(* must find its members in the supported sets.                            *)
(***************************************************************************)

\* None of them is there if there is no media.
Collections(p) ==
    IF HasMedia(config[p])
    THEN MediaColDatabase(config[p]) \cup {MediaColDefault(config[p]), MediaColReady(p)}
    ELSE {}

ListsASize(p) == config[p].sizes # <<>>

\* Margin and size of a collection are supported, whichever rolls came and went,
\* although the sets are computed from the list of sizes alone and the collections
\* from the names and the loaded roll too (get_printer_attributes, set_ready_media).
\* The exception is a printer that lists no size: those of its collections that have
\* the 40 x 30 mm of the code, or the size of the loaded roll, are unsupported.
ShownIsSupported ==
    \A p \in DOMAIN config : \A col \in Collections(p) :
        \/ /\ col.margin \in SideMarginsSupported(config[p])
           /\ SizeIsSupported(config[p], col.size)
        \/ ~ListsASize(p) /\ col.size \in {DefaultSize, ready[p]}

\* The loaded roll can be asked for: its name is in media-supported, "CUPS rejects
\* a media value that is not in it", media-col-database has a collection of that
\* name, and media-col-ready is one of the database (set_ready_media in printer.rs,
\* get_printer_attributes).  Not so the latter for a printer that lists no size: the
\* database has 40 x 30 mm for the name of the roll, and where it lists no name
\* either, the bookend is shown as ready with the size of another.
ReadyIsSelectable ==
    \A p \in DOMAIN config : HasMedia(config[p]) =>
        /\ MediaReady(p) \in Range(MediaSupported(config[p]))
        /\ \E col \in MediaColDatabase(config[p]) : col.name = MediaReady(p)
        /\ \/ MediaColReady(p) \in MediaColDatabase(config[p])
           \/ ~ListsASize(p) /\ (config[p].names = <<>> \/ ready[p] # NoMedia)

\* Which size a name is shown with: its own, or else the default size, and that only
\* for a name beyond the list of sizes.  So a listed size and a bookend are never
\* contradicted, and no name gets the size of another but that of the default (the
\* pairing in get_printer_attributes; set_ready_media, which moves names and sizes).
\* A printer that lists no name shows a bookend with the default size too.
NamesKeepTheirSize ==
    \A p \in DOMAIN config : \A col \in Collections(p) :
        \/ col.size = col.name
        \/ /\ col.size = DefaultSizeOf(config[p])
           /\ config[p].names = <<>> \/ ~SizeIsSupported(config[p], col.name)

=============================================================================
