----------------------------- MODULE LoadedMedia -----------------------------
(***************************************************************************)
(* The media a printer offers and the roll it has loaded (printer.rs): two *)
(* vectors of its configuration, media_names and media_sizes, aligned by   *)
(* index, of which the second may be shorter, and ready_media.             *)
(*                                                                         *)
(* A roll is a member of Media, and so is its size: the size of a roll is  *)
(* named by the roll, because a name carries the dimensions (the media     *)
(* form builds it from them).  Printers are told apart by device URI; that *)
(* their names differ too is left to the application (make_config).        *)
(***************************************************************************)
EXTENDS Naturals, Sequences, SequencesExt

CONSTANTS
    Printer,    \* the printers
    Media,      \* the rolls
    NoMedia,    \* ready_media is None
    Factory     \* what make_config returns for the device of each printer

\* sizes is "index-aligned with media_names but may be shorter", and no name is
\* listed twice.
Tidy(c) ==
    /\ IsInjective(c.names)
    /\ Len(c.sizes) <= Len(c.names)
    /\ \A i \in DOMAIN c.sizes : c.sizes[i] = c.names[i]

IsConfig(c) == c.names \in Seq(Media) /\ c.sizes \in Seq(Media)

ASSUME MediaAssumption ==
    /\ NoMedia \notin Media
    /\ DOMAIN Factory = Printer
    /\ \A p \in Printer : IsConfig(Factory[p]) /\ Tidy(Factory[p])

VARIABLES
    config,     \* the configuration of every registered printer
    ready       \* ready_media of every printer

mediaVars == <<config, ready>>

NoPrinters == [p \in {} |-> {}]

\* f with k mapped to v.
With(f, k, v) == [x \in {k} \cup DOMAIN f |-> IF x = k THEN v ELSE f[x]]

IsConfigs(f) == DOMAIN f \subseteq Printer /\ \A p \in DOMAIN f : IsConfig(f[p])

MediaInit ==
    /\ config = NoPrinters
    /\ ready = [p \in Printer |-> NoMedia]

-----------------------------------------------------------------------------
(***************************************************************************)
(* set_ready_media, one hold of the registry lock.                         *)
(***************************************************************************)

\* A fault: the size of a roll that moves to the front stays where it was.
PlaceFirstLeavingSize(c, m) ==
    [names |-> Cons(m, SelectSeq(c.names, LAMBDA n : n # m)),
     sizes |-> Cons(m, c.sizes)]

\* Where a roll is listed; 0 if it is not.
PlaceOf(m, names) == SelectInSeq(names, LAMBDA n : n = m)

PlaceFirst(c, m) ==
    LET i == PlaceOf(m, c.names)
        Without(s) == IF i \in DOMAIN s THEN RemoveAt(s, i) ELSE s
    IN  [names |-> Cons(m, Without(c.names)), sizes |-> Cons(m, Without(c.sizes))]

IsDefault(p, m) == config[p].names # <<>> /\ Head(config[p].names) = m

\* A fault: a roll that is listed already is only shown as loaded.
SetReadyMediaIfNew(p, m) ==
    /\ config' = IF \E i \in DOMAIN config[p].names : config[p].names[i] = m
                 THEN config ELSE [config EXCEPT ![p] = PlaceFirst(@, m)]
    /\ ready' = [ready EXCEPT ![p] = m]

\* A fault: the roll is published, and not enumerated.
SetReadyMediaUnlisted(p, m) ==
    /\ ready' = [ready EXCEPT ![p] = m]
    /\ UNCHANGED config

SetReadyMedia(p, m) ==
    /\ config' = IF IsDefault(p, m) THEN config ELSE [config EXCEPT ![p] = PlaceFirst(@, m)]
    /\ ready' = [ready EXCEPT ![p] = m]

\* A fault: only a roll that was not listed counts as a change.
MediaChangesIfNew(p, m) == \A i \in DOMAIN config[p].names : config[p].names[i] # m

\* What set_ready_media returns.
MediaChanges(p, m) == ~IsDefault(p, m) \/ ready[p] # m

-----------------------------------------------------------------------------

\* The two vectors stay aligned and without duplicates whichever rolls come and
\* go, in memory: every size belongs to the name of its index (set_ready_media,
\* which removes from one of them or from both and inserts into both).
TidyMedia == \A p \in DOMAIN config : Tidy(config[p])

\* A loaded roll is the default, with its own size: what media-ready shows and
\* what media-default and media-col-default show agree.  (A configuration with
\* names but no sizes at all has no size to show for its first name.)
DefaultIsLoaded ==
    \A p \in DOMAIN config :
        ready[p] # NoMedia =>
            /\ IsDefault(p, ready[p])
            /\ config[p].sizes # <<>> => Head(config[p].sizes) = ready[p]

=============================================================================
