----------------------------- MODULE CatalogSync -----------------------------
(***************************************************************************)
(* The catalogue of one source: syncXtreamSource of                        *)
(* services/xtream-service.ts and syncM3USource of services/m3u-service.ts *)
(* bring it up to date, services/catalog-prune-guard.ts says when what the *)
(* source no longer lists may be deactivated, and                          *)
(* services/sync-snapshot-service.ts takes a list of the channels before   *)
(* each sync and restores it.                                              *)
(*                                                                         *)
(* A sync lists, writes, counts and deactivates in separate calls of the   *)
(* database, and so does a rollback.  Movies and series are alike: both    *)
(* are titles.  A snapshot is named by its sync, and is the set of the     *)
(* channels it holds as active: the others restore to inactive.            *)
(***************************************************************************)
EXTENDS Integers, FiniteSets

CONSTANTS
  Channel,  \* channels the source may list
  Title,    \* and its movies and series
  Imported, \* those that earlier syncs made active
  Sync,     \* calls of a sync
  Rollback, \* calls of rollbackSyncSnapshot that can be in flight
  Kinds,    \* source types to look at
  CatalogHazards, \* the events of CatalogHazard that may happen
  MaxOccurred     \* bound of how many of them

CatalogHazard == {
  "overlap",   \* a sync or a rollback writes while a sync is going on
  "throw",     \* a call of the database or of the provider fails
  "crash",     \* the process dies, or cannot save the end of a sync
  "duplicate", \* the provider lists an item twice
  "merge",     \* a channel is found in another source, as mergeCatalog asks
  "hide",      \* an admin or a cleanup deactivates an item
  "relist"}    \* the provider lists a title again that is not active

Item == Channel \cup Title
Family == {Channel, Title}

ASSUME ItemAssumption == IsFiniteSet(Item) /\ Channel \cap Title = {}
ASSUME ImportedAssumption == Imported \subseteq Item
ASSUME KindsAssumption == Kinds \subseteq {"xtream", "m3u"}
ASSUME CatalogHazardsAssumption == CatalogHazards \subseteq CatalogHazard
ASSUME MaxOccurredAssumption == MaxOccurred \in Nat

VARIABLES
  sourceKind, \* XtreamSource or M3USource
  syncStatus, \* of the source
  active,     \* the documents with isActive
  present,    \* the documents that exist
  stage,      \* where each sync is
  families,   \* what each sync imports
  listing,    \* what the provider answered it
  twice,      \* ... and which of it twice
  left,       \* the chunks or the items it has still to write
  counted,    \* how many active channels it counted
  prior,      \* the channels that were active when it took its snapshot
  snapshot,   \* SyncSnapshot.status
  chunks,     \* the channels in the chunks of its snapshot
  restore,    \* each rollback: where it is, of which syncs, what is left
  alone,      \* history: the rollbacks nobody has written against
  occurred    \* history: the events of CatalogHazard that have happened

documents == <<active, present>>
data == <<families, listing, twice, counted, prior>>
snapshots == <<snapshot, chunks>>
rollbacks == <<restore, alone>>
catalogVars == <<sourceKind, syncStatus, documents, stage, left, data, snapshots,
                 rollbacks, occurred>>

Stage == {"new", "starting", "fetching", "previewing", "chunking", "upserting",
          "countingChannels", "countingTitles", "pruningChannels", "pruningTitles",
          "applying", "saving", "failing", "done"}
Kept == {"applied", "rolled_back"}
NoRollback == [at |-> "idle", of |-> {}, left |-> {}]

CatalogTypeOK ==
  /\ sourceKind \in Kinds /\ syncStatus \in {"idle", "syncing", "error"}
  /\ present \subseteq Item /\ active \subseteq present
  /\ stage \in [Sync -> Stage]
  /\ families \in [Sync -> SUBSET Family]
  /\ listing \in [Sync -> SUBSET Item] /\ twice \in [Sync -> SUBSET Item]
  /\ left \in [Sync -> SUBSET Item]
  /\ counted \in [Sync -> 0 .. Cardinality(Channel)]
  /\ prior \in [Sync -> SUBSET Channel]
  /\ snapshot \in [Sync -> {"none", "preview", "applied", "rolled_back"}]
  /\ chunks \in [Sync -> SUBSET Channel]
  /\ restore \in [Rollback -> [at : {"idle", "deactivating", "restoring"},
                               of : SUBSET Sync, left : SUBSET Channel]]
  /\ alone \subseteq Rollback /\ occurred \subseteq CatalogHazard

CatalogInit ==
  /\ sourceKind \in Kinds /\ syncStatus = "idle"
  /\ present = (IF sourceKind = "m3u" THEN Imported \cap Channel ELSE Imported)
  /\ active = present
  /\ stage = [s \in Sync |-> "new"]
  /\ families = [s \in Sync |-> {}]
  /\ listing = [s \in Sync |-> {}] /\ twice = [s \in Sync |-> {}]
  /\ left = [s \in Sync |-> {}]
  /\ counted = [s \in Sync |-> 0] /\ prior = [s \in Sync |-> {}]
  /\ snapshot = [s \in Sync |-> "none"] /\ chunks = [s \in Sync |-> {}]
  /\ restore = [b \in Rollback |-> NoRollback]
  /\ alone = {} /\ occurred = {}

-----------------------------------------------------------------------------
(* Helpers.                                                                *)

SyncAt(s, place) == stage' = [stage EXCEPT ![s] = place]

(* An event happens only if it may, and is remembered.                     *)
Event(kind, happens) ==
  /\ happens => /\ kind \in CatalogHazards
                /\ kind \in occurred \/ Cardinality(occurred) < MaxOccurred
  /\ occurred' = IF happens THEN occurred \cup {kind} ELSE occurred

(* The sync is over, and with it what it knew.  Nobody reads the chunks of *)
(* a snapshot that never was applied.                                      *)
SyncEnds(s) ==
  /\ SyncAt(s, "done")
  /\ left' = [left EXCEPT ![s] = {}]
  /\ families' = [families EXCEPT ![s] = {}]
  /\ listing' = [listing EXCEPT ![s] = {}] /\ twice' = [twice EXCEPT ![s] = {}]
  /\ counted' = [counted EXCEPT ![s] = 0]
  /\ IF snapshot[s] \in Kept
     THEN UNCHANGED <<prior, snapshots>>
     ELSE /\ prior' = [prior EXCEPT ![s] = {}] /\ chunks' = [chunks EXCEPT ![s] = {}]
          /\ UNCHANGED snapshot

Syncing(s) == stage[s] \notin {"new", "done"}

(* The channels are written: no rollback but those of by is alone.         *)
Disturb(by) == alone' = alone \cap by

(* How many titles of a family, or channels, the sync counted as it wrote. *)
Fetched(s, f) == Cardinality(listing[s] \cap f) + Cardinality(twice[s] \cap f)

-----------------------------------------------------------------------------
(* A sync: check and save the status, ask the provider, take a snapshot.   *)

Check(s) ==
  /\ stage[s] = "new" /\ syncStatus # "syncing"
  /\ Event("overlap", \/ \E t \in Sync : Syncing(t)
                      \/ \E b \in Rollback : restore[b].at # "idle")
  /\ SyncAt(s, "starting")
  /\ UNCHANGED <<sourceKind, syncStatus, documents, left, data, snapshots, rollbacks>>

(* An Xtream source whose channels are dead is synced for its titles only. *)
Start(s) ==
  /\ stage[s] = "starting"
  /\ syncStatus' = "syncing"
  /\ \E fs \in IF sourceKind = "m3u" THEN {{Channel}} ELSE {Family, {Title}} :
       families' = [families EXCEPT ![s] = fs]
  /\ SyncAt(s, "fetching")
  /\ UNCHANGED <<sourceKind, documents, left, listing, twice, counted, prior, snapshots,
                 rollbacks, occurred>>

(* A short answer is an answer; a playlist must have a playable channel.   *)
Fetch(s) ==
  /\ stage[s] = "fetching"
  /\ \E l \in SUBSET UNION families[s] :
       /\ sourceKind = "m3u" => l # {}
       /\ listing' = [listing EXCEPT ![s] = l]
       /\ \E d \in SUBSET l :
            /\ Cardinality(d) <= 1 /\ (sourceKind = "m3u" => d = {})
            /\ Event("duplicate", d # {})
            /\ twice' = [twice EXCEPT ![s] = d]
       /\ left' = [left EXCEPT ![s] = IF Channel \in families[s] THEN @ ELSE l]
  /\ SyncAt(s, IF Channel \in families[s] THEN "previewing" ELSE "upserting")
  /\ UNCHANGED <<sourceKind, syncStatus, documents, families, counted, prior, snapshots,
                 rollbacks>>

(* createSyncPreview lists the channels, ...                               *)
Preview(s) ==
  /\ stage[s] = "previewing"
  /\ prior' = [prior EXCEPT ![s] = active \cap Channel]
  /\ left' = [left EXCEPT ![s] = active \cap Channel]
  /\ snapshot' = [snapshot EXCEPT ![s] = "preview"]
  /\ SyncAt(s, "chunking")
  /\ UNCHANGED <<sourceKind, syncStatus, documents, families, listing, twice, counted, chunks,
                 rollbacks, occurred>>

(* ... writes them chunk by chunk, ...                                     *)
WriteChunk(s, c) ==
  /\ stage[s] = "chunking" /\ c \in left[s]
  /\ chunks' = [chunks EXCEPT ![s] = @ \cup {c}]
  /\ left' = [left EXCEPT ![s] = @ \ {c}]
  /\ UNCHANGED <<sourceKind, syncStatus, documents, stage, data, snapshot, rollbacks, occurred>>

(* Mutant: the catalogue is written before the snapshot is complete.       *)
ChunkedAlways(s) == TRUE

Chunked(s) == left[s] = {}

(* ... and returns.                                                        *)
PreviewTaken(s) ==
  /\ stage[s] = "chunking" /\ Chunked(s)
  /\ left' = [left EXCEPT ![s] = listing[s]]
  /\ SyncAt(s, "upserting")
  /\ UNCHANGED <<sourceKind, syncStatus, documents, data, snapshots, rollbacks, occurred>>

-----------------------------------------------------------------------------
(* The items are written.                                                  *)

(* A channel becomes active; a title only when it is new.                  *)
Upsert(s, i) ==
  /\ stage[s] = "upserting" /\ i \in left[s]
  /\ left' = [left EXCEPT ![s] = @ \ {i}]
  /\ present' = present \cup {i}
  /\ active' = IF i \in Title \cap present THEN active ELSE active \cup {i}
  /\ Event("relist", i \in (Title \cap present) \ active)
  /\ IF i \in Channel THEN Disturb({}) ELSE UNCHANGED alone
  /\ UNCHANGED <<sourceKind, syncStatus, stage, data, snapshots, restore>>

(* The channel is a backup of another source's: only the count grows.      *)
MergeMatched(s, c) ==
  /\ stage[s] = "upserting" /\ sourceKind = "xtream" /\ c \in left[s] \cap Channel
  /\ left' = [left EXCEPT ![s] = @ \ {c}]
  /\ Event("merge", TRUE)
  /\ UNCHANGED <<sourceKind, syncStatus, documents, stage, data, snapshots, rollbacks>>

(* Only Xtream syncs are guarded.                                          *)
Upserted(s) ==
  /\ stage[s] = "upserting" /\ left[s] = {}
  /\ SyncAt(s, IF sourceKind = "m3u" THEN "pruningChannels"
               ELSE IF Channel \in families[s] THEN "countingChannels" ELSE "countingTitles")
  /\ UNCHANGED <<sourceKind, syncStatus, documents, left, data, snapshots, rollbacks, occurred>>

-----------------------------------------------------------------------------
(* decideCatalogPrune: counts, then one verdict for all families.          *)

CountChannels(s) ==
  /\ stage[s] = "countingChannels"
  /\ counted' = [counted EXCEPT ![s] = Cardinality(active \cap Channel)]
  /\ SyncAt(s, "countingTitles")
  /\ UNCHANGED <<sourceKind, syncStatus, documents, left, families, listing, twice, prior,
                 snapshots, rollbacks, occurred>>

(* Mutant: an empty answer is refused, a short one is not.                 *)
PlausibleIfAny(fetched, previous) == previous > 0 => fetched > 0

(* At least half of what is active, which nothing is not.                  *)
Plausible(fetched, previous) == previous > 0 => 2 * fetched >= previous

CountTitles(s) ==
  /\ stage[s] = "countingTitles"
  /\ SyncAt(s, IF ~( /\ Plausible(Fetched(s, Channel), counted[s])
                     /\ Plausible(Fetched(s, Title), Cardinality(active \cap Title)))
               THEN "applying"
               ELSE IF Channel \in families[s] THEN "pruningChannels" ELSE "pruningTitles")
  /\ UNCHANGED <<sourceKind, syncStatus, documents, left, data, snapshots, rollbacks, occurred>>

PruneChannels(s) ==
  /\ stage[s] = "pruningChannels"
  /\ active' = active \ (Channel \ listing[s])
  /\ Disturb({})
  /\ SyncAt(s, IF sourceKind = "m3u" THEN "applying" ELSE "pruningTitles")
  /\ UNCHANGED <<sourceKind, syncStatus, present, left, data, snapshots, restore, occurred>>

PruneTitles(s) ==
  /\ stage[s] = "pruningTitles"
  /\ active' = active \ (Title \ listing[s])
  /\ SyncAt(s, "applying")
  /\ UNCHANGED <<sourceKind, syncStatus, present, left, data, snapshots, rollbacks, occurred>>

-----------------------------------------------------------------------------
(* The end of a sync.                                                      *)

MarkSnapshotApplied(s) ==
  /\ stage[s] = "applying"
  /\ snapshot' = IF snapshot[s] = "none" THEN snapshot ELSE [snapshot EXCEPT ![s] = "applied"]
  /\ SyncAt(s, "saving")
  /\ UNCHANGED <<sourceKind, syncStatus, documents, left, data, chunks, rollbacks, occurred>>

SaveIdle(s) ==
  /\ stage[s] = "saving"
  /\ syncStatus' = "idle" /\ SyncEnds(s)
  /\ UNCHANGED <<sourceKind, documents, rollbacks, occurred>>

(* A call fails, and the catch block saves the error.                      *)
SyncThrows(s) ==
  /\ Syncing(s) /\ stage[s] \notin {"starting", "failing"}
  /\ Event("throw", TRUE)
  /\ SyncAt(s, "failing") /\ left' = [left EXCEPT ![s] = {}]
  /\ UNCHANGED <<sourceKind, syncStatus, documents, data, snapshots, rollbacks>>

SaveError(s) ==
  /\ stage[s] = "failing"
  /\ syncStatus' = "error" /\ SyncEnds(s)
  /\ UNCHANGED <<sourceKind, documents, rollbacks, occurred>>

(* The process dies, or cannot save: nothing resets syncStatus.            *)
SyncDies(s) ==
  /\ Syncing(s) /\ Event("crash", TRUE)
  /\ SyncEnds(s)
  /\ UNCHANGED <<sourceKind, syncStatus, documents, rollbacks>>

-----------------------------------------------------------------------------
(* rollbackSyncSnapshot.                                                   *)

FindSnapshot(b, s) ==
  /\ restore[b].at = "idle" /\ snapshot[s] = "applied"
  /\ Event("overlap", \E t \in Sync : Syncing(t))
  /\ restore' = [restore EXCEPT ![b] = [at |-> "deactivating", of |-> {s}, left |-> chunks[s]]]
  /\ UNCHANGED <<sourceKind, syncStatus, documents, stage, left, data, snapshots, alone>>

Deactivated == Channel

DeactivateAll(b) ==
  /\ restore[b].at = "deactivating"
  /\ active' = active \ Deactivated
  /\ restore' = [restore EXCEPT ![b].at = "restoring"]
  /\ alone' = {b}
  /\ UNCHANGED <<sourceKind, syncStatus, present, stage, left, data, snapshots, occurred>>

(* One operation of the bulk write.                                        *)
RestoreChannel(b, c) ==
  /\ restore[b].at = "restoring" /\ c \in restore[b].left
  /\ active' = active \cup {c} /\ present' = present \cup {c}
  /\ restore' = [restore EXCEPT ![b].left = @ \ {c}]
  /\ Disturb({b})
  /\ UNCHANGED <<sourceKind, syncStatus, stage, left, data, snapshots, occurred>>

MarkRolledBack(b) ==
  /\ restore[b].at = "restoring" /\ restore[b].left = {}
  /\ snapshot' = [s \in Sync |-> IF s \in restore[b].of THEN "rolled_back" ELSE snapshot[s]]
  /\ restore' = [restore EXCEPT ![b] = NoRollback]
  /\ alone' = alone \ {b}
  /\ UNCHANGED <<sourceKind, syncStatus, documents, stage, left, data, chunks, occurred>>

(* A call fails or the process dies: the snapshot can be applied again.    *)
RollbackFails(b) ==
  /\ restore[b].at # "idle" /\ Event("throw", TRUE)
  /\ restore' = [restore EXCEPT ![b] = NoRollback]
  /\ alone' = alone \ {b}
  /\ UNCHANGED <<sourceKind, syncStatus, documents, stage, left, data, snapshots>>

-----------------------------------------------------------------------------
(* An admin or the catalogue cleanup.                                      *)

Hide(i) ==
  /\ i \in active /\ Event("hide", TRUE)
  /\ active' = active \ {i}
  /\ IF i \in Channel THEN Disturb({}) ELSE UNCHANGED alone
  /\ UNCHANGED <<sourceKind, syncStatus, present, stage, left, data, snapshots, restore>>

CatalogNext ==
  \/ \E s \in Sync :
       \/ Check(s) \/ Start(s) \/ Fetch(s) \/ Preview(s) \/ PreviewTaken(s)
       \/ \E c \in Channel : WriteChunk(s, c) \/ MergeMatched(s, c)
       \/ \E i \in Item : Upsert(s, i)
       \/ Upserted(s) \/ CountChannels(s) \/ CountTitles(s)
       \/ PruneChannels(s) \/ PruneTitles(s)
       \/ MarkSnapshotApplied(s) \/ SaveIdle(s)
       \/ SyncThrows(s) \/ SaveError(s) \/ SyncDies(s)
  \/ \E b \in Rollback :
       \/ \E s \in Sync : FindSnapshot(b, s)
       \/ DeactivateAll(b) \/ \E c \in Channel : RestoreChannel(b, c)
       \/ MarkRolledBack(b) \/ RollbackFails(b)
  \/ \E i \in Item : Hide(i)

CatalogSpec == CatalogInit /\ [][CatalogNext]_catalogVars

-----------------------------------------------------------------------------
(* The inductive invariant.                                                *)

Written == {"countingChannels", "countingTitles", "pruningChannels", "pruningTitles"}

(* An applied snapshot holds the channels that were active before.         *)
SnapshotTells ==
  \A s \in Sync :
    /\ stage[s] \in {"new", "starting", "fetching", "previewing"} =>
         snapshot[s] = "none" /\ chunks[s] = {}
    /\ stage[s] = "chunking" => prior[s] = chunks[s] \cup left[s]
    /\ stage[s] \in Written \cup {"upserting", "applying"} =>
         snapshot[s] = "none" \/ chunks[s] = prior[s]
    /\ snapshot[s] \in Kept => stage[s] \in {"saving", "failing", "done"}
    /\ snapshot[s] = "applied" => chunks[s] = prior[s]

(* A rollback that is alone has restored what it has not still to restore. *)
RollbackTells ==
  \A b \in Rollback :
    /\ restore[b].at # "idle" => \A s \in restore[b].of : snapshot[s] \in Kept
    /\ restore[b].at = "deactivating" => \A s \in restore[b].of : restore[b].left = prior[s]
    /\ b \in alone =>
         /\ restore[b].at = "restoring"
         /\ \A s \in restore[b].of :
              restore[b].left \subseteq prior[s]
              /\ active \cap Channel = prior[s] \ restore[b].left

Undisturbed == sourceKind = "xtream" /\ occurred \subseteq {"throw", "crash"}

(* Then one sync writes at a time, and no rollback beside it; ...          *)
OneWriter ==
  Undisturbed =>
    /\ \A s, t \in Sync : Syncing(s) /\ Syncing(t) => s = t
    /\ \A s \in Sync, b \in Rollback : Syncing(s) => restore[b].at = "idle"

(* ... what it listed and wrote is active, ...                             *)
ListedIsActive ==
  Undisturbed => \A s \in Sync :
    /\ stage[s] \in {"new", "starting"} => families[s] = {}
    /\ twice[s] = {} /\ listing[s] \subseteq UNION families[s]
    /\ stage[s] = "upserting" => listing[s] \ left[s] \subseteq active
    /\ stage[s] \in Written => listing[s] \subseteq active

(* ... and the verdict still holds when the families are pruned.           *)
VerdictStands ==
  Undisturbed => \A s \in Sync :
    /\ stage[s] \in {"countingTitles", "pruningChannels"} /\ Channel \in families[s] =>
         counted[s] = Cardinality(active \cap Channel)
    /\ stage[s] = "pruningChannels" =>
         Channel \in families[s]
         /\ 2 * Cardinality(listing[s] \cap Channel) >= Cardinality(active \cap Channel)
    /\ stage[s] \in {"pruningChannels", "pruningTitles"} =>
         2 * Cardinality(listing[s] \cap Title) >= Cardinality(active \cap Title)

CatalogInv ==
  CatalogTypeOK /\ SnapshotTells /\ RollbackTells
  /\ OneWriter /\ ListedIsActive /\ VerdictStands

-----------------------------------------------------------------------------
(* Properties.                                                             *)

(* A prune leaves at least half of what is active in the family.           *)
KeepsHalf(s) ==
  /\ PruneChannels(s) =>
       2 * Cardinality(active' \cap Channel) >= Cardinality(active \cap Channel)
  /\ PruneTitles(s) =>
       2 * Cardinality(active' \cap Title) >= Cardinality(active \cap Title)

(* However short the provider's answers are, and whatever syncs fail in    *)
(* between, a sync of an Xtream source leaves half of its channels and     *)
(* half of its titles active.  The guard compares what was listed with     *)
(* what was counted, so nobody else may write, no item be listed twice,    *)
(* merged away or hidden, and no title that was pruned be listed again.    *)
PruneKeepsHalf ==
  [][\A s \in Sync :
       sourceKind = "xtream" /\ occurred \subseteq {"throw", "crash"} => KeepsHalf(s)]_catalogVars

(* No sequence of syncs empties a family: "an empty fetch is never         *)
(* evidence that everything disappeared, and neither is a fetch that lost  *)
(* most of it".  A title that comes back is counted and stays inactive.    *)
NeverEmptied ==
  sourceKind = "xtream" /\ occurred \subseteq {"relist"} =>
    \A f \in Family : Imported \cap f # {} => active \cap f # {}

(* A rollback that nobody writes against leaves active the channels that   *)
(* were active before the sync wrote any: also after rollbacks that failed *)
(* halfway, after later syncs, and whatever failed in them.                *)
RollbackUndoes ==
  [][\A b \in alone, s \in Sync :
       MarkRolledBack(b) /\ s \in restore[b].of => active' \cap Channel = prior[s]]_catalogVars
=============================================================================
