--------------------------- MODULE CatalogSyncProofs ---------------------------
(***************************************************************************)
(* Theorems about CatalogSync, for any channels, titles, syncs, rollbacks  *)
(* and hazards.                                                            *)
(***************************************************************************)
EXTENDS CatalogSync, FiniteSetTheorems, TLAPS

USE ItemAssumption, ImportedAssumption, KindsAssumption, CatalogHazardsAssumption,
    MaxOccurredAssumption

-----------------------------------------------------------------------------
(* Every variable keeps its type.                                          *)

LEMMA Finite ==
  ASSUME NEW S, S \subseteq Item
  PROVE  IsFiniteSet(S) /\ Cardinality(S) \in Nat
  BY FS_Subset, FS_CardinalityType

LEMMA FewerCount ==
  ASSUME NEW S, NEW T, T \subseteq Item, S \subseteq T
  PROVE  Cardinality(S) <= Cardinality(T)
  BY FS_Subset

LEMMA EventType ==
  ASSUME CatalogTypeOK, NEW kind \in CatalogHazard, NEW happens, Event(kind, happens)
  PROVE  occurred' \subseteq CatalogHazard
  BY DEF CatalogTypeOK, Event

LEMMA RollbackType ==
  NoRollback \in [at : {"idle", "deactivating", "restoring"}, of : SUBSET Sync,
                  left : SUBSET Channel]
  BY DEF NoRollback

(* The sync asks and takes its snapshot.                                   *)
LEMMA AskType ==
  ASSUME CatalogTypeOK, NEW s \in Sync,
         \/ Check(s) \/ Start(s) \/ Fetch(s) \/ Preview(s) \/ PreviewTaken(s)
         \/ \E c \in Channel : WriteChunk(s, c)
  PROVE  CatalogTypeOK'
<1> USE DEF CatalogTypeOK, SyncAt, Stage, documents, data, snapshots, rollbacks
<1>1. CASE Check(s)
  <2>1. occurred' \subseteq CatalogHazard BY <1>1, EventType DEF Check, CatalogHazard
  <2> QED BY <1>1, <2>1 DEF Check
<1>2. CASE Start(s) BY <1>2 DEF Start, Family
<1>3. CASE Fetch(s)
  <2>1. PICK l \in SUBSET UNION families[s] :
          /\ listing' = [listing EXCEPT ![s] = l]
          /\ \E d \in SUBSET l : Event("duplicate", d # {}) /\ twice' = [twice EXCEPT ![s] = d]
          /\ left' = [left EXCEPT ![s] = IF Channel \in families[s] THEN @ ELSE l]
    BY <1>3 DEF Fetch
  <2>8. PICK d \in SUBSET l :
          Event("duplicate", d # {}) /\ twice' = [twice EXCEPT ![s] = d]
    BY <2>1
  <2>2. UNION families[s] \subseteq Item BY DEF Family, Item
  <2>3. l \subseteq Item /\ d \subseteq Item BY <2>2
  <2>4. occurred' \subseteq CatalogHazard BY <2>8, EventType DEF CatalogHazard
  <2>5. stage' \in [Sync -> Stage] BY <1>3 DEF Fetch
  <2>6. UNCHANGED <<sourceKind, syncStatus, active, present, families, counted, prior, snapshot,
                    chunks, restore, alone>>
    BY <1>3 DEF Fetch
  <2>7. listing' \in [Sync -> SUBSET Item] /\ twice' \in [Sync -> SUBSET Item]
        /\ left' \in [Sync -> SUBSET Item]
    BY <2>1, <2>3, <2>8
  <2> QED BY <2>4, <2>5, <2>6, <2>7
<1>4. CASE Preview(s) BY <1>4 DEF Preview, Item
<1>5. CASE PreviewTaken(s) BY <1>5 DEF PreviewTaken
<1>6. CASE \E c \in Channel : WriteChunk(s, c) BY <1>6 DEF WriteChunk
<1> QED BY <1>1, <1>2, <1>3, <1>4, <1>5, <1>6

(* It writes, counts and prunes.                                           *)
LEMMA WriteType ==
  ASSUME CatalogTypeOK, NEW s \in Sync,
         \/ \E i \in Item : Upsert(s, i)
         \/ \E c \in Channel : MergeMatched(s, c)
         \/ Upserted(s) \/ CountChannels(s) \/ CountTitles(s)
         \/ PruneChannels(s) \/ PruneTitles(s)
  PROVE  CatalogTypeOK'
<1> USE DEF CatalogTypeOK, SyncAt, Stage, Disturb, documents, data, snapshots, rollbacks
<1>1. ASSUME NEW i \in Item, Upsert(s, i) PROVE CatalogTypeOK'
  <2>1. occurred' \subseteq CatalogHazard BY <1>1, EventType DEF Upsert, CatalogHazard
  <2> QED BY <1>1, <2>1 DEF Upsert
<1>2. ASSUME NEW c \in Channel, MergeMatched(s, c) PROVE CatalogTypeOK'
  <2>1. occurred' \subseteq CatalogHazard BY <1>2, EventType DEF MergeMatched, CatalogHazard
  <2> QED BY <1>2, <2>1 DEF MergeMatched
<1>3. CASE Upserted(s) BY <1>3 DEF Upserted
<1>4. CASE CountChannels(s)
  <2>1. Cardinality(active \cap Channel) \in 0 .. Cardinality(Channel)
    BY Finite, FewerCount DEF Item
  <2>2. counted' \in [Sync -> 0 .. Cardinality(Channel)] BY <1>4, <2>1 DEF CountChannels
  <2> QED BY <1>4, <2>2 DEF CountChannels
<1>5. CASE CountTitles(s) BY <1>5 DEF CountTitles
<1>6. CASE PruneChannels(s) BY <1>6 DEF PruneChannels
<1>7. CASE PruneTitles(s) BY <1>7 DEF PruneTitles
<1> QED BY <1>1, <1>2, <1>3, <1>4, <1>5, <1>6, <1>7

(* It ends.                                                                *)
LEMMA EndType ==
  ASSUME CatalogTypeOK, NEW s \in Sync,
         MarkSnapshotApplied(s) \/ SaveIdle(s) \/ SyncThrows(s) \/ SaveError(s) \/ SyncDies(s)
  PROVE  CatalogTypeOK'
<1> USE DEF CatalogTypeOK, SyncAt, Stage, documents, data, snapshots, rollbacks
<1>1. ASSUME SyncEnds(s)
      PROVE  /\ stage' \in [Sync -> Stage] /\ left' \in [Sync -> SUBSET Item]
             /\ families' \in [Sync -> SUBSET Family]
             /\ listing' \in [Sync -> SUBSET Item] /\ twice' \in [Sync -> SUBSET Item]
             /\ counted' \in [Sync -> 0 .. Cardinality(Channel)]
             /\ prior' \in [Sync -> SUBSET Channel] /\ chunks' \in [Sync -> SUBSET Channel]
             /\ snapshot' = snapshot
  <2>1. 0 \in 0 .. Cardinality(Channel) BY Finite DEF Item
  <2> QED BY <1>1, <2>1 DEF SyncEnds
<1>2. CASE MarkSnapshotApplied(s) BY <1>2 DEF MarkSnapshotApplied
<1>3. CASE SaveIdle(s) BY <1>1, <1>3 DEF SaveIdle
<1>4. CASE SyncThrows(s)
  <2>1. occurred' \subseteq CatalogHazard BY <1>4, EventType DEF SyncThrows, CatalogHazard
  <2> QED BY <1>4, <2>1 DEF SyncThrows
<1>5. CASE SaveError(s) BY <1>1, <1>5 DEF SaveError
<1>6. CASE SyncDies(s)
  <2>1. occurred' \subseteq CatalogHazard BY <1>6, EventType DEF SyncDies, CatalogHazard
  <2> QED BY <1>1, <1>6, <2>1 DEF SyncDies
<1> QED BY <1>2, <1>3, <1>4, <1>5, <1>6

(* A rollback, or an admin.                                                *)
LEMMA UndoType ==
  ASSUME CatalogTypeOK, NEW b \in Rollback,
         \/ \E s \in Sync : FindSnapshot(b, s)
         \/ DeactivateAll(b) \/ MarkRolledBack(b) \/ RollbackFails(b)
         \/ \E c \in Channel : RestoreChannel(b, c)
  PROVE  CatalogTypeOK'
<1> USE DEF CatalogTypeOK, Disturb, documents, data, snapshots, rollbacks
<1>1. ASSUME NEW s \in Sync, FindSnapshot(b, s) PROVE CatalogTypeOK'
  <2>1. occurred' \subseteq CatalogHazard BY <1>1, EventType DEF FindSnapshot, CatalogHazard
  <2> QED BY <1>1, <2>1 DEF FindSnapshot
<1>2. CASE DeactivateAll(b) BY <1>2 DEF DeactivateAll
<1>3. CASE MarkRolledBack(b) BY <1>3, RollbackType DEF MarkRolledBack
<1>4. CASE RollbackFails(b)
  <2>1. occurred' \subseteq CatalogHazard BY <1>4, EventType DEF RollbackFails, CatalogHazard
  <2> QED BY <1>4, <2>1, RollbackType DEF RollbackFails
<1>5. ASSUME NEW c \in Channel, RestoreChannel(b, c) PROVE CatalogTypeOK'
  BY <1>5 DEF RestoreChannel, Item
<1> QED BY <1>1, <1>2, <1>3, <1>4, <1>5

LEMMA CatalogTypeStep ==
  ASSUME CatalogTypeOK, [CatalogNext]_catalogVars
  PROVE  CatalogTypeOK'
<1>1. ASSUME NEW i \in Item, Hide(i) PROVE CatalogTypeOK'
  <2>1. occurred' \subseteq CatalogHazard BY <1>1, EventType DEF Hide, CatalogHazard
  <2> QED BY <1>1, <2>1 DEF Hide, CatalogTypeOK, Disturb, data, snapshots
<1>2. CASE UNCHANGED catalogVars
  BY <1>2 DEF catalogVars, CatalogTypeOK, documents, data, snapshots, rollbacks
<1> QED BY <1>1, <1>2, AskType, WriteType, EndType, UndoType DEF CatalogNext

-----------------------------------------------------------------------------
(* What an applied snapshot holds.                                         *)

(* A sync that ends keeps what an applied snapshot holds.                  *)
LEMMA EndsKeep ==
  ASSUME CatalogTypeOK, NEW s \in Sync, SyncEnds(s)
  PROVE  /\ stage' = [stage EXCEPT ![s] = "done"] /\ snapshot' = snapshot
         /\ \A t \in Sync : t # s \/ snapshot[s] \in Kept =>
              prior'[t] = prior[t] /\ chunks'[t] = chunks[t]
  BY DEF CatalogTypeOK, SyncEnds, SyncAt, snapshots

LEMMA SnapshotStep ==
  ASSUME CatalogInv, [CatalogNext]_catalogVars
  PROVE  SnapshotTells'
<1> USE DEF CatalogInv, CatalogTypeOK, SyncAt, Written, Kept, documents, data, snapshots, rollbacks
<1> DEFINE Told(s) == /\ stage[s] \in {"new", "starting", "fetching", "previewing"} =>
                           snapshot[s] = "none" /\ chunks[s] = {}
                      /\ stage[s] = "chunking" => prior[s] = chunks[s] \cup left[s]
                      /\ stage[s] \in Written \cup {"upserting", "applying"} =>
                           snapshot[s] = "none" \/ chunks[s] = prior[s]
                      /\ snapshot[s] \in Kept => stage[s] \in {"saving", "failing", "done"}
                      /\ snapshot[s] = "applied" => chunks[s] = prior[s]
<1>0. \A s \in Sync : Told(s) BY DEF SnapshotTells
<1> USE <1>0
<1>1. ASSUME NEW s \in Sync, Check(s) \/ Start(s) \/ Fetch(s) PROVE SnapshotTells'
  <2>1. /\ stage' = [stage EXCEPT ![s] = stage'[s]]
        /\ stage'[s] \in {"starting", "fetching", "previewing", "upserting"}
        /\ stage[s] \in {"new", "starting", "fetching"}
    BY <1>1 DEF Check, Start, Fetch
  <2>2. UNCHANGED <<prior, snapshot, chunks>> BY <1>1 DEF Check, Start, Fetch
  <2>3. \A t \in Sync : t # s => left'[t] = left[t]
    <3>1. CASE Check(s) \/ Start(s) BY <3>1 DEF Check, Start
    <3>2. CASE Fetch(s)
      <4>1. PICK l : left' = [left EXCEPT ![s] = IF Channel \in families[s] THEN @ ELSE l]
        BY <3>2 DEF Fetch
      <4> QED BY <4>1
    <3> QED BY <1>1, <3>1, <3>2
  <2> QED BY <2>1, <2>2, <2>3 DEF SnapshotTells
<1>2. ASSUME NEW s \in Sync, Preview(s) PROVE SnapshotTells'
  BY <1>2 DEF Preview, SnapshotTells
<1>3. ASSUME NEW s \in Sync, NEW c \in Channel, WriteChunk(s, c) PROVE SnapshotTells'
  BY <1>3 DEF WriteChunk, SnapshotTells
<1>4. ASSUME NEW s \in Sync, PreviewTaken(s) PROVE SnapshotTells'
  <2>1. chunks[s] = prior[s] /\ stage[s] = "chunking" BY <1>4 DEF PreviewTaken, Chunked
  <2>2. stage' = [stage EXCEPT ![s] = "upserting"] /\ UNCHANGED <<prior, snapshot, chunks>>
        /\ \A t \in Sync : t # s => left'[t] = left[t]
    BY <1>4 DEF PreviewTaken
  <2> QED BY <2>1, <2>2 DEF SnapshotTells
<1>5. ASSUME NEW s \in Sync, NEW i \in Item, Upsert(s, i) PROVE SnapshotTells'
  BY <1>5 DEF Upsert, SnapshotTells
<1>6. ASSUME NEW s \in Sync, NEW c \in Channel, MergeMatched(s, c) PROVE SnapshotTells'
  BY <1>6 DEF MergeMatched, SnapshotTells
<1>7. ASSUME NEW s \in Sync, Upserted(s) \/ CountChannels(s) \/ CountTitles(s) PROVE SnapshotTells'
  BY <1>7 DEF Upserted, CountChannels, CountTitles, SnapshotTells
<1>8. ASSUME NEW s \in Sync, PruneChannels(s) \/ PruneTitles(s) PROVE SnapshotTells'
  BY <1>8 DEF PruneChannels, PruneTitles, SnapshotTells
<1>9. ASSUME NEW s \in Sync, MarkSnapshotApplied(s) PROVE SnapshotTells'
  BY <1>9 DEF MarkSnapshotApplied, SnapshotTells
<1>10. ASSUME NEW s \in Sync, SaveIdle(s) \/ SaveError(s) \/ SyncDies(s) PROVE SnapshotTells'
  <2>1. SyncEnds(s) BY <1>10 DEF SaveIdle, SaveError, SyncDies
  <2>2. \A t \in Sync : t # s => left'[t] = left[t] BY <2>1 DEF SyncEnds
  <2> QED BY <2>1, <2>2, EndsKeep DEF SnapshotTells
<1>11. ASSUME NEW s \in Sync, SyncThrows(s) PROVE SnapshotTells'
  BY <1>11 DEF SyncThrows, Syncing, SnapshotTells
<1>12. ASSUME NEW b \in Rollback, MarkRolledBack(b) PROVE SnapshotTells'
  BY <1>12 DEF MarkRolledBack, RollbackTells, SnapshotTells
<1>13. ASSUME UNCHANGED <<stage, left, chunks, prior, snapshot>> PROVE SnapshotTells'
  BY <1>13 DEF SnapshotTells
<1>14. ASSUME NEW b \in Rollback,
              \/ \E s \in Sync : FindSnapshot(b, s)
              \/ DeactivateAll(b) \/ RollbackFails(b)
              \/ \E c \in Channel : RestoreChannel(b, c)
       PROVE  SnapshotTells'
  BY <1>13, <1>14 DEF FindSnapshot, DeactivateAll, RollbackFails, RestoreChannel
<1>15. ASSUME (\E i \in Item : Hide(i)) \/ UNCHANGED catalogVars PROVE SnapshotTells'
  BY <1>13, <1>15 DEF Hide, catalogVars
<1> QED
  <2> HIDE <1>0
  <2> HIDE DEF CatalogInv, CatalogTypeOK
  <2> QED
    BY <1>1, <1>2, <1>3, <1>4, <1>5, <1>6, <1>7, <1>8, <1>9, <1>10, <1>11, <1>12, <1>14, <1>15
    DEF CatalogNext

-----------------------------------------------------------------------------
(* What a rollback has restored.                                           *)

(* Steps that leave the rollbacks, the applied snapshots and the channels  *)
(* alone, or disturb the rollbacks.                                        *)
Apart ==
  /\ restore' = restore /\ alone' \subseteq alone
  /\ \A s \in Sync : snapshot[s] \in Kept => snapshot'[s] \in Kept /\ prior'[s] = prior[s]
  /\ alone' = {} \/ active' \cap Channel = active \cap Channel

LEMMA ApartStep ==
  ASSUME CatalogTypeOK, RollbackTells, Apart
  PROVE  RollbackTells'
<1>1. \A b \in Rollback : restore[b].of \subseteq Sync BY DEF CatalogTypeOK
<1>2. ASSUME NEW b \in Rollback, b \in alone'
      PROVE  /\ restore'[b].at = "restoring"
             /\ \A s \in restore'[b].of :
                  restore'[b].left \subseteq prior'[s]
                  /\ active' \cap Channel = prior'[s] \ restore'[b].left
  BY <1>1, <1>2 DEF RollbackTells, Apart
<1>3. ASSUME NEW b \in Rollback
      PROVE  /\ restore'[b].at # "idle" => \A s \in restore'[b].of : snapshot'[s] \in Kept
             /\ restore'[b].at = "deactivating" =>
                  \A s \in restore'[b].of : restore'[b].left = prior'[s]
  BY <1>1 DEF RollbackTells, Apart
<1> QED BY <1>2, <1>3 DEF RollbackTells

LEMMA SyncApart ==
  ASSUME CatalogInv, NEW s \in Sync,
         \/ Check(s) \/ Start(s) \/ Fetch(s) \/ Preview(s) \/ PreviewTaken(s)
         \/ \E c \in Channel : WriteChunk(s, c) \/ MergeMatched(s, c)
         \/ \E i \in Item : Upsert(s, i)
         \/ Upserted(s) \/ CountChannels(s) \/ CountTitles(s)
         \/ PruneChannels(s) \/ PruneTitles(s)
         \/ MarkSnapshotApplied(s) \/ SaveIdle(s)
         \/ SyncThrows(s) \/ SaveError(s) \/ SyncDies(s)
  PROVE  Apart
<1> USE DEF CatalogInv, CatalogTypeOK, Apart, documents, data, snapshots, rollbacks
<1>1. CASE Check(s) \/ Start(s) \/ Fetch(s) BY <1>1 DEF Check, Start, Fetch
<1>2. CASE Preview(s) BY <1>2 DEF Preview, SnapshotTells
<1>3. CASE PreviewTaken(s) \/ \E c \in Channel : WriteChunk(s, c) \/ MergeMatched(s, c)
  BY <1>3 DEF PreviewTaken, WriteChunk, MergeMatched
<1>4. ASSUME NEW i \in Item, Upsert(s, i) PROVE Apart
  <2>1. CASE i \in Channel BY <1>4, <2>1 DEF Upsert, Disturb
  <2>2. CASE i \notin Channel BY <1>4, <2>2 DEF Upsert
  <2> QED BY <2>1, <2>2
<1>5. CASE Upserted(s) \/ CountChannels(s) \/ CountTitles(s)
  BY <1>5 DEF Upserted, CountChannels, CountTitles
<1>6. CASE PruneChannels(s) BY <1>6 DEF PruneChannels, Disturb
<1>7. CASE PruneTitles(s)
  <2>1. active' \cap Channel = active \cap Channel BY <1>7 DEF PruneTitles
  <2> QED BY <1>7, <2>1 DEF PruneTitles
<1>8. CASE MarkSnapshotApplied(s) BY <1>8 DEF MarkSnapshotApplied, Kept
<1>9. CASE SaveIdle(s) \/ SaveError(s) \/ SyncDies(s)
  <2>1. SyncEnds(s) /\ UNCHANGED <<documents, rollbacks>>
    BY <1>9 DEF SaveIdle, SaveError, SyncDies
  <2> QED BY <2>1, EndsKeep
<1>10. CASE SyncThrows(s) BY <1>10 DEF SyncThrows
<1> QED BY <1>1, <1>2, <1>3, <1>4, <1>5, <1>6, <1>7, <1>8, <1>9, <1>10

LEMMA RollbackStep ==
  ASSUME CatalogInv, [CatalogNext]_catalogVars
  PROVE  RollbackTells'
<1> USE DEF CatalogInv, CatalogTypeOK, documents, data, snapshots, rollbacks
<1>0. \A b \in Rollback :
        /\ restore[b].of \subseteq Sync
        /\ restore[b].at # "idle" => \A s \in restore[b].of : snapshot[s] \in Kept
        /\ restore[b].at = "deactivating" => \A s \in restore[b].of : restore[b].left = prior[s]
        /\ b \in alone =>
             /\ restore[b].at = "restoring"
             /\ \A s \in restore[b].of :
                  restore[b].left \subseteq prior[s]
                  /\ active \cap Channel = prior[s] \ restore[b].left
  BY DEF RollbackTells
<1>1. ASSUME NEW b \in Rollback, NEW s \in Sync, FindSnapshot(b, s) PROVE RollbackTells'
  <2>1. chunks[s] = prior[s] /\ snapshot[s] \in Kept
    BY <1>1 DEF FindSnapshot, SnapshotTells, Kept
  <2>2. restore' = [restore EXCEPT ![b] = [at |-> "deactivating", of |-> {s}, left |-> prior[s]]]
        /\ UNCHANGED <<active, prior, snapshot, alone>> /\ b \notin alone
    BY <1>0, <1>1, <2>1 DEF FindSnapshot
  <2> QED BY <1>0, <2>1, <2>2 DEF RollbackTells
<1>2. ASSUME NEW b \in Rollback, DeactivateAll(b) PROVE RollbackTells'
  <2>1. restore' = [restore EXCEPT ![b].at = "restoring"] /\ restore[b].at = "deactivating"
        /\ alone' = {b} /\ active' \cap Channel = {} /\ UNCHANGED <<prior, snapshot>>
    BY <1>2 DEF DeactivateAll, Deactivated
  <2>2. /\ restore'[b].at = "restoring" /\ restore'[b].of = restore[b].of
        /\ restore'[b].left = restore[b].left
        /\ \A d \in Rollback : d # b => restore'[d] = restore[d]
    BY <2>1
  <2> QED BY <1>0, <2>1, <2>2 DEF RollbackTells
<1>3. ASSUME NEW b \in Rollback, NEW c \in Channel, RestoreChannel(b, c) PROVE RollbackTells'
  <2>1. restore' = [restore EXCEPT ![b].left = @ \ {c}] /\ restore[b].at = "restoring"
        /\ c \in restore[b].left /\ alone' = alone \cap {b} /\ active' = active \cup {c}
        /\ UNCHANGED <<prior, snapshot>>
    BY <1>3 DEF RestoreChannel, Disturb
  <2>2. /\ restore'[b].at = "restoring" /\ restore'[b].of = restore[b].of
        /\ restore'[b].left = restore[b].left \ {c}
        /\ \A d \in Rollback : d # b => restore'[d] = restore[d]
    BY <2>1
  <2>3. ASSUME b \in alone, NEW s \in restore[b].of
        PROVE  active' \cap Channel = prior[s] \ (restore[b].left \ {c})
    BY <1>0, <2>1, <2>3
  <2> QED BY <1>0, <2>1, <2>2, <2>3 DEF RollbackTells
<1>4. ASSUME NEW b \in Rollback, MarkRolledBack(b) \/ RollbackFails(b) PROVE RollbackTells'
  <2>1. restore' = [restore EXCEPT ![b] = NoRollback] /\ alone' = alone \ {b}
        /\ UNCHANGED <<active, prior>>
        /\ \A s \in Sync : snapshot[s] \in Kept => snapshot'[s] \in Kept
    BY <1>4 DEF MarkRolledBack, RollbackFails, Kept
  <2>2. /\ restore'[b].at = "idle" /\ b \notin alone'
        /\ \A d \in Rollback : d # b => restore'[d] = restore[d]
    BY <2>1 DEF NoRollback
  <2> QED BY <1>0, <2>1, <2>2 DEF RollbackTells
<1>5. ASSUME NEW i \in Item, Hide(i) PROVE Apart
  <2>1. CASE i \in Channel BY <1>5, <2>1 DEF Hide, Disturb, Apart
  <2>2. CASE i \notin Channel BY <1>5, <2>2 DEF Hide, Apart
  <2> QED BY <2>1, <2>2
<1>6. ASSUME UNCHANGED catalogVars PROVE Apart
  BY <1>6 DEF catalogVars, Apart
<1> QED
  <2> HIDE DEF CatalogInv, CatalogTypeOK
  <2>1. ASSUME Apart PROVE RollbackTells' BY <2>1, ApartStep DEF CatalogInv
  <2> QED BY <1>1, <1>2, <1>3, <1>4, <1>5, <1>6, <2>1, SyncApart DEF CatalogNext

-----------------------------------------------------------------------------
(* An undisturbed sync writes alone.                                       *)

SyncMoves(s) ==
  \/ Start(s) \/ Fetch(s) \/ Preview(s) \/ PreviewTaken(s)
  \/ \E c \in Channel : WriteChunk(s, c) \/ MergeMatched(s, c)
  \/ \E i \in Item : Upsert(s, i)
  \/ Upserted(s) \/ CountChannels(s) \/ CountTitles(s)
  \/ PruneChannels(s) \/ PruneTitles(s)
  \/ MarkSnapshotApplied(s) \/ SaveIdle(s)
  \/ SyncThrows(s) \/ SaveError(s) \/ SyncDies(s)

RollbackMoves(b) ==
  \/ DeactivateAll(b) \/ \E c \in Channel : RestoreChannel(b, c)
  \/ MarkRolledBack(b) \/ RollbackFails(b)

LEMMA CatalogCases ==
  ASSUME CatalogNext
  PROVE  \/ \E s \in Sync : Check(s) \/ SyncMoves(s)
         \/ \E b \in Rollback : RollbackMoves(b) \/ \E s \in Sync : FindSnapshot(b, s)
         \/ \E i \in Item : Hide(i)
  BY DEF CatalogNext, SyncMoves, RollbackMoves

(* What has happened has happened.                                         *)
LEMMA UndisturbedBefore ==
  ASSUME [CatalogNext]_catalogVars, Undisturbed'
  PROVE  Undisturbed
<1>1. CASE UNCHANGED catalogVars BY <1>1 DEF catalogVars, Undisturbed
<1>2. ASSUME NEW s \in Sync, Check(s) \/ SyncMoves(s)
      PROVE  sourceKind' = sourceKind /\ occurred \subseteq occurred'
  <2>1. CASE Fetch(s)
    <3>1. \E d : Event("duplicate", d # {}) BY <2>1 DEF Fetch
    <3> QED BY <2>1, <3>1 DEF Fetch, Event
  <2>2. CASE Check(s) \/ Start(s) \/ Preview(s) \/ PreviewTaken(s)
    BY <2>2 DEF Check, Start, Preview, PreviewTaken, Event
  <2>3. CASE \/ \E c \in Channel : WriteChunk(s, c) \/ MergeMatched(s, c)
             \/ \E i \in Item : Upsert(s, i)
    BY <2>3 DEF WriteChunk, MergeMatched, Upsert, Event
  <2>4. CASE Upserted(s) \/ CountChannels(s) \/ CountTitles(s) \/ PruneChannels(s) \/ PruneTitles(s)
    BY <2>4 DEF Upserted, CountChannels, CountTitles, PruneChannels, PruneTitles
  <2>5. CASE MarkSnapshotApplied(s) \/ SaveIdle(s) \/ SyncThrows(s) \/ SaveError(s) \/ SyncDies(s)
    BY <2>5 DEF MarkSnapshotApplied, SaveIdle, SyncThrows, SaveError, SyncDies, Event
  <2> QED BY <1>2, <2>1, <2>2, <2>3, <2>4, <2>5 DEF SyncMoves
<1>3. ASSUME NEW b \in Rollback, RollbackMoves(b) \/ \E s \in Sync : FindSnapshot(b, s)
      PROVE  sourceKind' = sourceKind /\ occurred \subseteq occurred'
  BY <1>3 DEF RollbackMoves, FindSnapshot, DeactivateAll, RestoreChannel, MarkRolledBack,
     RollbackFails, Event
<1>4. ASSUME NEW i \in Item, Hide(i)
      PROVE  sourceKind' = sourceKind /\ occurred \subseteq occurred'
  BY <1>4 DEF Hide, Event
<1> QED BY <1>1, <1>2, <1>3, <1>4, CatalogCases DEF Undisturbed

(* A sync that moves was going on, and no other sync starts by it.         *)
LEMMA MovesSyncing ==
  ASSUME CatalogTypeOK, NEW s \in Sync, SyncMoves(s)
  PROVE  /\ Syncing(s) /\ restore' = restore
         /\ \A t \in Sync : t # s => stage'[t] = stage[t]
<1> USE DEF CatalogTypeOK, Syncing, SyncAt, Stage, rollbacks
<1>1. CASE Start(s) \/ Fetch(s) \/ Preview(s) \/ PreviewTaken(s)
  BY <1>1 DEF Start, Fetch, Preview, PreviewTaken
<1>2. CASE \/ \E c \in Channel : WriteChunk(s, c) \/ MergeMatched(s, c)
           \/ \E i \in Item : Upsert(s, i)
  BY <1>2 DEF WriteChunk, MergeMatched, Upsert
<1>3. CASE Upserted(s) \/ CountChannels(s) \/ CountTitles(s) \/ PruneChannels(s) \/ PruneTitles(s)
  BY <1>3 DEF Upserted, CountChannels, CountTitles, PruneChannels, PruneTitles
<1>4. CASE MarkSnapshotApplied(s) \/ SyncThrows(s)
  BY <1>4 DEF MarkSnapshotApplied, SyncThrows
<1>5. CASE SaveIdle(s) \/ SaveError(s) \/ SyncDies(s)
  BY <1>5 DEF SaveIdle, SaveError, SyncDies, SyncEnds
<1> QED BY <1>1, <1>2, <1>3, <1>4, <1>5 DEF SyncMoves

LEMMA RollbackAtWork ==
  ASSUME CatalogTypeOK, NEW b \in Rollback, RollbackMoves(b)
  PROVE  /\ restore[b].at # "idle" /\ stage' = stage
         /\ \A d \in Rollback : d # b => restore'[d] = restore[d]
  BY DEF RollbackMoves, DeactivateAll, RestoreChannel, MarkRolledBack, RollbackFails, CatalogTypeOK

LEMMA OneWriterStep ==
  ASSUME CatalogInv, [CatalogNext]_catalogVars
  PROVE  OneWriter'
<1> SUFFICES ASSUME Undisturbed' PROVE OneWriter'
  BY DEF OneWriter
<1>0. CatalogTypeOK /\ Undisturbed
      /\ (\A s, t \in Sync : Syncing(s) /\ Syncing(t) => s = t)
      /\ (\A s \in Sync, b \in Rollback : Syncing(s) => restore[b].at = "idle")
  BY UndisturbedBefore DEF CatalogInv, OneWriter
<1>1. ASSUME NEW s \in Sync, Check(s) PROVE OneWriter'
  <2>1. "overlap" \notin occurred' BY DEF Undisturbed
  <2>2. (\A t \in Sync : ~Syncing(t)) /\ (\A b \in Rollback : restore[b].at = "idle")
    BY <1>1, <2>1 DEF Check, Event
  <2>3. restore' = restore /\ \A t \in Sync : t # s => stage'[t] = stage[t]
    BY <1>1 DEF Check, SyncAt, rollbacks
  <2> QED BY <2>2, <2>3 DEF OneWriter, Syncing
<1>2. ASSUME NEW s \in Sync, SyncMoves(s) PROVE OneWriter'
  BY <1>0, <1>2, MovesSyncing DEF OneWriter, Syncing
<1>3. ASSUME NEW b \in Rollback, RollbackMoves(b) PROVE OneWriter'
  BY <1>0, <1>3, RollbackAtWork DEF OneWriter, Syncing
<1>4. ASSUME NEW b \in Rollback, NEW s \in Sync, FindSnapshot(b, s) PROVE OneWriter'
  <2>1. "overlap" \notin occurred' BY DEF Undisturbed
  <2>2. (\A t \in Sync : ~Syncing(t)) /\ stage' = stage
    BY <1>4, <2>1 DEF FindSnapshot, Event
  <2> QED BY <2>2 DEF OneWriter, Syncing
<1>5. ASSUME (\E i \in Item : Hide(i)) \/ UNCHANGED catalogVars PROVE OneWriter'
  BY <1>0, <1>5 DEF Hide, catalogVars, rollbacks, OneWriter, Syncing
<1> QED BY <1>1, <1>2, <1>3, <1>4, <1>5, CatalogCases

-----------------------------------------------------------------------------
(* What was listed and written is active.                                  *)

LEMMA ListedStep ==
  ASSUME CatalogInv, [CatalogNext]_catalogVars
  PROVE  ListedIsActive'
<1> SUFFICES ASSUME Undisturbed' PROVE ListedIsActive'
  BY DEF ListedIsActive
<1> DEFINE Listed(s) == /\ stage[s] \in {"new", "starting"} => families[s] = {}
                        /\ twice[s] = {} /\ listing[s] \subseteq UNION families[s]
                        /\ stage[s] = "upserting" => listing[s] \ left[s] \subseteq active
                        /\ stage[s] \in Written => listing[s] \subseteq active
<1>0. CatalogTypeOK /\ Undisturbed /\ (\A s \in Sync : Listed(s))
  BY UndisturbedBefore DEF CatalogInv, ListedIsActive
<1>a. \A s, t \in Sync : Syncing(s) /\ Syncing(t) => s = t
  BY <1>0 DEF CatalogInv, OneWriter
<1>b. \A s \in Sync, b \in Rollback : Syncing(s) => restore[b].at = "idle"
  BY <1>0 DEF CatalogInv, OneWriter
<1>c. occurred' \cap {"duplicate", "merge", "hide", "relist"} = {} BY DEF Undisturbed
<1> USE <1>0 DEF CatalogTypeOK, SyncAt, Written, documents, data, snapshots, rollbacks
<1>1. ASSUME NEW s \in Sync, Check(s) \/ Start(s) PROVE ListedIsActive'
  <2>1. CASE Check(s) BY <2>1 DEF Check, ListedIsActive
  <2>2. CASE Start(s)
    <3>1. stage' = [stage EXCEPT ![s] = "fetching"] /\ UNCHANGED <<active, left, listing, twice>>
          /\ stage[s] = "starting"
      BY <2>2 DEF Start
    <3>2. \A t \in Sync : t # s => families'[t] = families[t] BY <2>2 DEF Start
    <3>3. listing[s] = {} BY <3>1
    <3> QED BY <3>1, <3>2, <3>3 DEF ListedIsActive
  <2> QED BY <1>1, <2>1, <2>2
<1>2. ASSUME NEW s \in Sync, Fetch(s) PROVE ListedIsActive'
  <2>1. PICK l \in SUBSET UNION families[s] :
          /\ listing' = [listing EXCEPT ![s] = l]
          /\ \E d \in SUBSET l : Event("duplicate", d # {}) /\ twice' = [twice EXCEPT ![s] = d]
          /\ left' = [left EXCEPT ![s] = IF Channel \in families[s] THEN @ ELSE l]
    BY <1>2 DEF Fetch
  <2>2. PICK d \in SUBSET l : Event("duplicate", d # {}) /\ twice' = [twice EXCEPT ![s] = d]
    BY <2>1
  <2>3. d = {} BY <1>c, <2>2 DEF Event
  <2>4. stage' = [stage EXCEPT ![s] = IF Channel \in families[s] THEN "previewing" ELSE "upserting"]
        /\ UNCHANGED <<active, families>>
    BY <1>2 DEF Fetch
  <2>5. Listed(s)'
    BY <2>1, <2>2, <2>3, <2>4
  <2>6. \A t \in Sync : t # s => Listed(t)' BY <2>1, <2>2, <2>4
  <2> QED BY <2>5, <2>6 DEF ListedIsActive
<1>3. ASSUME NEW s \in Sync, Preview(s) \/ PreviewTaken(s) \/ MarkSnapshotApplied(s) \/ SyncThrows(s)
      PROVE  ListedIsActive'
  <2>1. CASE Preview(s) BY <2>1 DEF Preview, ListedIsActive
  <2>2. CASE PreviewTaken(s)
    <3>1. /\ left' = [left EXCEPT ![s] = listing[s]] /\ stage' = [stage EXCEPT ![s] = "upserting"]
          /\ UNCHANGED <<active, listing, twice, families>>
      BY <2>2 DEF PreviewTaken
    <3> QED BY <3>1 DEF ListedIsActive
  <2>3. CASE MarkSnapshotApplied(s) BY <2>3 DEF MarkSnapshotApplied, ListedIsActive
  <2>4. CASE SyncThrows(s)
    <3>1. stage' = [stage EXCEPT ![s] = "failing"]
          /\ (\A t \in Sync : t # s => left'[t] = left[t])
          /\ UNCHANGED <<active, listing, twice, families>>
      BY <2>4 DEF SyncThrows
    <3> QED BY <3>1 DEF ListedIsActive
  <2> QED BY <1>3, <2>1, <2>2, <2>3, <2>4
<1>4. ASSUME NEW s \in Sync, NEW c \in Channel, WriteChunk(s, c) PROVE ListedIsActive'
  BY <1>4 DEF WriteChunk, ListedIsActive
<1>5. ASSUME NEW s \in Sync, NEW c \in Channel, MergeMatched(s, c) PROVE ListedIsActive'
  BY <1>5, <1>c DEF MergeMatched, Event
<1>6. ASSUME NEW s \in Sync, NEW i \in Item, Upsert(s, i) PROVE ListedIsActive'
  <2>1. i \in active' /\ active \subseteq active'
    BY <1>6, <1>c DEF Upsert, Event
  <2>2. left' = [left EXCEPT ![s] = @ \ {i}] /\ stage' = stage
        /\ UNCHANGED <<listing, twice, families>>
    BY <1>6 DEF Upsert
  <2>3. \A t \in Sync : Listed(t)' BY <2>1, <2>2
  <2> QED BY <2>3 DEF ListedIsActive
<1>7. ASSUME NEW s \in Sync, Upserted(s) \/ CountChannels(s) \/ CountTitles(s)
      PROVE  ListedIsActive'
  BY <1>7 DEF Upserted, CountChannels, CountTitles, ListedIsActive
<1>8. ASSUME NEW s \in Sync, PruneChannels(s) \/ PruneTitles(s) PROVE ListedIsActive'
  <2>1. /\ Syncing(s) /\ stage[s] \in Written /\ listing[s] \cap active \subseteq active'
        /\ UNCHANGED <<left, listing, twice, families>>
        /\ stage' = [stage EXCEPT ![s] = stage'[s]] /\ stage'[s] \in {"applying", "pruningTitles"}
    BY <1>8 DEF PruneChannels, PruneTitles, Syncing
  <2>2. \A t \in Sync : t # s => ~Syncing(t) BY <1>a, <2>1
  <2>3. Listed(s)' BY <2>1
  <2>4. ASSUME NEW t \in Sync, t # s PROVE Listed(t)'
    <3>1. stage'[t] = stage[t] /\ stage[t] \in {"new", "done"} BY <2>1, <2>2, <2>4 DEF Syncing
    <3> QED BY <2>1, <3>1
  <2> QED BY <2>3, <2>4 DEF ListedIsActive
<1>9. ASSUME NEW s \in Sync, SaveIdle(s) \/ SaveError(s) \/ SyncDies(s) PROVE ListedIsActive'
  <2>1. /\ stage' = [stage EXCEPT ![s] = "done"] /\ left' = [left EXCEPT ![s] = {}]
        /\ families' = [families EXCEPT ![s] = {}] /\ listing' = [listing EXCEPT ![s] = {}]
        /\ twice' = [twice EXCEPT ![s] = {}] /\ active' = active
    BY <1>9 DEF SaveIdle, SaveError, SyncDies, SyncEnds
  <2> QED BY <2>1 DEF ListedIsActive
<1>10. ASSUME NEW b \in Rollback, RollbackMoves(b) PROVE ListedIsActive'
  <2>1. /\ restore[b].at # "idle" /\ UNCHANGED <<stage, left, listing, twice, families>>
    BY <1>10 DEF RollbackMoves, DeactivateAll, RestoreChannel, MarkRolledBack, RollbackFails
  <2>2. \A t \in Sync : stage[t] \in {"new", "done"} BY <1>b, <2>1 DEF Syncing
  <2> QED BY <2>1, <2>2 DEF ListedIsActive
<1>11. ASSUME NEW b \in Rollback, NEW s \in Sync, FindSnapshot(b, s) PROVE ListedIsActive'
  BY <1>11 DEF FindSnapshot, ListedIsActive
<1>12. ASSUME NEW i \in Item, Hide(i) PROVE ListedIsActive'
  BY <1>12, <1>c DEF Hide, Event
<1>13. ASSUME UNCHANGED catalogVars PROVE ListedIsActive'
  BY <1>13 DEF catalogVars, ListedIsActive
<1> QED
  <2> HIDE <1>0
  <2> HIDE DEF CatalogTypeOK
  <2> QED
    BY <1>1, <1>2, <1>3, <1>4, <1>5, <1>6, <1>7, <1>8, <1>9, <1>10, <1>11, <1>12, <1>13,
       CatalogCases
    DEF SyncMoves

-----------------------------------------------------------------------------
(* The verdict still holds when the families are pruned.                   *)

Stood(s) ==
  /\ stage[s] \in {"countingTitles", "pruningChannels"} /\ Channel \in families[s] =>
       counted[s] = Cardinality(active \cap Channel)
  /\ stage[s] = "pruningChannels" =>
       Channel \in families[s]
       /\ 2 * Cardinality(listing[s] \cap Channel) >= Cardinality(active \cap Channel)
  /\ stage[s] \in {"pruningChannels", "pruningTitles"} =>
       2 * Cardinality(listing[s] \cap Title) >= Cardinality(active \cap Title)

Judged == {"countingTitles", "pruningChannels", "pruningTitles"}

(* A verdict that is plausible keeps half.                                 *)
LEMMA PlausibleKeeps ==
  ASSUME NEW f \in Nat, NEW n \in Nat, Plausible(f, n)
  PROVE  2 * f >= n
  BY DEF Plausible

LEMMA VerdictStep ==
  ASSUME CatalogInv, [CatalogNext]_catalogVars
  PROVE  VerdictStands'
<1> SUFFICES ASSUME Undisturbed' PROVE \A s \in Sync : Stood(s)'
  BY DEF VerdictStands, Stood
<1>0. CatalogTypeOK /\ Undisturbed /\ (\A s \in Sync : Stood(s))
  BY UndisturbedBefore DEF CatalogInv, VerdictStands, Stood
<1>a. (\A s, t \in Sync : Syncing(s) /\ Syncing(t) => s = t)
      /\ (\A s \in Sync, b \in Rollback : Syncing(s) => restore[b].at = "idle")
  BY <1>0 DEF CatalogInv, OneWriter
<1>b. \A s \in Sync : twice[s] = {}
  BY <1>0 DEF CatalogInv, ListedIsActive
<1>c. sourceKind = "xtream" /\ "hide" \notin occurred' BY <1>0 DEF Undisturbed
<1>d. ASSUME NEW t \in Sync, stage'[t] \notin Judged PROVE Stood(t)'
  BY <1>d DEF Stood, Judged
<1>1. ASSUME NEW s \in Sync, Check(s) PROVE \A t \in Sync : Stood(t)'
  <2>1. stage' = [stage EXCEPT ![s] = "starting"]
        /\ UNCHANGED <<active, families, listing, counted>>
    BY <1>1 DEF Check, SyncAt, documents, data
  <2> QED BY <1>0, <2>1 DEF Stood, CatalogTypeOK
<1>2. ASSUME NEW s \in Sync, SyncMoves(s), Stood(s)' PROVE \A t \in Sync : Stood(t)'
  <2>1. \A t \in Sync : t # s => stage'[t] = stage[t] /\ ~Syncing(t)
    BY <1>0, <1>a, <1>2, MovesSyncing
  <2> QED BY <1>2, <1>d, <2>1 DEF Syncing, Judged
<1>3. ASSUME NEW s \in Sync, CountChannels(s) PROVE Stood(s)'
  BY <1>0, <1>3 DEF CountChannels, SyncAt, Stood, CatalogTypeOK, documents
<1>4. ASSUME NEW s \in Sync, Upserted(s) PROVE Stood(s)'
  BY <1>0, <1>4, <1>c DEF Upserted, SyncAt, Stood, CatalogTypeOK, documents, data
<1>5. ASSUME NEW s \in Sync, CountTitles(s) PROVE Stood(s)'
  <2>1. stage[s] = "countingTitles" /\ stage' = [stage EXCEPT ![s] = stage'[s]]
        /\ UNCHANGED <<active, families, listing, counted>>
    BY <1>0, <1>5 DEF CountTitles, SyncAt, CatalogTypeOK, documents, data
  <2>2. CASE stage'[s] \in {"pruningChannels", "pruningTitles"}
    <3>1. /\ Plausible(Fetched(s, Channel), counted[s])
          /\ Plausible(Fetched(s, Title), Cardinality(active \cap Title))
          /\ stage'[s] = "pruningChannels" => Channel \in families[s]
      BY <1>0, <1>5, <2>2 DEF CountTitles, SyncAt, CatalogTypeOK
    <3>2. \A f \in Family : Cardinality(listing[s] \cap f) \in Nat
                            /\ Fetched(s, f) = Cardinality(listing[s] \cap f)
      <4>1. \A f : {} \cap f = {} OBVIOUS
      <4>2. \A f \in Family : Cardinality(listing[s] \cap f) \in Nat
        BY <1>0, Finite DEF Family, Item, CatalogTypeOK
      <4>3. \A f : Cardinality(twice[s] \cap f) = 0
        <5>1. \A f : twice[s] \cap f = {} BY <1>b
        <5>2. Cardinality({}) = 0 BY FS_EmptySet
        <5> QED BY <5>1, <5>2
      <4>4. \A n \in Nat : n + 0 = n OBVIOUS
      <4> QED BY <4>2, <4>3, <4>4 DEF Fetched
    <3>3. Cardinality(active \cap Title) \in Nat /\ Cardinality(active \cap Channel) \in Nat
      BY Finite DEF Item
    <3>4. 2 * Cardinality(listing[s] \cap Title) >= Cardinality(active \cap Title)
      BY <3>1, <3>2, <3>3, PlausibleKeeps DEF Family
    <3>5. Channel \in families[s] =>
            counted[s] = Cardinality(active \cap Channel)
            /\ 2 * Cardinality(listing[s] \cap Channel) >= Cardinality(active \cap Channel)
      BY <1>0, <2>1, <3>1, <3>2, <3>3, PlausibleKeeps DEF Stood, Family
    <3> QED BY <2>1, <3>1, <3>4, <3>5 DEF Stood
  <2>3. CASE stage'[s] \notin {"pruningChannels", "pruningTitles"}
    <3>1. stage'[s] = "applying"
      BY <1>0, <1>5, <2>3 DEF CountTitles, SyncAt, CatalogTypeOK
    <3> QED BY <1>d, <3>1 DEF Judged
  <2> QED BY <2>2, <2>3
<1>6. ASSUME NEW s \in Sync, PruneChannels(s) PROVE Stood(s)'
  <2>1. /\ stage[s] = "pruningChannels" /\ stage' = [stage EXCEPT ![s] = "pruningTitles"]
        /\ active' \cap Title = active \cap Title /\ listing' = listing
    BY <1>6, <1>c DEF PruneChannels, SyncAt, data
  <2> QED BY <1>0, <2>1 DEF Stood, CatalogTypeOK
<1>7. ASSUME NEW s \in Sync, SyncMoves(s),
             ~CountChannels(s), ~Upserted(s), ~CountTitles(s), ~PruneChannels(s)
      PROVE  Stood(s)'
  <2>1. stage'[s] \notin Judged
    <3> USE <1>0 DEF CatalogTypeOK, SyncAt, Judged
    <3>1. CASE Start(s) \/ Fetch(s) \/ Preview(s) \/ PreviewTaken(s)
      BY <3>1 DEF Start, Fetch, Preview, PreviewTaken
    <3>2. CASE \/ \E c \in Channel : WriteChunk(s, c) \/ MergeMatched(s, c)
               \/ \E i \in Item : Upsert(s, i)
      BY <3>2 DEF WriteChunk, MergeMatched, Upsert
    <3>3. CASE PruneTitles(s) \/ MarkSnapshotApplied(s) \/ SyncThrows(s)
      BY <3>3 DEF PruneTitles, MarkSnapshotApplied, SyncThrows
    <3>4. CASE SaveIdle(s) \/ SaveError(s) \/ SyncDies(s)
      BY <3>4 DEF SaveIdle, SaveError, SyncDies, SyncEnds
    <3> QED BY <1>7, <3>1, <3>2, <3>3, <3>4 DEF SyncMoves
  <2> QED BY <1>d, <2>1
<1>8. ASSUME NEW b \in Rollback, RollbackMoves(b) PROVE \A t \in Sync : Stood(t)'
  <2>1. stage' = stage /\ restore[b].at # "idle" BY <1>0, <1>8, RollbackAtWork
  <2> QED BY <1>a, <1>d, <2>1 DEF Syncing, Judged
<1>9. ASSUME NEW b \in Rollback, NEW s \in Sync, FindSnapshot(b, s)
      PROVE  \A t \in Sync : Stood(t)'
  BY <1>0, <1>9 DEF FindSnapshot, Stood, documents, data
<1>10. ASSUME NEW i \in Item, Hide(i) PROVE \A t \in Sync : Stood(t)'
  BY <1>10, <1>c DEF Hide, Event
<1>11. ASSUME UNCHANGED catalogVars PROVE \A t \in Sync : Stood(t)'
  BY <1>0, <1>11 DEF catalogVars, Stood, documents, data
<1>12. ASSUME NEW s \in Sync, SyncMoves(s) PROVE \A t \in Sync : Stood(t)'
  BY <1>2, <1>3, <1>4, <1>5, <1>6, <1>7, <1>12
<1> QED BY <1>1, <1>8, <1>9, <1>10, <1>11, <1>12, CatalogCases

-----------------------------------------------------------------------------
(* The theorems.                                                           *)

LEMMA CatalogInitially == CatalogInit => CatalogInv
<1> SUFFICES ASSUME CatalogInit PROVE CatalogInv
  OBVIOUS
<1> USE DEF CatalogInit
<1>1. CatalogTypeOK
  <2>1. 0 \in 0 .. Cardinality(Channel) BY Finite DEF Item
  <2>2. counted \in [Sync -> 0 .. Cardinality(Channel)] BY <2>1
  <2>3. restore \in [Rollback -> [at : {"idle", "deactivating", "restoring"}, of : SUBSET Sync,
                                  left : SUBSET Channel]]
    BY RollbackType
  <2>4. stage \in [Sync -> Stage] BY DEF Stage
  <2>5. present \subseteq Item /\ active \subseteq present BY DEF Item
  <2> QED BY <2>2, <2>3, <2>4, <2>5 DEF CatalogTypeOK
<1>2. SnapshotTells BY DEF SnapshotTells, Written, Kept
<1>3. RollbackTells BY DEF RollbackTells, NoRollback
<1>4. OneWriter BY DEF OneWriter, Syncing
<1>5. ListedIsActive BY DEF ListedIsActive, Written
<1>6. VerdictStands BY DEF VerdictStands
<1> QED BY <1>1, <1>2, <1>3, <1>4, <1>5, <1>6 DEF CatalogInv

(* What snapshots hold, what rollbacks have restored, and, undisturbed,    *)
(* what was written and counted.                                           *)
THEOREM CatalogInvariant == CatalogSpec => []CatalogInv
<1>1. CatalogInv /\ [CatalogNext]_catalogVars => CatalogInv'
  <2> SUFFICES ASSUME CatalogInv, [CatalogNext]_catalogVars PROVE CatalogInv'
    OBVIOUS
  <2>1. CatalogTypeOK' BY CatalogTypeStep DEF CatalogInv
  <2> QED
    BY <2>1, SnapshotStep, RollbackStep, OneWriterStep, ListedStep, VerdictStep DEF CatalogInv
<1> QED BY <1>1, CatalogInitially, PTL DEF CatalogSpec

(* A rollback that nobody writes against restores the channels that were   *)
(* active before the sync.                                                 *)
THEOREM RollbackRestores == CatalogSpec => RollbackUndoes
<1> DEFINE Undone == \A b \in alone, s \in Sync :
             MarkRolledBack(b) /\ s \in restore[b].of => active' \cap Channel = prior[s]
<1>1. CatalogInv => Undone
  BY DEF CatalogInv, CatalogTypeOK, RollbackTells, MarkRolledBack, documents
<1>2. CatalogInv /\ [CatalogNext]_catalogVars => [Undone]_catalogVars
  BY <1>1
<1> QED BY <1>2, CatalogInvariant, PTL DEF CatalogSpec, RollbackUndoes

(* An undisturbed sync of an Xtream source leaves half of its channels and *)
(* half of its titles active.                                              *)
THEOREM PruneIsBounded == CatalogSpec => PruneKeepsHalf
<1> DEFINE Half == \A s \in Sync :
             sourceKind = "xtream" /\ occurred \subseteq {"throw", "crash"} => KeepsHalf(s)
<1>1. ASSUME CatalogInv, NEW s \in Sync, Undisturbed PROVE KeepsHalf(s)
  <2>1. CASE PruneChannels(s)
    <3>1. listing[s] \subseteq active /\ stage[s] = "pruningChannels"
      BY <1>1, <2>1 DEF PruneChannels, CatalogInv, ListedIsActive, Written
    <3>2. active' \cap Channel = listing[s] \cap Channel BY <2>1, <3>1 DEF PruneChannels
    <3>3. 2 * Cardinality(listing[s] \cap Channel) >= Cardinality(active \cap Channel)
      BY <1>1, <3>1 DEF CatalogInv, VerdictStands
    <3>4. ~PruneTitles(s) BY <3>1 DEF PruneTitles
    <3> QED BY <3>2, <3>3, <3>4 DEF KeepsHalf
  <2>2. CASE PruneTitles(s)
    <3>1. listing[s] \subseteq active /\ stage[s] = "pruningTitles"
      BY <1>1, <2>2 DEF PruneTitles, CatalogInv, ListedIsActive, Written
    <3>2. active' \cap Title = listing[s] \cap Title BY <2>2, <3>1 DEF PruneTitles
    <3>3. 2 * Cardinality(listing[s] \cap Title) >= Cardinality(active \cap Title)
      BY <1>1, <3>1 DEF CatalogInv, VerdictStands
    <3>4. ~PruneChannels(s) BY <3>1 DEF PruneChannels
    <3> QED BY <3>2, <3>3, <3>4 DEF KeepsHalf
  <2> QED BY <2>1, <2>2 DEF KeepsHalf
<1>2. CatalogInv /\ [CatalogNext]_catalogVars => [Half]_catalogVars
  BY <1>1 DEF Undisturbed
<1> QED BY <1>2, CatalogInvariant, PTL DEF CatalogSpec, PruneKeepsHalf
=============================================================================
