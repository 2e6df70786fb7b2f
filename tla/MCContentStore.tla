--------------------------- MODULE MCContentStore ---------------------------
(* Small instances of ContentStore for TLC.                                *)
EXTENDS ContentStore, FiniteSets, TLC

(* A plain upload and one with replace and replaceTrashed (WebDAV, mirror). *)
MCPolicies == {{}, {"replace", "restoreDeleted"}}

Symmetry == Permutations(Sha) \cup Permutations(Uploader)
            \cup Permutations(EntryId) \cup Permutations(AssetId)

(* The bound of the safety run: either every request is about one content, *)
(* with a purge and entries that are created again, or two contents        *)
(* replace each other in one entry that is never purged.                   *)
ShasSeen    == {shaOf[a] : a \in AssetId} \cup {up[u].sha : u \in Uploader} \cup objects
EntriesSeen == {e \in EntryId : nameOf[e] # None}
OneContentOrOneEntry ==
  \/ Cardinality(ShasSeen \ {None}) <= 1
  \/ Cardinality(EntriesSeen) <= 1 /\ \A c \in Purger : gc[c].pc = "idle"
=============================================================================
