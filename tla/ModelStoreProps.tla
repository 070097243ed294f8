--------------------------- MODULE ModelStoreProps ---------------------------
(* What the models on disk and the cache of /api/tags owe to their users.    *)
EXTENDS ModelStore

\* Every blob that a manifest names is there, and is what its digest says:
\* what pull, create and import write, however the others copy, delete and
\* fail, and whatever the pruning after a restart removes, as long as no
\* removal runs beside a job that has yet to write its manifest and no job
\* takes a wrong blob for good (images.go, create.go, manifest.go).
ManifestsAreWhole ==
  raced \/ \A n \in Names : Readable(n) => manifest[n] \subseteq blobs \ bad

\* The comment of RemoveLayers, "Remove layers not used by any other manifest"
\* (manifest.go:90), and of Layer.Remove, "something is using this layer":
\* a layer that is removed as unused is named by no manifest.
RemovalsSpareUsedLayers ==
  [][\A j \in Workers : at[j] = "remove" /\ at'[j] # "remove" =>
       \A n \in Names : Readable(n) => manifest[n] \cap (blobs \ blobs') = {}]_storeVars

\* /api/tags asked while nothing else runs answers with the models on disk,
\* whatever the jobs before it have left in the cache: an entry for every
\* manifest that can be read and whose config and template are there, and
\* none for any other (ListHandler, syncManifests).
ListAloneIsExact ==
  \A j \in Requests : at[j] = "read" /\ calm = j =>
    \A n \in Names :
      /\ ~ Readable(n) => entries[n] = Absent
      /\ Readable(n) => \/ entries[n] = manifest[n]
                        \/ entries[n] = Absent /\ ~ Buildable(manifest[n])

=============================================================================
