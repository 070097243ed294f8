------------------------------ MODULE ModelStore ------------------------------
(* The models on disk (manifest/, server/images.go, create.go, routes.go):   *)
(* one manifest file per name, which lists the digests of the blobs that     *)
(* make up the model, and the blob files, which names share.  The requests   *)
(* that pull, create, copy and delete models, the command line that imports  *)
(* one, and the cache behind /api/tags (server/model_list_cache.go) work on  *)
(* the files without a lock.                                                 *)
(*                                                                           *)
(* A manifest is the set of its blobs; two manifests with the same set have  *)
(* the same digest.  Download.tla has the detail of a blob's download.       *)
EXTENDS Integers, FiniteSets

CONSTANTS
  Names,      \* model names
  Blobs,      \* digests
  Config,     \* the blobs that are config layers
  Template,   \* the blobs that are templates, which create may replace
  Published,  \* the manifests a registry may serve
  Made,       \* the layers a create makes: a config and perhaps a template
  Requests,   \* requests in flight
  Importers,  \* processes of "ollama create" that write layers themselves
  Hydrator,   \* the goroutine that fills the list cache after the start
  Absent,     \* there is no file, or no entry
  Torn,       \* a manifest file that cannot be parsed
  NoJob,
  MaxRequests, MaxFaults  \* bounds

Workers == Requests \cup Importers \cup {Hydrator}

ASSUME StoreAssumption ==
  /\ Absent # Torn /\ \A content \in SUBSET Blobs : content \notin {Absent, Torn}
  /\ Published \subseteq SUBSET Blobs /\ Made \subseteq SUBSET Blobs
  /\ Config \subseteq Blobs /\ Template \subseteq Blobs
  /\ Hydrator \notin Requests \cup Importers /\ Requests \cap Importers = {}
  /\ NoJob \notin Workers
  /\ MaxRequests \in Nat /\ MaxFaults \in Nat

VARIABLES
  manifest,  \* name -> the content of its file
  folder,    \* the names whose directory exists
  blobs,     \* the blob files
  bad,       \* those whose content is not what their digest says
  fresh,     \* those modified within layerPruneGracePeriod
  entries,   \* modelListCache.entries: name -> the manifest it was built from
  ready,     \* "no", "yes" or "failed": modelListCache.ready and hydrateErr
  job,       \* worker -> what it was asked to do
  at,        \* worker -> the step it is at
  has,       \* worker -> the layers it has found or made so far
  got,       \* worker -> the layers it has downloaded and not verified
  scan,      \* worker -> its pass over the manifests
  adrift,    \* worker -> which of its open files were unlinked
  left,      \* how many more requests and faults there may be
  raced,     \* not in the code: see Overlap
  calm       \* not in the code: the only job that ran since it started

storeVars == <<manifest, folder, blobs, bad, fresh, entries, ready, job, at, has,
               got, scan, adrift, left, raced, calm>>

Readable(n) == manifest[n] \notin {Absent, Torn}

\* Manifests(true): what a pass has seen; the names it could not parse are
\* left out.
Unseen == [n \in Names |-> Absent]

\* A pass: the files it has yet to read and what it has read, the entries it
\* leaves alone, the blobs it may remove, and the step that follows it.
Pass(todo, seen, kill, next) ==
  [todo |-> todo, seen |-> seen, keep |-> {}, kill |-> kill, next |-> next]

NoScan == Pass({}, Unseen, {}, "idle")

InUse(s) == UNION {s.seen[n] : n \in {m \in Names : s.seen[m] # Absent}}

\* From its first layer to its manifest a job relies on blobs that no manifest
\* need name; the pass of a create that replaces layers is part of that.
Writing(j) ==
  \/ at[j] \in {"base", "layers", "verify", "mkdir", "open", "create", "write"}
  \/ at[j] \in {"glob", "scan", "remove"} /\ scan[j].next = "layers"

\* A job is in the pass over the manifests that decides what it removes.
Removing(j) == at[j] \in {"scan", "remove"} /\ scan[j].kill # {}

\* A removal runs beside a job that has not written its manifest yet, or a job
\* counts on a wrong blob that it is not going to verify.
Overlap ==
  \E k \in Workers :
    /\ Writing(k)
    /\ (\E j \in Workers \ {k} : Removing(j)) \/ ~ (has[k] \cap bad \subseteq got[k])

-----------------------------------------------------------------------------
(* How jobs move                                                             *)

Go(j, s) == at' = [at EXCEPT ![j] = s]

\* The end of a job, after its last step or an error.
End(j) ==
  /\ at' = [at EXCEPT ![j] = "idle"]
  /\ job' = [job EXCEPT ![j] = NoJob]
  /\ has' = [has EXCEPT ![j] = {}]
  /\ got' = [got EXCEPT ![j] = {}]
  /\ scan' = [scan EXCEPT ![j] = NoScan]
  /\ adrift' = [adrift EXCEPT ![j] = {}]

Start(j, new, s) ==
  /\ at[j] = "idle" /\ left.requests > 0
  /\ job' = [job EXCEPT ![j] = new]
  /\ Go(j, s)
  /\ left' = [left EXCEPT !.requests = @ - 1]
  /\ calm' = IF \A k \in Workers \ {j} : at[k] = "idle" THEN j ELSE NoJob
  /\ UNCHANGED <<manifest, folder, blobs, bad, fresh, entries, ready, has, got, adrift>>

\* The next pass over the manifests: what it may remove, and what follows.
Plan(j, kill, next) ==
  scan' = [scan EXCEPT ![j] = Pass({}, Unseen, kill, next)]

\* What a job does once its manifest is written.
AfterWrite(j) ==
  LET old == IF job[j].op = "pull" THEN job[j].old \ job[j].want ELSE job[j].old
  IN IF old = {} THEN Go(j, "refresh") /\ UNCHANGED scan
     ELSE Go(j, "glob") /\ Plan(j, old, "refresh")

-----------------------------------------------------------------------------
(* Requests                                                                  *)

Job(op, n, from, base, drop, want) ==
  [op |-> op, name |-> n, from |-> from, base |-> base, drop |-> drop, want |-> want,
   old |-> IF Readable(n) /\ op # "copy" THEN manifest[n] ELSE {}]

\* PullModel: the existing manifest, then the registry's.
Pull(j, n, content) ==
  /\ Start(j, Job("pull", n, n, {}, {}, content), "layers")
  /\ UNCHANGED scan

\* CreateHandler FROM a model that is there: the layers of the base but its
\* config, the made ones in place of those they replace.
Create(j, n, from, made) ==
  /\ Readable(from)
  /\ LET base == manifest[from] \ Config
         drop == IF made \cap Template = {} THEN {} ELSE base \cap Template
     IN Start(j, Job("create", n, from, base, drop, (base \ drop) \cup made), "base")
  /\ UNCHANGED scan

\* x/create/client: another process makes every layer and the manifest.
Import(j, n, content) ==
  /\ Start(j, Job("import", n, n, {}, {}, content), "layers")
  /\ UNCHANGED scan

Copy(j, from, n) ==
  /\ from # n /\ Start(j, Job("copy", n, from, {}, {}, {}), "mkdir")
  /\ UNCHANGED scan

\* DeleteHandler: a manifest that does not parse ends it here.
Delete(j, n) ==
  /\ Readable(n)
  /\ Start(j, Job("delete", n, n, {}, {}, {}), "unlink")
  /\ UNCHANGED scan

\* List waits for the hydration, and fails if that has failed.
List(j) ==
  /\ ready = "yes"
  /\ Start(j, [op |-> "list", name |-> Absent, from |-> Absent, base |-> {}, drop |-> {},
               want |-> {}, old |-> {}], "glob")
  /\ Plan(j, {}, "diff")

-----------------------------------------------------------------------------
(* Layers                                                                    *)

\* Manifests list their layers in an order, the same for all.
First(layers) == CHOOSE b \in layers : TRUE

\* parseFromModel: a layer of the base must be there, and is touched.
Base(j) ==
  LET b == First(job[j].base \ has[j])
  IN /\ at[j] = "base" /\ job[j].base \ has[j] # {}
     /\ IF b \in blobs
        THEN /\ has' = [has EXCEPT ![j] = @ \cup {b}]
             /\ fresh' = fresh \cup {b}
             /\ UNCHANGED <<at, job, got, scan, adrift>>
        ELSE End(j) /\ UNCHANGED fresh
     /\ UNCHANGED <<manifest, folder, blobs, bad, entries, ready, left, calm>>

\* removeLayer on the layers that are replaced.
Drop(j) ==
  /\ at[j] = "base" /\ has[j] = job[j].base
  /\ has' = [has EXCEPT ![j] = @ \ job[j].drop]
  /\ IF job[j].drop = {} THEN Go(j, "layers") /\ UNCHANGED scan
     ELSE Go(j, "glob") /\ Plan(j, job[j].drop, "layers")
  /\ UNCHANGED <<manifest, folder, blobs, bad, fresh, entries, ready, job, got, adrift, left, calm>>

\* NewLayer: take the blob that is there or make it, and touch it.
Make(j, b) ==
  /\ blobs' = blobs \cup {b} /\ fresh' = fresh \cup {b}
  /\ UNCHANGED <<bad, got, left>>

\* downloadBlob finds the blob, and will not verify it, or joins the download
\* of another pull, or downloads it; what comes may be wrong.
Fetch(j, b) ==
  \/ /\ b \in blobs
     /\ UNCHANGED <<blobs, bad, fresh, got, left>>
  \/ /\ b \in blobs /\ \E k \in Requests \ {j} : b \in got[k]
     /\ got' = [got EXCEPT ![j] = @ \cup {b}]
     /\ UNCHANGED <<blobs, bad, fresh, left>>
  \/ /\ b \notin blobs
     /\ blobs' = blobs \cup {b} /\ fresh' = fresh \cup {b}
     /\ got' = [got EXCEPT ![j] = @ \cup {b}]
     /\ \/ UNCHANGED <<bad, left>>
        \/ /\ left.faults > 0 /\ left' = [left EXCEPT !.faults = @ - 1]
           /\ bad' = bad \cup {b}

Layer(j) ==
  LET b == First(job[j].want \ has[j])
  IN /\ at[j] = "layers" /\ job[j].want \ has[j] # {}
     /\ has' = [has EXCEPT ![j] = @ \cup {b}]
     /\ IF job[j].op = "pull" THEN Fetch(j, b) ELSE Make(j, b)
     /\ UNCHANGED <<manifest, folder, entries, ready, job, at, scan, adrift, calm>>

Layered(j) ==
  /\ at[j] = "layers" /\ job[j].want \subseteq has[j]
  /\ Go(j, IF job[j].op = "pull" THEN "verify" ELSE "mkdir")
  /\ UNCHANGED <<manifest, folder, blobs, bad, fresh, entries, ready, job, has, got, scan,
                 adrift, left, calm>>

\* verifyBlob on what was downloaded: a blob that is wrong is removed and ends
\* the pull, and so does one that another pull has removed.
Verify(j) ==
  /\ at[j] = "verify"
  /\ IF got[j] \subseteq blobs \ bad
     THEN /\ Go(j, "mkdir")
          /\ got' = [got EXCEPT ![j] = {}]
          /\ UNCHANGED <<blobs, bad, fresh, job, has, scan, adrift>>
     ELSE /\ \E b \in got[j] :
               /\ b \in bad \/ b \notin blobs
               /\ blobs' = blobs \ {b} /\ bad' = bad \ {b} /\ fresh' = fresh \ {b}
          /\ End(j)
  /\ UNCHANGED <<manifest, folder, entries, ready, left, calm>>

\* An error of the network or the disk, the client has left, or the importer
\* was interrupted.
GiveUp(j) ==
  /\ at[j] \in {"base", "layers", "write"}
  /\ End(j)
  /\ UNCHANGED <<manifest, folder, blobs, bad, fresh, entries, ready, left, calm>>

-----------------------------------------------------------------------------
(* The manifest file                                                         *)

MkdirAll(j) ==
  /\ at[j] = "mkdir"
  /\ folder' = folder \cup {job[j].name}
  /\ Go(j, IF job[j].op = "copy" THEN "open" ELSE "create")
  /\ UNCHANGED <<manifest, blobs, bad, fresh, entries, ready, job, has, got, scan, adrift, left, calm>>

\* CopyModel opens the source.
Open(j) ==
  /\ at[j] = "open"
  /\ IF manifest[job[j].from] = Absent THEN End(j)
     ELSE Go(j, "create") /\ UNCHANGED <<job, has, got, scan, adrift>>
  /\ UNCHANGED <<manifest, folder, blobs, bad, fresh, entries, ready, left, calm>>

\* os.Create truncates the file; it fails if the directory was pruned.
Truncate(j) ==
  /\ at[j] = "create"
  /\ IF job[j].name \in folder
     THEN /\ manifest' = [manifest EXCEPT ![job[j].name] = Torn]
          /\ Go(j, "write") /\ UNCHANGED <<job, has, got, scan, adrift>>
     ELSE End(j) /\ UNCHANGED manifest
  /\ UNCHANGED <<folder, blobs, bad, fresh, entries, ready, left, calm>>

\* What is written: a copy reads its source now, unless that was unlinked.
Written(j) ==
  IF job[j].op # "copy" THEN has[j]
  ELSE IF "from" \notin adrift[j] THEN manifest[job[j].from]
  ELSE IF has[j] = {} THEN Torn ELSE has[j]

Write(j) ==
  /\ at[j] = "write"
  /\ manifest' = IF "name" \in adrift[j] THEN manifest
                 ELSE [manifest EXCEPT ![job[j].name] = Written(j)]
  /\ IF job[j].op = "import" THEN End(j)
     ELSE /\ AfterWrite(j)
          /\ UNCHANGED <<job, has, got, adrift>>
  /\ UNCHANGED <<folder, blobs, bad, fresh, entries, ready, left, calm>>

\* Manifest.Remove: the file, then every directory that is empty.
Unlink(j) ==
  LET n == job[j].name
      Opened(k) == {f \in {"name", "from"} :
                      \/ f = "name" /\ at[k] = "write" /\ job[k].name = n
                      \/ /\ f = "from" /\ at[k] \in {"create", "write"}
                         /\ job[k].op = "copy" /\ job[k].from = n}
      Holds(k) == "from" \in Opened(k) /\ "from" \notin adrift[k]
  IN /\ at[j] = "unlink"
     /\ IF manifest[n] = Absent
        THEN End(j) /\ UNCHANGED <<manifest, folder>>
        ELSE /\ manifest' = [manifest EXCEPT ![n] = Absent]
             /\ folder' = {m \in folder : manifest[m] # Absent /\ m # n}
             /\ adrift' = [k \in Workers |-> adrift[k] \cup Opened(k)]
             /\ has' = [k \in Workers |->
                          IF Holds(k) /\ Readable(n) THEN manifest[n] ELSE has[k]]
             /\ Go(j, "forget")
             /\ UNCHANGED <<job, got, scan>>
     /\ UNCHANGED <<blobs, bad, fresh, entries, ready, left, calm>>

-----------------------------------------------------------------------------
(* The pass over the manifests, and the removal of unused blobs              *)

Glob(j) ==
  /\ at[j] = "glob"
  /\ scan' = [scan EXCEPT ![j] =
                Pass({n \in Names : manifest[n] # Absent}, Unseen, @.kill, @.next)]
  /\ Go(j, "scan")
  /\ UNCHANGED <<manifest, folder, blobs, bad, fresh, entries, ready, job, has, got, adrift, left, calm>>

\* Read one file.  A file that has gone since the glob fails the pass.
Scan(j, n) ==
  /\ at[j] = "scan" /\ n \in scan[j].todo
  /\ IF manifest[n] # Absent
     THEN /\ scan' = [scan EXCEPT ![j] = Pass(@.todo \ {n},
                        [@.seen EXCEPT ![n] = IF Readable(n) THEN manifest[n] ELSE Absent],
                        @.kill, @.next)]
          /\ UNCHANGED <<at, job, has, got, adrift, ready>>
     ELSE /\ ready' = IF j = Hydrator THEN "failed" ELSE ready
          /\ IF scan[j].next \in {"idle", "diff", "fill"} THEN End(j)
             ELSE Go(j, scan[j].next) /\ UNCHANGED <<job, has, got, scan, adrift>>
  /\ UNCHANGED <<manifest, folder, blobs, bad, fresh, entries, left, calm>>

Scanned(j) ==
  /\ at[j] = "scan" /\ scan[j].todo = {}
  /\ Go(j, IF scan[j].kill = {} /\ scan[j].next # "idle" THEN scan[j].next ELSE "remove")
  /\ UNCHANGED <<manifest, folder, blobs, bad, fresh, entries, ready, job, has, got, scan,
                 adrift, left, calm>>

\* RemoveLayers, Layer.Remove and deleteUnusedLayers.
Remove(j) ==
  LET unused == scan[j].kill \ InUse(scan[j])
  IN /\ at[j] = "remove"
     /\ blobs' = blobs \ unused /\ bad' = bad \ unused /\ fresh' = fresh \ unused
     /\ IF scan[j].next = "idle" THEN End(j)
        ELSE Go(j, scan[j].next) /\ UNCHANGED <<job, has, got, scan, adrift>>
     /\ UNCHANGED <<manifest, folder, entries, ready, left, calm>>

-----------------------------------------------------------------------------
(* The list cache                                                            *)

\* buildModelListSummary reads the config and the template.
Buildable(content) == content \cap (Config \cup Template) \subseteq blobs

\* DeleteHandler: deleteModelListCache, then RemoveLayers.
Forget(j) ==
  /\ at[j] = "forget"
  /\ entries' = [entries EXCEPT ![job[j].name] = Absent]
  /\ Go(j, "glob") /\ Plan(j, job[j].old, "idle")
  /\ UNCHANGED <<manifest, folder, blobs, bad, fresh, ready, job, has, got, adrift, left, calm>>

\* RefreshModel: read the manifest and build, then set or delete the entry.
Refresh(j) ==
  LET n == job[j].name
  IN /\ at[j] = "refresh"
     /\ scan' = [scan EXCEPT ![j] = Pass({}, [Unseen EXCEPT ![n] =
                   IF Readable(n) /\ Buildable(manifest[n]) THEN manifest[n] ELSE Absent],
                   {}, "idle")]
     /\ Go(j, "enter")
     /\ UNCHANGED <<manifest, folder, blobs, bad, fresh, entries, ready, job, has, got, adrift,
                    left, calm>>

Enter(j) ==
  /\ at[j] = "enter"
  /\ entries' = [entries EXCEPT ![job[j].name] = scan[j].seen[job[j].name]]
  /\ End(j)
  /\ UNCHANGED <<manifest, folder, blobs, bad, fresh, ready, left, calm>>

\* syncManifests: an entry with the digest of its manifest stays as it is; any
\* other is built again, and dropped if that fails.
Diff(j) ==
  LET seen == scan[j].seen
  IN /\ at[j] = "diff"
     /\ scan' = [scan EXCEPT ![j] =
          [todo |-> {}, kill |-> {}, next |-> "idle",
           keep |-> {n \in Names : /\ seen[n] # Absent
                                  /\ \/ seen[n] = entries[n]
                                     \/ ~ Buildable(seen[n]) /\ entries[n] = Absent},
           seen |-> [n \in Names |-> IF seen[n] # Absent /\ Buildable(seen[n])
                                     THEN seen[n] ELSE Absent]]]
     /\ Go(j, "apply")
     /\ UNCHANGED <<manifest, folder, blobs, bad, fresh, entries, ready, job, has, got,
                    adrift, left, calm>>

\* Mutant: the entries of manifests that have gone stay.
ApplyUpdates(j) ==
  /\ at[j] = "apply"
  /\ entries' = [n \in Names |-> IF scan[j].seen[n] = Absent THEN entries[n] ELSE scan[j].seen[n]]
  /\ Go(j, "read")
  /\ UNCHANGED <<manifest, folder, blobs, bad, fresh, ready, job, has, got, scan, adrift,
                 left, calm>>

Apply(j) ==
  /\ at[j] = "apply"
  /\ entries' = [n \in Names |-> IF n \in scan[j].keep THEN entries[n] ELSE scan[j].seen[n]]
  /\ Go(j, "read")
  /\ UNCHANGED <<manifest, folder, blobs, bad, fresh, ready, job, has, got, scan, adrift,
                 left, calm>>

\* List copies the entries.
Read(j) ==
  /\ at[j] = "read"
  /\ End(j)
  /\ UNCHANGED <<manifest, folder, blobs, bad, fresh, entries, ready, left, calm>>

\* hydrate: one entry after the other, from one pass.
Fill(n) ==
  LET j == Hydrator
  IN /\ at[j] = "fill" /\ scan[j].seen[n] # Absent
     /\ entries' = IF Buildable(scan[j].seen[n])
                   THEN [entries EXCEPT ![n] = scan[j].seen[n]] ELSE entries
     /\ scan' = [scan EXCEPT ![j] = Pass({}, [@.seen EXCEPT ![n] = Absent], {}, "fill")]
     /\ UNCHANGED <<manifest, folder, blobs, bad, fresh, ready, job, at, has, got, adrift, left, calm>>

Filled ==
  /\ at[Hydrator] = "fill" /\ \A n \in Names : scan[Hydrator].seen[n] = Absent
  /\ ready' = "yes"
  /\ End(Hydrator)
  /\ UNCHANGED <<manifest, folder, blobs, bad, fresh, entries, left, calm>>

-----------------------------------------------------------------------------
(* Time, restarts and the specification                                      *)

\* layerPruneGracePeriod passes.
Age ==
  /\ fresh # {} /\ fresh' = {}
  /\ UNCHANGED <<manifest, folder, blobs, bad, entries, ready, job, at, has, got, scan,
                 adrift, left, calm>>

\* Mutant: recent blobs are pruned as well.
UnusedOrRecent == {b \in blobs : \A n \in Names : Readable(n) => b \notin manifest[n]}

\* PruneLayers: every old blob that no manifest names.
Unused == {b \in blobs \ fresh : \A n \in Names : Readable(n) => b \notin manifest[n]}

Hydrating == Pass({}, Unseen, {}, "fill")

\* The server dies and starts again; an import goes on.  Serve prunes unless it
\* finds a manifest it cannot parse.
Restart ==
  LET pruned == IF \A n \in Names : manifest[n] # Torn THEN Unused ELSE {}
      Survive(f, dead) == [k \in Workers |-> IF k \in Importers THEN f[k] ELSE dead]
  IN /\ left.faults > 0 /\ left' = [left EXCEPT !.faults = @ - 1]
     /\ blobs' = blobs \ pruned /\ bad' = bad \ pruned
     /\ folder' = IF \E n \in Names : manifest[n] = Torn THEN folder
                  ELSE {n \in folder : manifest[n] # Absent}
     /\ entries' = [n \in Names |-> Absent] /\ ready' = "no"
     /\ job' = Survive(job, NoJob)
     /\ at' = [Survive(at, "idle") EXCEPT ![Hydrator] = "glob"]
     /\ has' = Survive(has, {}) /\ got' = Survive(got, {})
     /\ scan' = [Survive(scan, NoScan) EXCEPT ![Hydrator] = Hydrating]
     /\ adrift' = Survive(adrift, {})
     /\ calm' = NoJob
     /\ UNCHANGED <<manifest, fresh>>

\* Some models are installed and the server has been up for a while.
Init ==
  /\ manifest \in [Names -> Published \cup {Absent}] /\ entries = manifest
  /\ folder = {n \in Names : manifest[n] # Absent}
  /\ blobs = UNION {manifest[n] : n \in folder}
  /\ bad = {} /\ fresh = {} /\ ready = "yes"
  /\ job = [k \in Workers |-> NoJob] /\ at = [k \in Workers |-> "idle"]
  /\ has = [k \in Workers |-> {}] /\ got = [k \in Workers |-> {}]
  /\ scan = [k \in Workers |-> NoScan] /\ adrift = [k \in Workers |-> {}]
  /\ left = [requests |-> MaxRequests, faults |-> MaxFaults]
  /\ raced = FALSE /\ calm = NoJob

Ask(j) ==
  \/ \E n \in Names :
       \/ \E content \in Published : Pull(j, n, content)
       \/ \E from \in Names : Copy(j, from, n) \/ \E made \in Made : Create(j, n, from, made)
       \/ Delete(j, n)
  \/ List(j)

Advance(j) ==
  \/ Base(j) \/ Drop(j) \/ Layer(j) \/ Layered(j) \/ Verify(j) \/ GiveUp(j)
  \/ MkdirAll(j) \/ Open(j) \/ Truncate(j) \/ Write(j) \/ Unlink(j)
  \/ Glob(j) \/ (\E n \in Names : Scan(j, n)) \/ Scanned(j) \/ Remove(j)
  \/ Forget(j) \/ Refresh(j) \/ Enter(j) \/ Diff(j) \/ Apply(j) \/ Read(j)

Step ==
  \/ \E j \in Requests : Ask(j)
  \/ \E j \in Importers, n \in Names, content \in Published : Import(j, n, content)
  \/ \E j \in Workers : Advance(j)
  \/ \E n \in Names : Fill(n)
  \/ Filled
  \/ Age

\* An import may take longer than the grace period: then pruning is a removal
\* beside it.
Next ==
  \/ Step /\ raced' = (raced \/ Overlap')
  \/ /\ Restart
     /\ raced' = \/ raced \/ Overlap'
                 \/ \E j \in Importers : Writing(j) /\ ~ (has[j] \subseteq fresh)

Spec == Init /\ [][Next]_storeVars

=============================================================================
