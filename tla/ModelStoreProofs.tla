--------------------------- MODULE ModelStoreProofs ---------------------------
(* A manifest that can be read names blobs that are there and right, proved  *)
(* from IInv: jobs have the layers they count on, and a pass that may remove *)
(* blobs has every manifest behind or before it, until jobs overlap (raced). *)
(* A list made while nothing else runs is what the manifests say (AloneInv). *)
EXTENDS ModelStoreProps, TLAPS

\* What a job has where it is, whatever the jobs have done to each other.
Fits(j) ==
  /\ DOMAIN scan[j].seen = Names
  /\ scan[j].next \in {"idle", "layers", "refresh", "diff", "fill"}
  /\ IF j = Hydrator \/ job[j].op = "list"
     THEN /\ at[j] \in {"idle", "glob", "scan", "remove", "diff", "apply", "read", "fill"}
          /\ scan[j].next \in {"idle", "diff", "fill"}
     ELSE at[j] # "idle" => job[j].name \in Names /\ job[j].from \in Names
  /\ got[j] # {} => at[j] \in {"layers", "verify"} /\ job[j].op = "pull"
  /\ at[j] = "idle" => has[j] = {}
  /\ at[j] = "remove" => scan[j].todo = {}
  /\ at[j] \in {"glob", "scan", "remove"} /\ scan[j].next = "layers" =>
       has[j] \cap scan[j].kill = {}

Shape ==
  /\ DOMAIN manifest = Names
  /\ DOMAIN job = Workers /\ DOMAIN at = Workers /\ DOMAIN has = Workers
  /\ DOMAIN got = Workers /\ DOMAIN scan = Workers /\ DOMAIN adrift = Workers
  /\ \A j \in Workers : Fits(j)

\* The blobs of a manifest are there and right.
Whole == \A n \in Names : Readable(n) => manifest[n] \subseteq blobs \ bad

\* A job has the layers it counts on, but for those it is still to verify.
Held == \A k \in Workers : Writing(k) => has[k] \subseteq blobs \cup got[k]

\* A pass that may remove blobs has read every manifest there is as it is now,
\* or is still to read it.
Covered ==
  \A j \in Workers, n \in Names :
    Removing(j) /\ Readable(n) => n \in scan[j].todo \/ scan[j].seen[n] = manifest[n]

Sound == Whole /\ Held /\ Covered /\ ~ Overlap

IInv == Shape /\ (raced \/ Sound)

\* Taking or missing a layer of the base model keeps the shape of the state:
\* every worker has what its step needs.
LEMMA BaseShape ==
  ASSUME Shape, NEW j \in Workers, Base(j)
  PROVE  Shape'
BY SMTT(30) DEF Shape, Fits, Base, End, Go, NoScan, Pass, Unseen

\* Taking or missing a layer of the base model keeps manifests whole, jobs
\* supplied and passes complete.
LEMMA BaseSound ==
  ASSUME Shape, Sound, NEW j \in Workers, Base(j)
  PROVE  (Whole /\ Held /\ Covered)'
<1>1. Whole'
  BY SMTT(30) DEF Shape, Fits, Sound, Whole, Held, Covered, Overlap, Writing, Removing, Readable, Base, End, Go, NoScan, Pass, Unseen
<1>2. Held'
  BY SMTT(30) DEF Shape, Fits, Sound, Whole, Held, Covered, Overlap, Writing, Removing, Readable, Base, End, Go, NoScan, Pass, Unseen
<1>3. Covered'
  BY SMTT(30) DEF Shape, Fits, Sound, Whole, Held, Covered, Overlap, Writing, Removing, Readable, Base, End, Go, NoScan, Pass, Unseen
<1> QED BY <1>1, <1>2, <1>3

\* Starting the pass that removes replaced layers keeps the shape of the state:
\* every worker has what its step needs.
LEMMA DropShape ==
  ASSUME Shape, NEW j \in Workers, Drop(j)
  PROVE  Shape'
BY SMTT(30) DEF Shape, Fits, Drop, Go, Plan, Pass, Unseen

\* Starting the pass that removes replaced layers keeps manifests whole, jobs
\* supplied and passes complete: what is dropped is no longer counted on.
LEMMA DropSound ==
  ASSUME Shape, Sound, NEW j \in Workers, Drop(j)
  PROVE  (Whole /\ Held /\ Covered)'
<1>1. Whole'
  BY SMTT(30) DEF Shape, Fits, Sound, Whole, Held, Covered, Overlap, Writing, Removing, Readable, Drop, Go, Plan, Pass, Unseen
<1>2. Held'
  BY SMTT(30) DEF Shape, Fits, Sound, Whole, Held, Covered, Overlap, Writing, Removing, Readable, Drop, Go, Plan, Pass, Unseen
<1>3. Covered'
  BY SMTT(30) DEF Shape, Fits, Sound, Whole, Held, Covered, Overlap, Writing, Removing, Readable, Drop, Go, Plan, Pass, Unseen
<1> QED BY <1>1, <1>2, <1>3

\* Making, finding or downloading one layer keeps the shape of the state: every
\* worker has what its step needs.
LEMMA LayerShape ==
  ASSUME Shape, NEW j \in Workers, Layer(j)
  PROVE  Shape'
BY SMTT(30) DEF Shape, Fits, Layer, Make, Fetch

\* Making, finding or downloading one layer keeps manifests whole, jobs
\* supplied and passes complete: it is there or is still to be verified.
LEMMA LayerSound ==
  ASSUME Shape, Sound, NEW j \in Workers, Layer(j)
  PROVE  (Whole /\ Held /\ Covered)'
<1> DEFINE b == First(job[j].want \ has[j])
<1>1. /\ has' = [has EXCEPT ![j] = @ \cup {b}]
      /\ UNCHANGED <<manifest, at, scan>>
  BY DEF Layer
<1>0. Make(j, b) \/ Fetch(j, b)
  BY DEF Layer
<1> HIDE DEF b
<1>2. /\ blobs \subseteq blobs' /\ bad' \subseteq bad \cup {b}
      /\ b \in blobs' /\ (b \in blobs => bad' = bad)
      /\ \A k \in Workers : got[k] \subseteq got'[k]
  <2>1. CASE Make(j, b)
    BY <2>1 DEF Make
  <2>2. CASE Fetch(j, b)
    BY <2>2 DEF Fetch, Shape, Fits
  <2> QED BY <1>0, <2>1, <2>2
<1>3. Whole'
  BY <1>1, <1>2 DEF Sound, Whole, Readable
<1>4. Held'
  BY <1>1, <1>2 DEF Shape, Fits, Sound, Held, Writing
<1>5. Covered'
  BY <1>1 DEF Sound, Covered, Removing, Readable
<1> QED BY <1>3, <1>4, <1>5

\* Having every layer keeps the shape of the state: every worker has what its
\* step needs.
LEMMA LayeredShape ==
  ASSUME Shape, NEW j \in Workers, Layered(j)
  PROVE  Shape'
BY SMTT(30) DEF Shape, Fits, Layered, Go

\* Having every layer keeps manifests whole, jobs supplied and passes complete.
LEMMA LayeredSound ==
  ASSUME Shape, Sound, NEW j \in Workers, Layered(j)
  PROVE  (Whole /\ Held /\ Covered)'
<1>1. Whole'
  BY SMTT(30) DEF Shape, Fits, Sound, Whole, Held, Covered, Overlap, Writing, Removing, Readable, Layered, Go
<1>2. Held'
  BY SMTT(30) DEF Shape, Fits, Sound, Whole, Held, Covered, Overlap, Writing, Removing, Readable, Layered, Go
<1>3. Covered'
  BY SMTT(30) DEF Shape, Fits, Sound, Whole, Held, Covered, Overlap, Writing, Removing, Readable, Layered, Go
<1> QED BY <1>1, <1>2, <1>3

\* Verifying what was downloaded keeps the shape of the state: every worker has
\* what its step needs.
LEMMA VerifyShape ==
  ASSUME Shape, NEW j \in Workers, Verify(j)
  PROVE  Shape'
BY SMTT(30) DEF Shape, Fits, Verify, End, Go, NoScan, Pass, Unseen

\* Verifying what was downloaded keeps manifests whole, jobs supplied and
\* passes complete: a wrong blob is named by no manifest, as the job that
\* brought it has not written its own.
LEMMA VerifySound ==
  ASSUME Shape, Sound, NEW j \in Workers, Verify(j)
  PROVE  (Whole /\ Held /\ Covered)'
<1>1. Whole'
  BY SMTT(30) DEF Shape, Fits, Sound, Whole, Held, Covered, Overlap, Writing, Removing, Readable, Verify, End, Go, NoScan, Pass, Unseen
<1>2. Held'
  BY SMTT(30) DEF Shape, Fits, Sound, Whole, Held, Covered, Overlap, Writing, Removing, Readable, Verify, End, Go, NoScan, Pass, Unseen
<1>3. Covered'
  BY SMTT(30) DEF Shape, Fits, Sound, Whole, Held, Covered, Overlap, Writing, Removing, Readable, Verify, End, Go, NoScan, Pass, Unseen
<1> QED BY <1>1, <1>2, <1>3

\* An error that ends a job before its manifest is written keeps the shape of
\* the state: every worker has what its step needs.
LEMMA GiveUpShape ==
  ASSUME Shape, NEW j \in Workers, GiveUp(j)
  PROVE  Shape'
BY SMTT(30) DEF Shape, Fits, GiveUp, End, NoScan, Pass, Unseen

\* An error that ends a job before its manifest is written keeps manifests
\* whole, jobs supplied and passes complete.
LEMMA GiveUpSound ==
  ASSUME Shape, Sound, NEW j \in Workers, GiveUp(j)
  PROVE  (Whole /\ Held /\ Covered)'
<1>1. Whole'
  BY SMTT(30) DEF Shape, Fits, Sound, Whole, Held, Covered, Overlap, Writing, Removing, Readable, GiveUp, End, NoScan, Pass, Unseen
<1>2. Held'
  BY SMTT(30) DEF Shape, Fits, Sound, Whole, Held, Covered, Overlap, Writing, Removing, Readable, GiveUp, End, NoScan, Pass, Unseen
<1>3. Covered'
  BY SMTT(30) DEF Shape, Fits, Sound, Whole, Held, Covered, Overlap, Writing, Removing, Readable, GiveUp, End, NoScan, Pass, Unseen
<1> QED BY <1>1, <1>2, <1>3

\* Making the directory of the manifest keeps the shape of the state: every
\* worker has what its step needs.
LEMMA MkdirAllShape ==
  ASSUME Shape, NEW j \in Workers, MkdirAll(j)
  PROVE  Shape'
BY SMTT(30) DEF Shape, Fits, MkdirAll, Go

\* Making the directory of the manifest keeps manifests whole, jobs supplied
\* and passes complete.
LEMMA MkdirAllSound ==
  ASSUME Shape, Sound, NEW j \in Workers, MkdirAll(j)
  PROVE  (Whole /\ Held /\ Covered)'
<1>1. Whole'
  BY SMTT(30) DEF Shape, Fits, Sound, Whole, Held, Covered, Overlap, Writing, Removing, Readable, MkdirAll, Go
<1>2. Held'
  BY SMTT(30) DEF Shape, Fits, Sound, Whole, Held, Covered, Overlap, Writing, Removing, Readable, MkdirAll, Go
<1>3. Covered'
  BY SMTT(30) DEF Shape, Fits, Sound, Whole, Held, Covered, Overlap, Writing, Removing, Readable, MkdirAll, Go
<1> QED BY <1>1, <1>2, <1>3

\* Opening the source of a copy keeps the shape of the state: every worker has
\* what its step needs.
LEMMA OpenShape ==
  ASSUME Shape, NEW j \in Workers, Open(j)
  PROVE  Shape'
BY SMTT(30) DEF Shape, Fits, Open, End, Go, NoScan, Pass, Unseen

\* Opening the source of a copy keeps manifests whole, jobs supplied and passes
\* complete.
LEMMA OpenSound ==
  ASSUME Shape, Sound, NEW j \in Workers, Open(j)
  PROVE  (Whole /\ Held /\ Covered)'
<1>1. Whole'
  BY SMTT(30) DEF Shape, Fits, Sound, Whole, Held, Covered, Overlap, Writing, Removing, Readable, Open, End, Go, NoScan, Pass, Unseen
<1>2. Held'
  BY SMTT(30) DEF Shape, Fits, Sound, Whole, Held, Covered, Overlap, Writing, Removing, Readable, Open, End, Go, NoScan, Pass, Unseen
<1>3. Covered'
  BY SMTT(30) DEF Shape, Fits, Sound, Whole, Held, Covered, Overlap, Writing, Removing, Readable, Open, End, Go, NoScan, Pass, Unseen
<1> QED BY <1>1, <1>2, <1>3

\* Truncating the manifest file keeps the shape of the state: every worker has
\* what its step needs.
LEMMA TruncateShape ==
  ASSUME Shape, NEW j \in Workers, Truncate(j)
  PROVE  Shape'
BY SMTT(30) DEF Shape, Fits, Truncate, End, Go, NoScan, Pass, Unseen

\* Truncating the manifest file keeps manifests whole, jobs supplied and passes
\* complete: it can no longer be read.
LEMMA TruncateSound ==
  ASSUME Shape, Sound, NEW j \in Workers, Truncate(j)
  PROVE  (Whole /\ Held /\ Covered)'
<1>1. Whole'
  BY SMTT(30) DEF Shape, Fits, Sound, Whole, Held, Covered, Overlap, Writing, Removing, Readable, Truncate, End, Go, NoScan, Pass, Unseen
<1>2. Held'
  BY SMTT(30) DEF Shape, Fits, Sound, Whole, Held, Covered, Overlap, Writing, Removing, Readable, Truncate, End, Go, NoScan, Pass, Unseen
<1>3. Covered'
  BY SMTT(30) DEF Shape, Fits, Sound, Whole, Held, Covered, Overlap, Writing, Removing, Readable, Truncate, End, Go, NoScan, Pass, Unseen
<1> QED BY <1>1, <1>2, <1>3

\* Writing the manifest keeps the shape of the state: every worker has what its
\* step needs.
LEMMA WriteShape ==
  ASSUME Shape, NEW j \in Workers, Write(j)
  PROVE  Shape'
BY SMTT(30) DEF Shape, Fits, Write, Written, AfterWrite, Plan, End, Go, NoScan, Pass, Unseen

\* Writing the manifest keeps manifests whole, jobs supplied and passes
\* complete: every blob it names is there, since the job had them all and none
\* was removed beside it.
LEMMA WriteSound ==
  ASSUME Shape, Sound, NEW j \in Workers, Write(j)
  PROVE  (Whole /\ Held /\ Covered)'
<1> DEFINE new == Written(j)
           n == job[j].name
<1>1. at[j] = "write" /\ Writing(j) /\ got[j] = {}
  BY DEF Write, Writing, Shape, Fits
<1>2. has[j] \subseteq blobs \ bad
  BY <1>1 DEF Sound, Held, Overlap
<1>3. new \notin {Absent, Torn} => new \subseteq blobs \ bad
  <2>1. CASE new = has[j]
    BY <2>1, <1>2
  <2>2. CASE new = Torn
    BY <2>2
  <2>3. CASE job[j].op = "copy" /\ "from" \notin adrift[j] /\ new = manifest[job[j].from]
    <3>1. job[j].from \in Names
      BY <1>1, <2>3 DEF Shape, Fits
    <3> QED BY <2>3, <3>1 DEF Sound, Whole, Readable
  <2> QED BY <2>1, <2>2, <2>3 DEF Written
<1>4. /\ blobs' = blobs /\ bad' = bad
      /\ manifest' = manifest \/ manifest' = [manifest EXCEPT ![n] = new]
  BY DEF Write
<1> HIDE DEF new, n
<1>5. Whole'
  BY <1>3, <1>4 DEF Shape, Fits, Sound, Whole, Readable
<1>6. Held'
  BY SMTT(30) DEF Shape, Fits, Sound, Held, Writing, Write, AfterWrite, Plan, End, Go, NoScan, Pass, Unseen
<1>7. \A k \in Workers : ~ Removing(k)
  BY <1>1 DEF Sound, Overlap, Removing, Writing
<1>8. \A k \in Workers : ~ Removing(k)'
  BY <1>7 DEF Shape, Fits, Removing, Write, AfterWrite, Plan, End, Go, NoScan, Pass, Unseen
<1>9. Covered'
  BY <1>8 DEF Covered
<1> QED BY <1>5, <1>6, <1>9

\* Unlinking a manifest keeps the shape of the state: every worker has what its
\* step needs.
LEMMA UnlinkShape ==
  ASSUME Shape, NEW j \in Workers, Unlink(j)
  PROVE  Shape'
BY SMTT(30) DEF Shape, Fits, Unlink, End, Go, NoScan, Pass, Unseen

\* Unlinking a manifest keeps manifests whole, jobs supplied and passes
\* complete: no pass can have relied on it for keeping a blob that is still
\* named.
LEMMA UnlinkSound ==
  ASSUME Shape, Sound, NEW j \in Workers, Unlink(j)
  PROVE  (Whole /\ Held /\ Covered)'
<1>1. Whole'
  BY SMTT(30) DEF Shape, Fits, Sound, Whole, Readable, Unlink, End
<1>2. Held'
  <2>1. blobs' = blobs /\ \A k \in Workers : Writing(k)' => Writing(k) /\ got'[k] = got[k]
    BY DEF Unlink, Shape, Fits, Writing, End, Go, NoScan, Pass
  <2>2. \A k \in Workers : has'[k] \subseteq has[k] \/ has'[k] \subseteq blobs
    <3>1. CASE manifest[job[j].name] = Absent
      BY <3>1 DEF Unlink, Shape, Fits, End
    <3>2. job[j].name \in Names
      BY DEF Unlink, Shape, Fits
    <3>3. Readable(job[j].name) => manifest[job[j].name] \subseteq blobs
      BY <3>2 DEF Sound, Whole
    <3>4. CASE manifest[job[j].name] # Absent
      BY <3>3, <3>4 DEF Unlink, Shape, Fits
    <3> QED BY <3>1, <3>4
  <2> QED BY <2>1, <2>2 DEF Sound, Held
<1>3. Covered'
  BY SMTT(30) DEF Shape, Fits, Sound, Covered, Removing, Readable, Unlink, End, Go, NoScan, Pass, Unseen
<1> QED BY <1>1, <1>2, <1>3

\* Listing the manifests keeps the shape of the state: every worker has what
\* its step needs.
LEMMA GlobShape ==
  ASSUME Shape, NEW j \in Workers, Glob(j)
  PROVE  Shape'
BY SMTT(30) DEF Shape, Fits, Glob, Go, Pass, Unseen

\* Listing the manifests keeps manifests whole, jobs supplied and passes
\* complete: a pass that begins has every manifest still to read.
LEMMA GlobSound ==
  ASSUME Shape, Sound, NEW j \in Workers, Glob(j)
  PROVE  (Whole /\ Held /\ Covered)'
<1>1. Whole'
  BY SMTT(30) DEF Shape, Fits, Sound, Whole, Held, Covered, Overlap, Writing, Removing, Readable, Glob, Go, Pass, Unseen
<1>2. Held'
  BY SMTT(30) DEF Shape, Fits, Sound, Whole, Held, Covered, Overlap, Writing, Removing, Readable, Glob, Go, Pass, Unseen
<1>3. Covered'
  BY SMTT(30) DEF Shape, Fits, Sound, Whole, Held, Covered, Overlap, Writing, Removing, Readable, Glob, Go, Pass, Unseen
<1> QED BY <1>1, <1>2, <1>3

\* Reading one manifest keeps the shape of the state: every worker has what its
\* step needs.
LEMMA ScanShape ==
  ASSUME Shape, NEW j \in Workers, NEW n \in Names, Scan(j, n)
  PROVE  Shape'
BY SMTT(30) DEF Shape, Fits, Scan, End, Go, NoScan, Pass, Unseen

\* Reading one manifest keeps manifests whole, jobs supplied and passes
\* complete: what a pass has read is what the file says.
LEMMA ScanSound ==
  ASSUME Shape, Sound, NEW j \in Workers, NEW n \in Names, Scan(j, n)
  PROVE  (Whole /\ Held /\ Covered)'
<1>1. Whole'
  BY SMTT(30) DEF Shape, Fits, Sound, Whole, Held, Covered, Overlap, Writing, Removing, Readable, Scan, End, Go, NoScan, Pass, Unseen
<1>2. Held'
  BY SMTT(30) DEF Shape, Fits, Sound, Whole, Held, Covered, Overlap, Writing, Removing, Readable, Scan, End, Go, NoScan, Pass, Unseen
<1>3. Covered'
  BY SMTT(30) DEF Shape, Fits, Sound, Whole, Held, Covered, Overlap, Writing, Removing, Readable, Scan, End, Go, NoScan, Pass, Unseen
<1> QED BY <1>1, <1>2, <1>3

\* The end of a pass keeps the shape of the state: every worker has what its
\* step needs.
LEMMA ScannedShape ==
  ASSUME Shape, NEW j \in Workers, Scanned(j)
  PROVE  Shape'
BY SMTT(30) DEF Shape, Fits, Scanned, Go

\* The end of a pass keeps manifests whole, jobs supplied and passes complete.
LEMMA ScannedSound ==
  ASSUME Shape, Sound, NEW j \in Workers, Scanned(j)
  PROVE  (Whole /\ Held /\ Covered)'
<1>1. Whole'
  BY SMTT(30) DEF Shape, Fits, Sound, Whole, Held, Covered, Overlap, Writing, Removing, Readable, Scanned, Go
<1>2. Held'
  BY SMTT(30) DEF Shape, Fits, Sound, Whole, Held, Covered, Overlap, Writing, Removing, Readable, Scanned, Go
<1>3. Covered'
  BY SMTT(30) DEF Shape, Fits, Sound, Whole, Held, Covered, Overlap, Writing, Removing, Readable, Scanned, Go
<1> QED BY <1>1, <1>2, <1>3

\* Removing unused blobs keeps the shape of the state: every worker has what
\* its step needs.
LEMMA RemoveShape ==
  ASSUME Shape, NEW j \in Workers, Remove(j)
  PROVE  Shape'
BY SMTT(30) DEF Shape, Fits, Remove, End, Go, NoScan, Pass, Unseen, InUse

\* Removing unused blobs keeps manifests whole, jobs supplied and passes
\* complete: the pass has seen every manifest as it is, so none that is named
\* goes.
LEMMA RemoveSound ==
  ASSUME Shape, Sound, NEW j \in Workers, Remove(j)
  PROVE  (Whole /\ Held /\ Covered)'
<1>1. Whole'
  BY SMTT(30) DEF Shape, Fits, Sound, Whole, Held, Covered, Overlap, Writing, Removing, Readable, Remove, End, Go, NoScan, Pass, Unseen, InUse
<1>2. Held'
  BY SMTT(30) DEF Shape, Fits, Sound, Whole, Held, Covered, Overlap, Writing, Removing, Readable, Remove, End, Go, NoScan, Pass, Unseen, InUse
<1>3. Covered'
  BY SMTT(30) DEF Shape, Fits, Sound, Whole, Held, Covered, Overlap, Writing, Removing, Readable, Remove, End, Go, NoScan, Pass, Unseen, InUse
<1> QED BY <1>1, <1>2, <1>3

\* Dropping the entry of a deleted model and starting the pass that removes its
\* layers keeps the shape of the state: every worker has what its step needs.
LEMMA ForgetShape ==
  ASSUME Shape, NEW j \in Workers, Forget(j)
  PROVE  Shape'
BY SMTT(30) DEF Shape, Fits, Forget, Plan, Go, Pass, Unseen

\* Dropping the entry of a deleted model and starting the pass that removes its
\* layers keeps manifests whole, jobs supplied and passes complete.
LEMMA ForgetSound ==
  ASSUME Shape, Sound, NEW j \in Workers, Forget(j)
  PROVE  (Whole /\ Held /\ Covered)'
<1>1. Whole'
  BY SMTT(30) DEF Shape, Fits, Sound, Whole, Held, Covered, Overlap, Writing, Removing, Readable, Forget, Plan, Go, Pass, Unseen
<1>2. Held'
  BY SMTT(30) DEF Shape, Fits, Sound, Whole, Held, Covered, Overlap, Writing, Removing, Readable, Forget, Plan, Go, Pass, Unseen
<1>3. Covered'
  BY SMTT(30) DEF Shape, Fits, Sound, Whole, Held, Covered, Overlap, Writing, Removing, Readable, Forget, Plan, Go, Pass, Unseen
<1> QED BY <1>1, <1>2, <1>3

\* Reading a manifest again for the list cache keeps the shape of the state:
\* every worker has what its step needs.
LEMMA RefreshShape ==
  ASSUME Shape, NEW j \in Workers, Refresh(j)
  PROVE  Shape'
BY SMTT(30) DEF Shape, Fits, Refresh, Go, Pass, Unseen

\* Reading a manifest again for the list cache keeps manifests whole, jobs
\* supplied and passes complete.
LEMMA RefreshSound ==
  ASSUME Shape, Sound, NEW j \in Workers, Refresh(j)
  PROVE  (Whole /\ Held /\ Covered)'
<1>1. Whole'
  BY SMTT(30) DEF Shape, Fits, Sound, Whole, Held, Covered, Overlap, Writing, Removing, Readable, Refresh, Go, Pass, Unseen
<1>2. Held'
  BY SMTT(30) DEF Shape, Fits, Sound, Whole, Held, Covered, Overlap, Writing, Removing, Readable, Refresh, Go, Pass, Unseen
<1>3. Covered'
  BY SMTT(30) DEF Shape, Fits, Sound, Whole, Held, Covered, Overlap, Writing, Removing, Readable, Refresh, Go, Pass, Unseen
<1> QED BY <1>1, <1>2, <1>3

\* Setting the entry of one model keeps the shape of the state: every worker
\* has what its step needs.
LEMMA EnterShape ==
  ASSUME Shape, NEW j \in Workers, Enter(j)
  PROVE  Shape'
BY SMTT(30) DEF Shape, Fits, Enter, End, NoScan, Pass, Unseen

\* Setting the entry of one model keeps manifests whole, jobs supplied and
\* passes complete.
LEMMA EnterSound ==
  ASSUME Shape, Sound, NEW j \in Workers, Enter(j)
  PROVE  (Whole /\ Held /\ Covered)'
<1>1. Whole'
  BY SMTT(30) DEF Shape, Fits, Sound, Whole, Held, Covered, Overlap, Writing, Removing, Readable, Enter, End, NoScan, Pass, Unseen
<1>2. Held'
  BY SMTT(30) DEF Shape, Fits, Sound, Whole, Held, Covered, Overlap, Writing, Removing, Readable, Enter, End, NoScan, Pass, Unseen
<1>3. Covered'
  BY SMTT(30) DEF Shape, Fits, Sound, Whole, Held, Covered, Overlap, Writing, Removing, Readable, Enter, End, NoScan, Pass, Unseen
<1> QED BY <1>1, <1>2, <1>3

\* Comparing the manifests with the entries keeps the shape of the state: every
\* worker has what its step needs.
LEMMA DiffShape ==
  ASSUME Shape, NEW j \in Workers, Diff(j)
  PROVE  Shape'
BY SMTT(30) DEF Shape, Fits, Diff, Go

\* Comparing the manifests with the entries keeps manifests whole, jobs
\* supplied and passes complete.
LEMMA DiffSound ==
  ASSUME Shape, Sound, NEW j \in Workers, Diff(j)
  PROVE  (Whole /\ Held /\ Covered)'
<1>1. Whole'
  BY SMTT(30) DEF Shape, Fits, Sound, Whole, Held, Covered, Overlap, Writing, Removing, Readable, Diff, Go
<1>2. Held'
  BY SMTT(30) DEF Shape, Fits, Sound, Whole, Held, Covered, Overlap, Writing, Removing, Readable, Diff, Go
<1>3. Covered'
  BY SMTT(30) DEF Shape, Fits, Sound, Whole, Held, Covered, Overlap, Writing, Removing, Readable, Diff, Go
<1> QED BY <1>1, <1>2, <1>3

\* Setting the entries keeps the shape of the state: every worker has what its
\* step needs.
LEMMA ApplyShape ==
  ASSUME Shape, NEW j \in Workers, Apply(j)
  PROVE  Shape'
BY SMTT(30) DEF Shape, Fits, Apply, Go

\* Setting the entries keeps manifests whole, jobs supplied and passes
\* complete.
LEMMA ApplySound ==
  ASSUME Shape, Sound, NEW j \in Workers, Apply(j)
  PROVE  (Whole /\ Held /\ Covered)'
<1>1. Whole'
  BY SMTT(30) DEF Shape, Fits, Sound, Whole, Held, Covered, Overlap, Writing, Removing, Readable, Apply, Go
<1>2. Held'
  BY SMTT(30) DEF Shape, Fits, Sound, Whole, Held, Covered, Overlap, Writing, Removing, Readable, Apply, Go
<1>3. Covered'
  BY SMTT(30) DEF Shape, Fits, Sound, Whole, Held, Covered, Overlap, Writing, Removing, Readable, Apply, Go
<1> QED BY <1>1, <1>2, <1>3

\* Answering a list request keeps the shape of the state: every worker has what
\* its step needs.
LEMMA ReadShape ==
  ASSUME Shape, NEW j \in Workers, Read(j)
  PROVE  Shape'
BY SMTT(30) DEF Shape, Fits, Read, End, NoScan, Pass, Unseen

\* Answering a list request keeps manifests whole, jobs supplied and passes
\* complete.
LEMMA ReadSound ==
  ASSUME Shape, Sound, NEW j \in Workers, Read(j)
  PROVE  (Whole /\ Held /\ Covered)'
<1>1. Whole'
  BY SMTT(30) DEF Shape, Fits, Sound, Whole, Held, Covered, Overlap, Writing, Removing, Readable, Read, End, NoScan, Pass, Unseen
<1>2. Held'
  BY SMTT(30) DEF Shape, Fits, Sound, Whole, Held, Covered, Overlap, Writing, Removing, Readable, Read, End, NoScan, Pass, Unseen
<1>3. Covered'
  BY SMTT(30) DEF Shape, Fits, Sound, Whole, Held, Covered, Overlap, Writing, Removing, Readable, Read, End, NoScan, Pass, Unseen
<1> QED BY <1>1, <1>2, <1>3

-----------------------------------------------------------------------------
(* A new job holds nothing and removes nothing.                              *)

\* Starting a job keeps manifests whole, jobs supplied and passes complete.
LEMMA StartSound ==
  ASSUME Shape, Sound, NEW j \in Workers, NEW job0, NEW s, Start(j, job0, s),
         s # "scan", s # "remove", \A k \in Workers \ {j} : scan'[k] = scan[k]
  PROVE  (Whole /\ Held /\ Covered)'
<1>1. Whole'
  BY DEF Sound, Whole, Readable, Start
<1>2. Held'
  BY DEF Shape, Fits, Sound, Held, Writing, Start, Go
<1>3. Covered'
  BY DEF Shape, Fits, Sound, Covered, Removing, Readable, Start, Go
<1> QED BY <1>1, <1>2, <1>3

\* The start of a pull keeps the shape of the state: every worker has what its
\* step needs.
LEMMA PullShape ==
  ASSUME Shape, NEW j \in Requests \cup Importers, NEW n \in Names, NEW content, Pull(j, n, content)
  PROVE  Shape'
BY SMTT(30), StoreAssumption DEF Shape, Fits, Pull, Start, Go, Job, Workers

\* The start of a create keeps the shape of the state: every worker has what
\* its step needs.
LEMMA CreateShape ==
  ASSUME Shape, NEW j \in Requests \cup Importers, NEW n \in Names, NEW from \in Names, NEW made, Create(j, n, from, made)
  PROVE  Shape'
BY SMTT(30), StoreAssumption DEF Shape, Fits, Create, Start, Go, Job, Workers

\* The start of an import keeps the shape of the state: every worker has what
\* its step needs.
LEMMA ImportShape ==
  ASSUME Shape, NEW j \in Requests \cup Importers, NEW n \in Names, NEW content, Import(j, n, content)
  PROVE  Shape'
BY SMTT(30), StoreAssumption DEF Shape, Fits, Import, Start, Go, Job, Workers

\* The start of a copy keeps the shape of the state: every worker has what its
\* step needs.
LEMMA CopyShape ==
  ASSUME Shape, NEW j \in Requests \cup Importers, NEW n \in Names, NEW from \in Names, Copy(j, from, n)
  PROVE  Shape'
BY SMTT(30), StoreAssumption DEF Shape, Fits, Copy, Start, Go, Job, Workers

\* The start of a delete keeps the shape of the state: every worker has what
\* its step needs.
LEMMA DeleteShape ==
  ASSUME Shape, NEW j \in Requests \cup Importers, NEW n \in Names, Delete(j, n)
  PROVE  Shape'
BY SMTT(30), StoreAssumption DEF Shape, Fits, Delete, Start, Go, Job, Workers

\* The start of a list keeps the shape of the state: every worker has what its
\* step needs.
LEMMA ListShape ==
  ASSUME Shape, NEW j \in Requests \cup Importers, List(j)
  PROVE  Shape'
BY SMTT(30), StoreAssumption DEF Shape, Fits, List, Start, Go, Job, Workers, Plan, Pass, Unseen

-----------------------------------------------------------------------------
(* Time, the hydration and restarts                                          *)

\* Hydrating one entry keeps the shape of the state: every worker has what its
\* step needs.
LEMMA FillShape ==
  ASSUME Shape, NEW n \in Names, Fill(n)
  PROVE  Shape'
BY SMTT(30) DEF Shape, Fits, Fill, Pass

\* Hydrating one entry keeps manifests whole, jobs supplied and passes
\* complete.
LEMMA FillSound ==
  ASSUME Shape, Sound, NEW n \in Names, Fill(n)
  PROVE  (Whole /\ Held /\ Covered)'
BY SMTT(30) DEF Shape, Fits, Sound, Whole, Held, Covered, Writing, Removing, Readable, Fill, Pass

\* The end of the hydration keeps the shape of the state: every worker has what
\* its step needs.
LEMMA FilledShape ==
  ASSUME Shape, Filled
  PROVE  Shape'
BY SMTT(30) DEF Shape, Fits, Filled, End, NoScan, Pass, Unseen

\* The end of the hydration keeps manifests whole, jobs supplied and passes
\* complete.
LEMMA FilledSound ==
  ASSUME Shape, Sound, Filled
  PROVE  (Whole /\ Held /\ Covered)'
BY SMTT(30) DEF Shape, Fits, Sound, Whole, Held, Covered, Writing, Removing, Readable, Filled, End,
                NoScan, Pass, Unseen

\* The end of the grace period keeps the shape of the state: every worker has
\* what its step needs.
LEMMA AgeShape ==
  ASSUME Shape, Age
  PROVE  Shape'
BY DEF Shape, Fits, Age

\* The end of the grace period keeps manifests whole, jobs supplied and passes
\* complete.
LEMMA AgeSound ==
  ASSUME Shape, Sound, Age
  PROVE  (Whole /\ Held /\ Covered)'
BY DEF Sound, Whole, Held, Covered, Writing, Removing, Readable, Age

\* A restart keeps the shape of the state: imports go on and the hydrator, not
\* being one, starts over.
LEMMA RestartShape ==
  ASSUME Shape, Restart
  PROVE  Shape'
<1>1. /\ DOMAIN manifest' = Names
      /\ DOMAIN job' = Workers /\ DOMAIN at' = Workers /\ DOMAIN has' = Workers
      /\ DOMAIN got' = Workers /\ DOMAIN scan' = Workers /\ DOMAIN adrift' = Workers
  BY DEF Shape, Fits, Restart
<1>2. \A k \in Importers : /\ job'[k] = job[k] /\ at'[k] = at[k] /\ has'[k] = has[k]
                           /\ got'[k] = got[k] /\ scan'[k] = scan[k]
  BY StoreAssumption DEF Restart, Workers
<1>3. \A k \in Workers \ Importers :
        /\ at'[k] = IF k = Hydrator THEN "glob" ELSE "idle"
        /\ has'[k] = {} /\ got'[k] = {} /\ job'[k] = NoJob
        /\ scan'[k] = IF k = Hydrator THEN Hydrating ELSE NoScan
  BY StoreAssumption DEF Restart, Workers
<1>4. \A k \in Importers : Fits(k)'
  BY <1>2 DEF Shape, Fits, Workers
<1>5. \A k \in Workers \ Importers : Fits(k)'
  BY <1>3 DEF Fits, Hydrating, NoScan, Pass, Unseen
<1> QED BY <1>1, <1>4, <1>5 DEF Shape, Fits

\* A restart prunes blobs that are old, unnamed and, as what an import has is
\* within the grace period, counted on by nobody.
LEMMA RestartSound ==
  ASSUME Shape, Sound, Restart,
         \A j \in Importers : Writing(j) => has[j] \subseteq fresh
  PROVE  (Whole /\ Held /\ Covered)'
<1> DEFINE pruned == blobs \ blobs'
<1>1. /\ pruned \cap fresh = {} /\ blobs' = blobs \ pruned /\ bad' \subseteq bad
      /\ \A n \in Names : Readable(n) => manifest[n] \cap pruned = {}
  BY DEF Restart, Unused
<1>2. \A k \in Importers : /\ at'[k] = at[k] /\ has'[k] = has[k]
                           /\ got'[k] = got[k] /\ scan'[k] = scan[k]
  BY StoreAssumption DEF Restart, Workers
<1>3. \A k \in Workers \ Importers : ~ Writing(k)' /\ ~ Removing(k)'
  BY StoreAssumption DEF Restart, Workers, Writing, Removing, Hydrating, NoScan, Pass
<1>4. manifest' = manifest
  BY DEF Restart
<1> HIDE DEF pruned
<1>5. Whole'
  BY <1>1, <1>4 DEF Sound, Whole, Readable
<1>6. Held'
  <2>1. SUFFICES ASSUME NEW k \in Workers, Writing(k)'
                 PROVE  has'[k] \subseteq blobs' \cup got'[k]
    BY DEF Held
  <2>2. k \in Importers
    BY <1>3, <2>1
  <2>3. Writing(k)
    BY <1>2, <2>1, <2>2 DEF Writing
  <2> QED BY <1>1, <1>2, <2>2, <2>3 DEF Sound, Held
<1>7. Covered'
  BY <1>2, <1>3, <1>4 DEF Sound, Covered, Removing, Readable
<1> QED BY <1>5, <1>6, <1>7

-----------------------------------------------------------------------------
(* The invariant                                                             *)

\* The installed models of the start are whole, and nobody is at work.
LEMMA InitIInv == Init => IInv
<1> SUFFICES ASSUME Init PROVE IInv
  OBVIOUS
<1>1. Shape
  BY SMTT(30) DEF Init, Shape, Fits, NoScan, Pass, Unseen
<1>2. Whole
  BY DEF Init, Whole, Readable
<1>3. \A k \in Workers : ~ Writing(k) /\ ~ Removing(k)
  BY DEF Init, Writing, Removing
<1> QED BY <1>1, <1>2, <1>3 DEF IInv, Sound, Held, Covered, Overlap

\* Every step of a job keeps the shape, and soundness but for an overlap.
LEMMA AdvanceIInv ==
  ASSUME Shape, NEW j \in Workers, Advance(j)
  PROVE  Shape' /\ (Sound => (Whole /\ Held /\ Covered)')
<1>1. CASE Base(j)
  BY <1>1, BaseShape, BaseSound
<1>2. CASE Drop(j)
  BY <1>2, DropShape, DropSound
<1>3. CASE Layer(j)
  BY <1>3, LayerShape, LayerSound
<1>4. CASE Layered(j)
  BY <1>4, LayeredShape, LayeredSound
<1>5. CASE Verify(j)
  BY <1>5, VerifyShape, VerifySound
<1>6. CASE GiveUp(j)
  BY <1>6, GiveUpShape, GiveUpSound
<1>7. CASE MkdirAll(j)
  BY <1>7, MkdirAllShape, MkdirAllSound
<1>8. CASE Open(j)
  BY <1>8, OpenShape, OpenSound
<1>9. CASE Truncate(j)
  BY <1>9, TruncateShape, TruncateSound
<1>10. CASE Write(j)
  BY <1>10, WriteShape, WriteSound
<1>11. CASE Unlink(j)
  BY <1>11, UnlinkShape, UnlinkSound
<1>12. CASE Glob(j)
  BY <1>12, GlobShape, GlobSound
<1>13. CASE \E n \in Names : Scan(j, n)
  BY <1>13, ScanShape, ScanSound
<1>14. CASE Scanned(j)
  BY <1>14, ScannedShape, ScannedSound
<1>15. CASE Remove(j)
  BY <1>15, RemoveShape, RemoveSound
<1>16. CASE Forget(j)
  BY <1>16, ForgetShape, ForgetSound
<1>17. CASE Refresh(j)
  BY <1>17, RefreshShape, RefreshSound
<1>18. CASE Enter(j)
  BY <1>18, EnterShape, EnterSound
<1>19. CASE Diff(j)
  BY <1>19, DiffShape, DiffSound
<1>20. CASE Apply(j)
  BY <1>20, ApplyShape, ApplySound
<1>21. CASE Read(j)
  BY <1>21, ReadShape, ReadSound
<1> QED BY <1>1, <1>2, <1>3, <1>4, <1>5, <1>6, <1>7, <1>8, <1>9, <1>10, <1>11, <1>12, <1>13, <1>14, <1>15, <1>16, <1>17, <1>18, <1>19, <1>20, <1>21 DEF Advance

\* So does every start of a job.
LEMMA AskIInv ==
  ASSUME Shape, NEW j \in Requests, Ask(j)
  PROVE  Shape' /\ (Sound => (Whole /\ Held /\ Covered)')
<1>0. j \in Workers /\ j \in Requests \cup Importers
  BY DEF Workers
<1>1. CASE \E n \in Names, content \in Published : Pull(j, n, content)
  BY <1>0, <1>1, PullShape, StartSound DEF Pull
<1>2. CASE \E n \in Names, from \in Names : Copy(j, from, n)
  BY <1>0, <1>2, CopyShape, StartSound DEF Copy
<1>3. CASE \E n \in Names, from \in Names, made \in Made : Create(j, n, from, made)
  BY <1>0, <1>3, CreateShape, StartSound DEF Create
<1>4. CASE \E n \in Names : Delete(j, n)
  BY <1>0, <1>4, DeleteShape, StartSound DEF Delete
<1>5. CASE List(j)
  <2>1. \A k \in Workers \ {j} : scan'[k] = scan[k]
    BY <1>5 DEF List, Plan, Shape, Fits
  <2> QED BY <1>0, <1>5, <2>1, ListShape, StartSound DEF List
<1> QED BY <1>1, <1>2, <1>3, <1>4, <1>5 DEF Ask

\* So does everything but a restart.
LEMMA StepIInv ==
  ASSUME Shape, Step
  PROVE  Shape' /\ (Sound => (Whole /\ Held /\ Covered)')
<1>1. CASE \E j \in Requests : Ask(j)
  BY <1>1, AskIInv
<1>2. CASE \E j \in Importers, n \in Names, content \in Published : Import(j, n, content)
  BY <1>2, ImportShape, StartSound DEF Import, Workers
<1>3. CASE \E j \in Workers : Advance(j)
  BY <1>3, AdvanceIInv
<1>4. CASE \E n \in Names : Fill(n)
  BY <1>4, FillShape, FillSound
<1>5. CASE Filled
  BY <1>5, FilledShape, FilledSound
<1>6. CASE Age
  BY <1>6, AgeShape, AgeSound
<1> QED BY <1>1, <1>2, <1>3, <1>4, <1>5, <1>6 DEF Step

\* Every step preserves the invariant, or races.
LEMMA NextIInv == IInv /\ [Next]_storeVars => IInv'
<1> SUFFICES ASSUME IInv, [Next]_storeVars PROVE IInv'
  OBVIOUS
<1>1. Shape /\ (raced \/ Sound)
  BY DEF IInv
<1>2. CASE UNCHANGED storeVars
  <2>1. Shape'
    BY <1>1, <1>2 DEF Shape, Fits, storeVars
  <2>2. Sound => Sound'
    BY <1>2 DEF Sound, Whole, Held, Covered, Overlap, Writing, Removing, Readable, storeVars
  <2>3. raced => raced'
    BY <1>2 DEF storeVars
  <2> QED BY <1>1, <2>1, <2>2, <2>3 DEF IInv
<1>3. CASE Step /\ raced' = (raced \/ Overlap')
  <2>1. Shape' /\ (Sound => (Whole /\ Held /\ Covered)')
    BY <1>1, <1>3, StepIInv
  <2>2. raced' \/ (~ raced /\ ~ Overlap')
    BY <1>3
  <2> QED BY <1>1, <2>1, <2>2 DEF IInv, Sound
<1>4. CASE /\ Restart
           /\ raced' = \/ raced \/ Overlap'
                       \/ \E j \in Importers : Writing(j) /\ ~ (has[j] \subseteq fresh)
  <2>1. raced' \/ (/\ ~ raced /\ ~ Overlap'
                   /\ \A j \in Importers : Writing(j) => has[j] \subseteq fresh)
    BY <1>4
  <2>2. CASE raced'
    BY <1>1, <1>4, <2>2, RestartShape DEF IInv
  <2>3. CASE /\ ~ raced /\ ~ Overlap'
             /\ \A j \in Importers : Writing(j) => has[j] \subseteq fresh
    BY <1>1, <1>4, <2>3, RestartShape, RestartSound DEF IInv, Sound
  <2> QED BY <2>1, <2>2, <2>3
<1> QED BY <1>2, <1>3, <1>4 DEF Next

\* Whatever the names, blobs, requests and importers: the blobs of every
\* manifest that can be read are there and are what their digests say, unless a
\* removal has run beside a job that had yet to write its manifest, or a job has
\* taken a wrong blob for good.
THEOREM StoredModelsAreWhole == Spec => []ManifestsAreWhole
<1>1. IInv => ManifestsAreWhole
  BY DEF IInv, Sound, Whole, ManifestsAreWhole
<1> QED BY <1>1, InitIInv, NextIInv, PTL DEF Spec

-----------------------------------------------------------------------------
(* The list of models, asked while nothing else runs.                        *)

\* What a pass has to have seen of the manifest of n.
Now(n) == IF Readable(n) THEN manifest[n] ELSE Absent

\* An entry for n that fits its manifest.
Right(n, entry) ==
  /\ ~ Readable(n) => entry = Absent
  /\ Readable(n) => entry = manifest[n] \/ (entry = Absent /\ ~ Buildable(manifest[n]))

\* What the only job that runs knows of the manifests, step by step.
Knows(j) ==
  /\ at[j] = "scan" => \A n \in Names :
       IF n \in scan[j].todo THEN manifest[n] # Absent ELSE scan[j].seen[n] = Now(n)
  /\ at[j] \in {"remove", "diff"} => \A n \in Names : scan[j].seen[n] = Now(n)
  /\ at[j] = "apply" => \A n \in Names :
       Right(n, IF n \in scan[j].keep THEN entries[n] ELSE scan[j].seen[n])
  /\ at[j] = "read" => \A n \in Names : Right(n, entries[n])

\* A job that is said to run alone does, and knows what there is.
AloneInv ==
  calm # NoJob =>
    calm \in Workers /\ Knows(calm) /\ \A k \in Workers \ {calm} : at[k] = "idle"

\* Another job begins, and knows nothing yet.
LEMMA StartAlone ==
  ASSUME Shape, AloneInv, NEW j \in Workers, NEW new, 
         NEW s \in {"layers", "base", "mkdir", "unlink", "glob"}, Start(j, new, s)
  PROVE  AloneInv'
BY StoreAssumption DEF Shape, AloneInv, Knows, Start, Go

\* The steps of the only job that runs.
LEMMA AdvanceAlone ==
  ASSUME Shape, AloneInv, NEW j \in Workers, Advance(j)
  PROVE  AloneInv'
<1>1. at[j] # "idle" /\ calm' = calm
  BY DEF Advance, Base, Drop, Layer, Layered, Verify, GiveUp, MkdirAll, Open, Truncate, Write,
     Unlink, Glob, Scan, Scanned, Remove, Forget, Refresh, Enter, Diff, Apply, Read
<1>2. CASE calm = NoJob
  BY <1>1, <1>2 DEF AloneInv
<1>3. CASE calm # NoJob
  <2>1. /\ j = calm /\ Knows(j) /\ \A k \in Workers \ {j} : at[k] = "idle"
        /\ DOMAIN at = Workers /\ DOMAIN scan = Workers /\ DOMAIN scan[j].seen = Names
        /\ scan[j].next \in {"idle", "layers", "refresh", "diff", "fill"}
    BY <1>1, <1>3 DEF AloneInv, Shape, Fits
  <2>2. \A k \in Workers \ {j} : at'[k] = "idle"
    BY <2>1 DEF Advance, Base, Drop, Layer, Layered, Verify, GiveUp, MkdirAll, Open, Truncate,
       Write, AfterWrite, Unlink, Glob, Scan, Scanned, Remove, Forget, Refresh, Enter, Diff,
       Apply, Read, Go, End
  <2>3. Knows(j)'
    <3>1. CASE at'[j] \notin {"scan", "remove", "diff", "apply", "read"}
      BY <3>1 DEF Knows
    <3>2. CASE Glob(j)
      BY <2>1, <3>2 DEF Glob, Go, Pass, Unseen, Knows, Now, Readable
    <3>3. CASE \E n \in Names : Scan(j, n)
      <4>1. PICK n \in Names : Scan(j, n)
        BY <3>3
      <4>2. CASE manifest[n] # Absent
        BY <2>1, <4>1, <4>2 DEF Scan, Pass, Knows, Now, Readable
      <4>3. CASE manifest[n] = Absent
        BY <2>1, <3>1, <4>1, <4>3 DEF Scan, End, Go
      <4> QED BY <4>2, <4>3
    <3>4. CASE Scanned(j)
      BY <2>1, <3>4 DEF Scanned, Go, Knows, Now, Readable
    <3>5. CASE Remove(j)
      BY <2>1, <3>5 DEF Remove, End, Go, Knows, Now, Readable
    <3>6. CASE Diff(j)
      <4>1. at'[j] = "apply" /\ UNCHANGED <<manifest, entries, blobs>>
        BY <2>1, <3>6 DEF Diff, Go
      <4>2. /\ scan'[j].keep = {n \in Names : /\ scan[j].seen[n] # Absent
                                  /\ \/ scan[j].seen[n] = entries[n]
                                     \/ ~ Buildable(scan[j].seen[n]) /\ entries[n] = Absent}
            /\ scan'[j].seen = [n \in Names |->
                 IF scan[j].seen[n] # Absent /\ Buildable(scan[j].seen[n])
                 THEN scan[j].seen[n] ELSE Absent]
        BY <2>1, <3>6 DEF Diff
      <4>3. \A n \in Names : scan[j].seen[n] = Now(n)
        BY <2>1, <3>6 DEF Diff, Knows
      <4>4. \A n \in Names : (Readable(n))' <=> Readable(n)
        BY <4>1 DEF Readable
      <4>5. \A c : Buildable(c)' <=> Buildable(c)
        BY <4>1 DEF Buildable
      <4>6. ASSUME NEW n \in Names
            PROVE  Right(n, IF n \in scan[j].keep THEN entries[n] ELSE scan[j].seen[n])'
        <5>1. CASE ~ Readable(n)
          BY <4>1, <4>2, <4>3, <4>4, <5>1 DEF Now, Right
        <5>2. CASE Readable(n)
          <6>1. scan[j].seen[n] = manifest[n] /\ manifest[n] # Absent
            BY <4>3, <5>2 DEF Now, Readable
          <6> QED BY <4>1, <4>2, <4>4, <4>5, <5>2, <6>1 DEF Right
        <5> QED BY <5>1, <5>2
      <4> QED BY <4>1, <4>6 DEF Knows
    <3>7. CASE Apply(j)
      BY <2>1, <3>7 DEF Apply, Go, Knows, Right, Readable, Buildable
    <3> QED BY <2>1, <3>1, <3>2, <3>3, <3>4, <3>5, <3>6, <3>7 DEF Advance, Base, Drop, Layer,
            Layered, Verify, GiveUp, MkdirAll, Open, Truncate, Write, AfterWrite, Unlink, Forget,
            Refresh, Enter, Read, Go, End
  <2> QED BY <1>1, <2>1, <2>2, <2>3 DEF AloneInv
<1> QED BY <1>2, <1>3

\* Every step.
LEMMA AloneStep ==
  ASSUME Shape, AloneInv, [Next]_storeVars
  PROVE  AloneInv'
<1>1. CASE UNCHANGED storeVars
  BY <1>1 DEF storeVars, AloneInv, Knows, Now, Right, Readable, Buildable
<1>2. ASSUME NEW j \in Requests, Ask(j) PROVE AloneInv'
  BY <1>2, StartAlone DEF Ask, Pull, Copy, Create, Delete, List, Workers
<1>3. ASSUME NEW j \in Importers, NEW n \in Names, NEW content \in Published, Import(j, n, content)
      PROVE  AloneInv'
  BY <1>3, StartAlone DEF Import, Workers
<1>4. CASE (\E n \in Names : Fill(n)) \/ Filled
  <2>1. at[Hydrator] = "fill" /\ calm' = calm /\ Hydrator \in Workers
    BY <1>4 DEF Fill, Filled, Workers
  <2>2. at'[Hydrator] \in {"fill", "idle"} /\ \A k \in Workers : k # Hydrator => at'[k] = at[k]
    BY <1>4, <2>1 DEF Fill, Filled, End, Shape
  <2> QED BY <2>1, <2>2 DEF AloneInv, Knows
<1>5. CASE Age
  BY <1>5 DEF Age, AloneInv, Knows, Now, Right, Readable, Buildable
<1>6. CASE Restart
  BY <1>6 DEF Restart, AloneInv
<1> QED BY <1>1, <1>2, <1>3, <1>4, <1>5, <1>6, AdvanceAlone DEF Next, Step

\* Whatever jobs, crashes and restarts have left in the cache: a list that runs
\* alone answers with the manifests that can be read and whose config and
\* template are there (ListHandler, syncManifests).
THEOREM ListsAreExact == Spec => []ListAloneIsExact
<1>1. Init => AloneInv
  BY DEF Init, AloneInv
<1>2. AloneInv => ListAloneIsExact
  BY StoreAssumption DEF AloneInv, Knows, Right, ListAloneIsExact, Workers
<1>3. IInv => Shape
  BY DEF IInv
<1>4. IInv /\ AloneInv /\ [Next]_storeVars => AloneInv'
  BY <1>3, AloneStep
<1> QED BY <1>1, <1>2, <1>4, InitIInv, NextIInv, PTL DEF Spec

=============================================================================
